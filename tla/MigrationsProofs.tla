-------------------------- MODULE MigrationsProofs --------------------------
(***************************************************************************)
(* What the eight operations leave of a database, for any number of        *)
(* receipts and punch events: after every sequence of migrations and       *)
(* submissions the schema is a function of the layers that are applied,    *)
(* whatever the order they came in.  The six properties follow from that.  *)
(***************************************************************************)
EXTENDS Migrations, TLAPS

\* A database on which every statement so far went through, field by field.
Through == TRUE
Database(tables, columns, unique, rows) ==
    [columns |-> columns, ok |-> Through, rows |-> rows, tables |-> tables, unique |-> unique]

ColumnSets == [Tables -> SUBSET Columns]
Cleared(C, t) == [C EXCEPT ![t] = {}]
Widened(C, t, X) == [C EXCEPT ![t] = C[t] \cup X]
Narrowed(C, t, X) == [C EXCEPT ![t] = C[t] \ X]
-----------------------------------------------------------------------------
(* The statements, on any database *)

LEMMA CreateTableStatement ==
    ASSUME NEW T, NEW C, NEW U, NEW R, NEW t, t \notin T, References(t) \subseteq T
    PROVE  CreateTable(Database(T, C, U, R), t) = Database(T \cup {t}, C, U, R)
BY DEF CreateTable, Database

LEMMA DropTableStatement ==
    ASSUME NEW T, NEW C \in ColumnSets, NEW U, NEW R, NEW t \in Tables,
           \A child \in T : t \notin References(child)
    PROVE  DropTable(Database(T, C, U, R), t) =
             IF t = "punch_events" THEN Database(T \ {t}, Cleared(C, t), {}, {})
             ELSE Database(T \ {t}, Cleared(C, t), U, R)
<1> DEFINE d == Database(T, C, U, R)
           gone == Database(T \ {t}, Cleared(C, t), U, R)
<1>1. ~\E child \in d.tables : t \in References(child)
  BY DEF Database
<1>2. [d EXCEPT !.tables = @ \ {t}, !.columns[t] = {}] = gone
  <2>1. PICK q : q = [d EXCEPT !.tables = @ \ {t}, !.columns[t] = {}]
    OBVIOUS
  <2>2. /\ q.tables = T \ {t} /\ q.columns = Cleared(C, t)
        /\ q.unique = U /\ q.rows = R /\ q.ok = Through
    BY <2>1 DEF Database, Cleared
  <2>. QED
    BY <2>1, <2>2 DEF Database
<1>3. DropTable(d, t) = IF t = "punch_events" THEN [gone EXCEPT !.unique = {}, !.rows = {}] ELSE gone
  BY <1>1, <1>2 DEF DropTable
<1>4. [gone EXCEPT !.unique = {}, !.rows = {}] = Database(T \ {t}, Cleared(C, t), {}, {})
  <2>1. PICK q : q = [gone EXCEPT !.unique = {}, !.rows = {}]
    OBVIOUS
  <2>2. /\ q.tables = T \ {t} /\ q.columns = Cleared(C, t)
        /\ q.unique = {} /\ q.rows = {} /\ q.ok = Through
    BY <2>1 DEF Database, Cleared
  <2>. QED
    BY <2>1, <2>2 DEF Database
<1>. QED
  BY <1>3, <1>4

LEMMA AddMissingStatement ==
    ASSUME NEW T, NEW C \in ColumnSets, NEW U, NEW R, NEW t \in Tables, NEW X, t \in T
    PROVE  AddMissing(Database(T, C, U, R), t, X) = Database(T, Widened(C, t, X), U, R)
<1>1. CASE X \subseteq C[t]
  <2>1. C[t] \cup X = C[t]
    BY <1>1
  <2>2. Widened(C, t, X) = C
    BY <2>1 DEF ColumnSets, Widened
  <2>3. AddMissing(Database(T, C, U, R), t, X) = Database(T, C, U, R)
    BY <1>1 DEF AddMissing, Database
  <2>. QED
    BY <2>2, <2>3
<1>2. CASE ~(X \subseteq C[t])
  BY <1>2 DEF AddMissing, AddColumns, Database, Widened
<1>. QED
  BY <1>1, <1>2

LEMMA AddMissingRefused ==
    ASSUME NEW d, NEW t, NEW X, t \notin d.tables, ~(X \subseteq d.columns[t])
    PROVE  AddMissing(d, t, X) = Refused(d)
BY DEF AddMissing, AddColumns

LEMMA DropColumnsStatement ==
    ASSUME NEW T, NEW C, NEW U, NEW R, NEW t, NEW X
    PROVE  DropColumns(Database(T, C, U, R), t, X)
             = Database(T, Narrowed(C, t, X), U, R)
BY DEF DropColumns, Database, Narrowed

LEMMA AddRuleStatement ==
    ASSUME NEW T, NEW C, NEW U, NEW R, NEW rule
    PROVE  AddRule(Database(T, C, U, R), rule) =
             IF Admits(rule, R) THEN Database(T, C, U \cup {rule}, R) ELSE Refused(Database(T, C, U, R))
<1> DEFINE d == Database(T, C, U, R)
<1>1. d.rows = R
  BY DEF Database
<1>2. [d EXCEPT !.unique = @ \cup {rule}] = Database(T, C, U \cup {rule}, R)
  BY DEF Database
<1>. QED
  BY <1>1, <1>2 DEF AddRule

LEMMA DropRuleStatement ==
    ASSUME NEW T, NEW C, NEW U, NEW R, NEW rule
    PROVE  DropRule(Database(T, C, U, R), rule) = Database(T, C, U \ {rule}, R)
BY DEF DropRule, Database
-----------------------------------------------------------------------------
(* The operations, statement by statement *)

LEMMA BaseTables ==
    Base = {"reward_programs", "punch_cards", "punch_events",
            "reward_redemption_codes", "reward_redemptions"}
<1>1. Len(Creation) = 5 /\ DOMAIN Creation = 1..5
  BY DEF Creation
<1>2. /\ Creation[1] = "reward_programs" /\ Creation[2] = "punch_cards" /\ Creation[3] = "punch_events"
      /\ Creation[4] = "reward_redemption_codes" /\ Creation[5] = "reward_redemptions"
  BY DEF Creation
<1>3. 1..5 = {1, 2, 3, 4, 5}
  OBVIOUS
<1>. QED
  BY <1>1, <1>2, <1>3 DEF Base

LEMMA UpgradeInTurn ==
    ASSUME NEW d
    PROVE  Upgrade(d) =
             CreateMissing(CreateMissing(CreateMissing(CreateMissing(CreateMissing(d,
               "reward_programs"), "punch_cards"), "punch_events"), "reward_redemption_codes"),
               "reward_redemptions")
<1>1. Len(Creation) = 5
  BY DEF Creation
<1>2. /\ Creation[1] = "reward_programs" /\ Creation[2] = "punch_cards" /\ Creation[3] = "punch_events"
      /\ Creation[4] = "reward_redemption_codes" /\ Creation[5] = "reward_redemptions"
  BY DEF Creation
<1>. QED
  BY <1>1, <1>2 DEF Upgrade, Each

LEMMA DowngradeInTurn ==
    ASSUME NEW d
    PROVE  Downgrade(d) =
             DropPresent(DropPresent(DropPresent(DropPresent(DropPresent(d,
               "reward_redemptions"), "reward_redemption_codes"), "punch_events"), "punch_cards"),
               "reward_programs")
<1>1. Len(Creation) = 5
  BY DEF Creation
<1>2. /\ Creation[1] = "reward_programs" /\ Creation[2] = "punch_cards" /\ Creation[3] = "punch_events"
      /\ Creation[4] = "reward_redemption_codes" /\ Creation[5] = "reward_redemptions"
  BY DEF Creation
<1>3. Reverse(Creation) = [i \in 1..5 |-> Creation[(5 - i) + 1]]
  BY <1>1 DEF Reverse
<1>4. Len(Reverse(Creation)) = 5
  BY <1>3
<1>5. /\ Reverse(Creation)[1] = Creation[5] /\ Reverse(Creation)[2] = Creation[4]
      /\ Reverse(Creation)[3] = Creation[3] /\ Reverse(Creation)[4] = Creation[2]
      /\ Reverse(Creation)[5] = Creation[1]
  BY <1>3
<1>. QED
  BY <1>2, <1>4, <1>5 DEF Downgrade, Each

LEMMA UpgradeHederaInTurn ==
    ASSUME NEW d
    PROVE  UpgradeHedera(d) =
             AddHedera(AddHedera(AddHedera(AddHedera(
               IF "hedera_accounts" \in d.tables THEN d ELSE CreateTable(d, "hedera_accounts"),
               "reward_programs"), "punch_cards"), "punch_events"), "reward_redemptions")
BY DEF UpgradeHedera, Each

LEMMA DowngradeHederaInTurn ==
    ASSUME NEW d
    PROVE  \E bare :
             /\ bare = DropHedera(DropHedera(DropHedera(DropHedera(d,
                         "punch_events"), "reward_redemptions"), "punch_cards"), "reward_programs")
             /\ DowngradeHedera(d) = IF "hedera_accounts" \in d.tables
                                     THEN DropTable(bare, "hedera_accounts") ELSE bare
BY DEF DowngradeHedera, Each
-----------------------------------------------------------------------------
(* The database of a set of layers.  Taking the base down leaves the ledger's *)
(* accounts where they are, so they are not part of a layer.                  *)

Accounts == {"hedera_accounts"}
TablesOf(layers) == IF "base" \in layers THEN Base ELSE {}
ColumnsOf(layers) ==
    [t \in Tables |-> (IF "hedera" \in layers THEN HederaColumns(t) ELSE {})
                      \cup (IF "zg" \in layers THEN ZgColumns(t) ELSE {})]
RulesOf(layers) ==
    CASE "base" \notin layers -> {}
      [] "base" \in layers /\ "retry" \in layers -> {"verified_only"}
      [] OTHER -> {"receipt_wide"}
Schema(layers, accounts, rows) ==
    Database(TablesOf(layers) \cup accounts, ColumnsOf(layers), RulesOf(layers), rows)

\* The layers a host's chain of revisions can have applied, and the events such a
\* database can hold.
Legal(layers, rows) ==
    /\ layers \subseteq Layers /\ (layers # {} => "base" \in layers)
    /\ "base" \notin layers => rows = {}
    /\ Admits("verified_only", rows)
    /\ \A rule \in RulesOf(layers) : Admits(rule, rows)

LEMMA ColumnsTyped == ASSUME NEW layers PROVE ColumnsOf(layers) \in ColumnSets
<1>1. ASSUME NEW t \in Tables PROVE HederaColumns(t) \cup ZgColumns(t) \subseteq ModelColumns(t)
  BY DEF HederaColumns, ZgColumns, ModelColumns, LEDGER_PROOF_COLUMNS
<1>2. ASSUME NEW t \in Tables PROVE ModelColumns(t) \subseteq Columns
  BY DEF Columns
<1>3. ASSUME NEW t \in Tables PROVE ColumnsOf(layers)[t] \subseteq Columns
  BY <1>1, <1>2 DEF ColumnsOf
<1>. QED
  BY <1>3 DEF ColumnsOf, ColumnSets

LEMMA CreatedInTurn ==
    ASSUME NEW T, NEW C, NEW U, NEW R, NEW t, t \notin T, References(t) \subseteq T,
           t # "punch_events"
    PROVE  CreateMissing(Database(T, C, U, R), t) = Database(T \cup {t}, C, U, R)
<1>1. Database(T, C, U, R).tables = T
  BY DEF Database
<1>. QED
  BY <1>1, CreateTableStatement DEF CreateMissing

LEMMA DroppedInTurn ==
    ASSUME NEW T, NEW C \in ColumnSets, NEW U, NEW R, NEW t \in Tables, t \in T,
           \A child \in T : t \notin References(child), t # "punch_events",
           NEW T1, T1 = T \ {t}, NEW C1, C1 = Cleared(C, t)
    PROVE  DropPresent(Database(T, C, U, R), t) = Database(T1, C1, U, R)
<1>1. Database(T, C, U, R).tables = T
  BY DEF Database
<1>. QED
  BY <1>1, DropTableStatement DEF DropPresent

LEMMA EventsDroppedInTurn ==
    ASSUME NEW T, NEW C \in ColumnSets, NEW U, NEW R, "punch_events" \in T, "punch_events" \in Tables,
           \A child \in T : "punch_events" \notin References(child),
           NEW T1, T1 = T \ {"punch_events"}, NEW C1, C1 = Cleared(C, "punch_events"), NEW no, no = {}
    PROVE  DropPresent(Database(T, C, U, R), "punch_events") = Database(T1, C1, no, no)
<1>1. Database(T, C, U, R).tables = T
  BY DEF Database
<1>2. DropPresent(Database(T, C, U, R), "punch_events") = DropTable(Database(T, C, U, R), "punch_events")
  BY <1>1 DEF DropPresent
<1>3. DropTable(Database(T, C, U, R), "punch_events") = Database(T \ {"punch_events"}, Cleared(C, "punch_events"), {}, {})
  BY DropTableStatement
<1>. QED
  BY <1>2, <1>3
-----------------------------------------------------------------------------
(* What each operation makes of a schema *)

LEMMA Foreign ==
    /\ References("reward_programs") = {} /\ References("punch_cards") = {}
    /\ References("punch_events") = {"punch_cards"}
    /\ References("reward_redemption_codes") = {"punch_cards"}
    /\ References("reward_redemptions") = {"punch_cards", "reward_redemption_codes"}
    /\ References("hedera_accounts") = {}
BY DEF References

\* The punch cards are created from nothing, with the narrow rule.
LEMMA UpgradeBuilds ==
    ASSUME NEW A \in SUBSET Accounts
    PROVE  Upgrade(Schema({}, A, {})) = Schema({"base", "retry"}, A, {})
<1>c. PICK C : C = ColumnsOf({})
  OBVIOUS
<1>u. PICK no, narrow : no = {} /\ narrow = {"verified_only"}
  OBVIOUS
<1>0. Schema({}, A, {}) = Database(A, C, no, no)
  <2>1. TablesOf({}) \cup A = A /\ RulesOf({}) = {}
    BY DEF TablesOf, RulesOf
  <2>. QED
    BY <2>1, <1>c, <1>u DEF Schema
<1>1. PICK T1 : T1 = A \cup {"reward_programs"}
  OBVIOUS
<1>2. PICK T2 : T2 = A \cup {"reward_programs", "punch_cards"}
  OBVIOUS
<1>3. PICK T3 : T3 = A \cup {"reward_programs", "punch_cards", "punch_events"}
  OBVIOUS
<1>4. PICK T4 : T4 = A \cup {"reward_programs", "punch_cards", "punch_events", "reward_redemption_codes"}
  OBVIOUS
<1>5. PICK T5 : T5 = Base \cup A
  OBVIOUS
<1>6. CreateMissing(Database(A, C, no, no), "reward_programs") = Database(T1, C, no, no)
  BY <1>1, CreatedInTurn, Foreign DEF Accounts
<1>7. CreateMissing(Database(T1, C, no, no), "punch_cards") = Database(T2, C, no, no)
  <2>1. T2 = T1 \cup {"punch_cards"}
    BY <1>1, <1>2
  <2>2. "punch_cards" \notin T1
    BY <1>1 DEF Accounts
  <2>. QED
    BY <2>1, <2>2, CreatedInTurn, Foreign
<1>8. CreateMissing(Database(T2, C, no, no), "punch_events") = Database(T3, C, narrow, no)
  <2>1. T3 = T2 \cup {"punch_events"}
    BY <1>2, <1>3
  <2>2. "punch_events" \notin T2 /\ "punch_cards" \in T2
    BY <1>2 DEF Accounts
  <2>3. Database(T2, C, no, no).tables = T2
    BY DEF Database
  <2>4. CreateTable(Database(T2, C, no, no), "punch_events") = Database(T3, C, no, no)
    BY <2>1, <2>2, CreateTableStatement, Foreign
  <2>5. Admits("verified_only", no) /\ narrow = no \cup {"verified_only"}
    BY <1>u DEF Admits
  <2>6. AddRule(Database(T3, C, no, no), "verified_only") = Database(T3, C, narrow, no)
    BY <2>5, AddRuleStatement
  <2>. QED
    BY <2>2, <2>3, <2>4, <2>6 DEF CreateMissing, NewEvents
<1>9. CreateMissing(Database(T3, C, narrow, no), "reward_redemption_codes") = Database(T4, C, narrow, no)
  <2>1. T4 = T3 \cup {"reward_redemption_codes"}
    BY <1>3, <1>4
  <2>2. "reward_redemption_codes" \notin T3 /\ "punch_cards" \in T3
    BY <1>3 DEF Accounts
  <2>. QED
    BY <2>1, <2>2, CreatedInTurn, Foreign
<1>10. CreateMissing(Database(T4, C, narrow, no), "reward_redemptions") = Database(T5, C, narrow, no)
  <2>1. T5 = T4 \cup {"reward_redemptions"}
    BY <1>4, <1>5, BaseTables
  <2>2. "reward_redemptions" \notin T4 /\ {"punch_cards", "reward_redemption_codes"} \subseteq T4
    BY <1>4 DEF Accounts
  <2>. QED
    BY <2>1, <2>2, CreatedInTurn, Foreign
<1>11. Upgrade(Database(A, C, no, no)) = Database(T5, C, narrow, no)
  BY <1>6, <1>7, <1>8, <1>9, <1>10, UpgradeInTurn
<1>12. Schema({"base", "retry"}, A, {}) = Database(T5, C, narrow, no)
  <2>1. ColumnsOf({"base", "retry"}) = C
    BY <1>c DEF ColumnsOf
  <2>2. TablesOf({"base", "retry"}) = Base /\ RulesOf({"base", "retry"}) = {"verified_only"}
    BY DEF TablesOf, RulesOf
  <2>. QED
    BY <1>5, <1>u, <2>1, <2>2 DEF Schema
<1>. QED
  BY <1>0, <1>11, <1>12

\* Punch cards that are there are left alone.
LEMMA UpgradeLeaves ==
    ASSUME NEW layers, "base" \in layers, NEW A \in SUBSET Accounts, NEW R
    PROVE  Upgrade(Schema(layers, A, R)) = Schema(layers, A, R)
<1>1. Base \subseteq Schema(layers, A, R).tables
  BY DEF Schema, Database, TablesOf
<1>. QED
  BY <1>1, BaseTables, UpgradeInTurn DEF CreateMissing

\* Children go before their parents, and the events with their table.
LEMMA DowngradeEmpties ==
    ASSUME NEW layers, NEW R, Legal(layers, R), NEW A \in SUBSET Accounts
    PROVE  Downgrade(Schema(layers, A, R)) = Schema({}, A, {})
<1>a. Schema({}, A, {}) = Database(A, ColumnsOf({}), {}, {})
  <2>1. TablesOf({}) \cup A = A /\ RulesOf({}) = {}
    BY DEF TablesOf, RulesOf
  <2>. QED
    BY <2>1 DEF Schema
<1>1. CASE "base" \notin layers
  <2>1. layers = {} /\ R = {}
    BY <1>1 DEF Legal
  <2>2. Schema({}, A, {}).tables = A
    BY <1>a DEF Database
  <2>3. \A t \in Base : t \notin A
    BY BaseTables DEF Accounts
  <2>. QED
    BY <2>1, <2>2, <2>3, BaseTables, DowngradeInTurn DEF DropPresent
<1>2. CASE "base" \in layers
  <2>c. PICK C0 \in ColumnSets : C0 = ColumnsOf(layers)
    BY ColumnsTyped
  <2>u. PICK U : U = RulesOf(layers)
    OBVIOUS
  <2>t. /\ "reward_redemptions" \in Tables /\ "reward_redemption_codes" \in Tables
        /\ "punch_events" \in Tables /\ "punch_cards" \in Tables /\ "reward_programs" \in Tables
    BY BaseTables DEF Tables
  <2>1. PICK C1 \in ColumnSets : C1 = Cleared(C0, "reward_redemptions")
    BY <2>t DEF ColumnSets, Cleared
  <2>2. PICK C2 \in ColumnSets : C2 = Cleared(C1, "reward_redemption_codes")
    BY <2>t DEF ColumnSets, Cleared
  <2>3. PICK C3 \in ColumnSets : C3 = Cleared(C2, "punch_events")
    BY <2>t DEF ColumnSets, Cleared
  <2>4. PICK C4 \in ColumnSets : C4 = Cleared(C3, "punch_cards")
    BY <2>t DEF ColumnSets, Cleared
  <2>5. PICK C5 \in ColumnSets : C5 = Cleared(C4, "reward_programs")
    BY <2>t DEF ColumnSets, Cleared
  <2>6. C5 = ColumnsOf({})
    <3>1. \A t \in Tables : C5[t] = {}
      <4>1. \A t \in Base : C5[t] = {}
        BY <2>1, <2>2, <2>3, <2>4, <2>5, <2>t, BaseTables DEF ColumnSets, Cleared
      <4>2. C5["hedera_accounts"] = {}
        <5>1. C5["hedera_accounts"] = C0["hedera_accounts"]
          <6>1. "hedera_accounts" \in Tables
            BY DEF Tables
          <6>. QED
            BY <6>1, <2>1, <2>2, <2>3, <2>4, <2>5 DEF ColumnSets, Cleared
        <5>2. HederaColumns("hedera_accounts") = {} /\ ZgColumns("hedera_accounts") = {}
          BY DEF HederaColumns, ZgColumns, LEDGER_PROOF_COLUMNS
        <5>. QED
          BY <5>1, <5>2, <2>c DEF ColumnsOf, Tables
      <4>. QED
        BY <4>1, <4>2 DEF Tables
    <3>. QED
      BY <3>1 DEF ColumnsOf, ColumnSets
  <2>7. PICK T0 : T0 = {"reward_programs", "punch_cards", "punch_events",
                        "reward_redemption_codes", "reward_redemptions"} \cup A
    OBVIOUS
  <2>e. PICK no : no = {}
    OBVIOUS
  <2>8. Schema(layers, A, R) = Database(T0, C0, U, R)
    BY <1>2, <2>c, <2>u, <2>7, BaseTables DEF Schema, TablesOf
  <2>9. PICK T1 : T1 = {"reward_programs", "punch_cards", "punch_events", "reward_redemption_codes"} \cup A
    OBVIOUS
  <2>10. PICK T2 : T2 = {"reward_programs", "punch_cards", "punch_events"} \cup A
    OBVIOUS
  <2>11. PICK T3 : T3 = {"reward_programs", "punch_cards"} \cup A
    OBVIOUS
  <2>12. PICK T4 : T4 = {"reward_programs"} \cup A
    OBVIOUS
  <2>13. DropPresent(Database(T0, C0, U, R), "reward_redemptions") = Database(T1, C1, U, R)
    <3>1. T1 = T0 \ {"reward_redemptions"}
      BY <2>7, <2>9 DEF Accounts
    <3>2. "reward_redemptions" \in T0 /\ \A child \in T0 : "reward_redemptions" \notin References(child)
      BY <2>7, Foreign DEF Accounts
    <3>. QED
      BY <3>1, <3>2, <2>1, <2>t, DroppedInTurn
  <2>14. DropPresent(Database(T1, C1, U, R), "reward_redemption_codes") = Database(T2, C2, U, R)
    <3>1. T2 = T1 \ {"reward_redemption_codes"}
      BY <2>9, <2>10 DEF Accounts
    <3>2. "reward_redemption_codes" \in T1 /\ \A child \in T1 : "reward_redemption_codes" \notin References(child)
      BY <2>9, Foreign DEF Accounts
    <3>. QED
      BY <3>1, <3>2, <2>2, <2>t, DroppedInTurn
  <2>15. DropPresent(Database(T2, C2, U, R), "punch_events") = Database(T3, C3, no, no)
    <3>1. T3 = T2 \ {"punch_events"}
      BY <2>10, <2>11 DEF Accounts
    <3>2. "punch_events" \in T2 /\ \A child \in T2 : "punch_events" \notin References(child)
      BY <2>10, Foreign DEF Accounts
    <3>. QED
      BY <3>1, <3>2, <2>3, <2>t, <2>e, EventsDroppedInTurn
  <2>16. DropPresent(Database(T3, C3, no, no), "punch_cards") = Database(T4, C4, no, no)
    <3>1. T4 = T3 \ {"punch_cards"}
      BY <2>11, <2>12 DEF Accounts
    <3>2. "punch_cards" \in T3 /\ \A child \in T3 : "punch_cards" \notin References(child)
      BY <2>11, Foreign DEF Accounts
    <3>. QED
      BY <3>1, <3>2, <2>4, <2>t, DroppedInTurn
  <2>17. DropPresent(Database(T4, C4, no, no), "reward_programs") = Database(A, C5, no, no)
    <3>1. A = T4 \ {"reward_programs"}
      BY <2>12 DEF Accounts
    <3>2. "reward_programs" \in T4 /\ \A child \in T4 : "reward_programs" \notin References(child)
      BY <2>12, Foreign DEF Accounts
    <3>. QED
      BY <3>1, <3>2, <2>5, <2>t, DroppedInTurn
  <2>. QED
    BY <1>a, <2>e, <2>6, <2>8, <2>13, <2>14, <2>15, <2>16, <2>17, DowngradeInTurn
<1>. QED
  BY <1>1, <1>2
LEMMA AddHederaInTurn ==
    ASSUME NEW T, NEW C \in ColumnSets, NEW U, NEW R, NEW t \in Tables, t \in T,
           NEW C1, C1 = Widened(C, t, HederaColumns(t))
    PROVE  AddHedera(Database(T, C, U, R), t) = Database(T, C1, U, R)
<1>1. AddMissing(Database(T, C, U, R), t, HederaColumns(t)) = Database(T, Widened(C, t, HederaColumns(t)), U, R)
  BY AddMissingStatement
<1>. QED
  BY <1>1 DEF AddHedera

LEMMA DropHederaInTurn ==
    ASSUME NEW T, NEW C, NEW U, NEW R, NEW t, NEW C1, C1 = Narrowed(C, t, HederaColumns(t))
    PROVE  DropHedera(Database(T, C, U, R), t) = Database(T, C1, U, R)
BY DropColumnsStatement DEF DropHedera

\* Which columns belong to which layer: no column to both, and none to the accounts.
LEMMA ColumnsApart ==
    /\ \A t \in Tables : HederaColumns(t) \cap ZgColumns(t) = {}
    /\ \A t \in {"reward_redemption_codes", "hedera_accounts"} : HederaColumns(t) = {}
    /\ \A t \in {"reward_programs", "punch_cards", "punch_events", "reward_redemptions"} : HederaColumns(t) # {}
    /\ \A t \in Tables \ {"punch_events"} : ZgColumns(t) = {}
    /\ ZgColumns("punch_events") # {}
<1>1. \A t \in Tables : HederaColumns(t) \cap ZgColumns(t) = {}
  BY DEF HederaColumns, ZgColumns, LEDGER_PROOF_COLUMNS, Proof
<1>2. \A t \in {"reward_redemption_codes", "hedera_accounts"} : HederaColumns(t) = {}
  BY DEF HederaColumns, LEDGER_PROOF_COLUMNS
<1>3. \A t \in {"reward_programs", "punch_cards", "punch_events", "reward_redemptions"} : HederaColumns(t) # {}
  BY DEF HederaColumns, LEDGER_PROOF_COLUMNS, Proof
<1>. QED
  BY <1>1, <1>2, <1>3 DEF ZgColumns

\* Where the base is, the ledger's tables and columns are added.
LEMMA UpgradeHederaAdds ==
    ASSUME NEW layers, NEW R, "base" \in layers, NEW A \in SUBSET Accounts
    PROVE  UpgradeHedera(Schema(layers, A, R)) = Schema(layers \cup {"hedera"}, Accounts, R)
<1>c. PICK C0 \in ColumnSets : C0 = ColumnsOf(layers)
  BY ColumnsTyped
<1>u. PICK U : U = RulesOf(layers)
  OBVIOUS
<1>t. PICK T : T = Base \cup Accounts
  OBVIOUS
<1>d. PICK d : d = Schema(layers, A, R)
  OBVIOUS
<1>1. d = Database(Base \cup A, C0, U, R)
  BY <1>c, <1>u, <1>d DEF Schema, TablesOf
<1>2. (IF "hedera_accounts" \in d.tables THEN d ELSE CreateTable(d, "hedera_accounts")) = Database(T, C0, U, R)
  <2>1. d.tables = Base \cup A
    BY <1>1 DEF Database
  <2>2. CASE "hedera_accounts" \in A
    <3>1. A = Accounts
      BY <2>2 DEF Accounts
    <3>. QED
      BY <1>1, <1>t, <2>1, <2>2, <3>1
  <2>3. CASE "hedera_accounts" \notin A
    <3>1. T = (Base \cup A) \cup {"hedera_accounts"}
      BY <1>t DEF Accounts
    <3>2. "hedera_accounts" \notin Base \cup A
      BY <2>3, BaseTables
    <3>3. CreateTable(d, "hedera_accounts") = Database(T, C0, U, R)
      BY <1>1, <3>1, <3>2, CreateTableStatement, Foreign
    <3>. QED
      BY <2>1, <3>2, <3>3
  <2>. QED
    BY <2>2, <2>3
<1>3. /\ "reward_programs" \in Tables /\ "punch_cards" \in Tables
      /\ "punch_events" \in Tables /\ "reward_redemptions" \in Tables
      /\ "reward_programs" \in T /\ "punch_cards" \in T
      /\ "punch_events" \in T /\ "reward_redemptions" \in T
  BY <1>t, BaseTables DEF Tables
<1>h. ASSUME NEW t \in Tables PROVE HederaColumns(t) \subseteq Columns
  BY DEF HederaColumns, ModelColumns, LEDGER_PROOF_COLUMNS, Columns
<1>w. ASSUME NEW C \in ColumnSets, NEW t \in Tables PROVE Widened(C, t, HederaColumns(t)) \in ColumnSets
  BY <1>h DEF ColumnSets, Widened
<1>4. PICK C1 \in ColumnSets : C1 = Widened(C0, "reward_programs", HederaColumns("reward_programs"))
  BY <1>3, <1>w
<1>5. PICK C2 \in ColumnSets : C2 = Widened(C1, "punch_cards", HederaColumns("punch_cards"))
  BY <1>3, <1>w
<1>6. PICK C3 \in ColumnSets : C3 = Widened(C2, "punch_events", HederaColumns("punch_events"))
  BY <1>3, <1>w
<1>7. PICK C4 \in ColumnSets : C4 = Widened(C3, "reward_redemptions", HederaColumns("reward_redemptions"))
  BY <1>3, <1>w
<1>8. C4 = ColumnsOf(layers \cup {"hedera"})
  <2>1. \A t \in Tables : C4[t] = C0[t] \cup HederaColumns(t)
    <3>1. \A t \in {"reward_programs", "punch_cards", "punch_events", "reward_redemptions"} :
             C4[t] = C0[t] \cup HederaColumns(t)
      BY <1>3, <1>4, <1>5, <1>6, <1>7 DEF ColumnSets, Widened
    <3>2. \A t \in {"reward_redemption_codes", "hedera_accounts"} : C4[t] = C0[t]
      BY <1>4, <1>5, <1>6, <1>7, BaseTables DEF ColumnSets, Widened, Tables
    <3>. QED
      BY <3>1, <3>2, ColumnsApart, BaseTables DEF Tables
  <2>2. \A t \in Tables : C0[t] \cup HederaColumns(t) = ColumnsOf(layers \cup {"hedera"})[t]
    BY <1>c DEF ColumnsOf
  <2>. QED
    BY <2>1, <2>2 DEF ColumnsOf, ColumnSets
<1>9. AddHedera(Database(T, C0, U, R), "reward_programs") = Database(T, C1, U, R)
  BY <1>3, <1>4, AddHederaInTurn
<1>10. AddHedera(Database(T, C1, U, R), "punch_cards") = Database(T, C2, U, R)
  BY <1>3, <1>5, AddHederaInTurn
<1>11. AddHedera(Database(T, C2, U, R), "punch_events") = Database(T, C3, U, R)
  BY <1>3, <1>6, AddHederaInTurn
<1>12. AddHedera(Database(T, C3, U, R), "reward_redemptions") = Database(T, C4, U, R)
  BY <1>3, <1>7, AddHederaInTurn
<1>13. Schema(layers \cup {"hedera"}, Accounts, R) = Database(T, C4, U, R)
  BY <1>8, <1>t, <1>u DEF Schema, TablesOf, RulesOf
<1>. QED
  BY <1>2, <1>d, <1>9, <1>10, <1>11, <1>12, <1>13, UpgradeHederaInTurn

\* Where it is not, the first column to be added has no table.
LEMMA UpgradeHederaNeedsBase ==
    ASSUME NEW A \in SUBSET Accounts
    PROVE  ~UpgradeHedera(Schema({}, A, {})).ok
<1>1. ASSUME NEW d, NEW t, "ok" \in DOMAIN d, ~d.ok
      PROVE  "ok" \in DOMAIN AddHedera(d, t) /\ ~AddHedera(d, t).ok
  BY <1>1 DEF AddHedera, AddMissing, AddColumns, Refused
<1>c. PICK C \in ColumnSets : C = ColumnsOf({})
  BY ColumnsTyped
<1>d. PICK d : d = Schema({}, A, {})
  OBVIOUS
<1>2. d = Database(A, C, {}, {})
  <2>1. TablesOf({}) \cup A = A /\ RulesOf({}) = {}
    BY DEF TablesOf, RulesOf
  <2>. QED
    BY <2>1, <1>c, <1>d DEF Schema
<1>3. PICK e : e = IF "hedera_accounts" \in d.tables THEN d ELSE CreateTable(d, "hedera_accounts")
  OBVIOUS
<1>4. e = Database(Accounts, C, {}, {})
  <2>1. d.tables = A
    BY <1>2 DEF Database
  <2>2. CASE "hedera_accounts" \in A
    <3>1. A = Accounts
      BY <2>2 DEF Accounts
    <3>. QED
      BY <1>2, <1>3, <2>1, <2>2, <3>1
  <2>3. CASE "hedera_accounts" \notin A
    <3>1. Accounts = A \cup {"hedera_accounts"}
      BY <2>3 DEF Accounts
    <3>2. CreateTable(d, "hedera_accounts") = Database(Accounts, C, {}, {})
      BY <1>2, <2>3, <3>1, CreateTableStatement, Foreign
    <3>. QED
      BY <1>3, <2>1, <2>3, <3>2
  <2>. QED
    BY <2>2, <2>3
<1>5. "ok" \in DOMAIN AddHedera(e, "reward_programs") /\ ~AddHedera(e, "reward_programs").ok
  <2>1. "reward_programs" \in Tables /\ "reward_programs" \notin Accounts
    BY BaseTables DEF Tables, Accounts
  <2>2. C["reward_programs"] = {}
    BY <2>1, <1>c DEF ColumnsOf
  <2>3. ~(HederaColumns("reward_programs") \subseteq C["reward_programs"])
    BY <2>2, ColumnsApart
  <2>4. AddHedera(e, "reward_programs") = Refused(e)
    <3>1. "reward_programs" \notin e.tables /\ e.columns = C
      BY <1>4, <2>1 DEF Database
    <3>. QED
      BY <2>3, <3>1, AddMissingRefused DEF AddHedera
  <2>5. "ok" \in DOMAIN e
    BY <1>4 DEF Database
  <2>. QED
    BY <2>4, <2>5 DEF Refused
<1>. QED
  BY <1>1, <1>d, <1>3, <1>5, UpgradeHederaInTurn

\* The ledger's columns and accounts go, wherever they are.
LEMMA DowngradeHederaDrops ==
    ASSUME NEW layers, NEW R, NEW A \in SUBSET Accounts
    PROVE  DowngradeHedera(Schema(layers, A, R)) = Schema(layers \ {"hedera"}, {}, R)
<1>c. PICK C0 \in ColumnSets : C0 = ColumnsOf(layers)
  BY ColumnsTyped
<1>u. PICK U : U = RulesOf(layers)
  OBVIOUS
<1>t. PICK T : T = TablesOf(layers)
  OBVIOUS
<1>d. PICK d : d = Schema(layers, A, R)
  OBVIOUS
<1>1. d = Database(T \cup A, C0, U, R)
  BY <1>c, <1>u, <1>t, <1>d DEF Schema
<1>2. T \subseteq Base
  BY <1>t DEF TablesOf
<1>3. /\ "reward_programs" \in Tables /\ "punch_cards" \in Tables /\ "hedera_accounts" \in Tables
      /\ "punch_events" \in Tables /\ "reward_redemptions" \in Tables
  BY BaseTables DEF Tables
<1>n. ASSUME NEW C \in ColumnSets, NEW t \in Tables PROVE Narrowed(C, t, HederaColumns(t)) \in ColumnSets
  BY DEF ColumnSets, Narrowed
<1>4. PICK C1 \in ColumnSets : C1 = Narrowed(C0, "punch_events", HederaColumns("punch_events"))
  BY <1>3, <1>n
<1>5. PICK C2 \in ColumnSets : C2 = Narrowed(C1, "reward_redemptions", HederaColumns("reward_redemptions"))
  BY <1>3, <1>n
<1>6. PICK C3 \in ColumnSets : C3 = Narrowed(C2, "punch_cards", HederaColumns("punch_cards"))
  BY <1>3, <1>n
<1>7. PICK C4 \in ColumnSets : C4 = Narrowed(C3, "reward_programs", HederaColumns("reward_programs"))
  BY <1>3, <1>n
<1>8. C4 = ColumnsOf(layers \ {"hedera"})
  <2>1. \A t \in Tables : C4[t] = C0[t] \ HederaColumns(t)
    <3>1. \A t \in {"reward_programs", "punch_cards", "punch_events", "reward_redemptions"} :
             C4[t] = C0[t] \ HederaColumns(t)
      BY <1>3, <1>4, <1>5, <1>6, <1>7 DEF ColumnSets, Narrowed
    <3>2. \A t \in {"reward_redemption_codes", "hedera_accounts"} : C4[t] = C0[t]
      BY <1>4, <1>5, <1>6, <1>7, BaseTables DEF ColumnSets, Narrowed, Tables
    <3>. QED
      BY <3>1, <3>2, ColumnsApart, BaseTables DEF Tables
  <2>2. ASSUME NEW t \in Tables PROVE C0[t] \ HederaColumns(t) = ColumnsOf(layers \ {"hedera"})[t]
    <3>1. C0[t] = (IF "hedera" \in layers THEN HederaColumns(t) ELSE {})
                  \cup (IF "zg" \in layers THEN ZgColumns(t) ELSE {})
      BY <1>c DEF ColumnsOf
    <3>2. ColumnsOf(layers \ {"hedera"})[t] = IF "zg" \in layers THEN ZgColumns(t) ELSE {}
      BY DEF ColumnsOf
    <3>. QED
      BY <3>1, <3>2, ColumnsApart
  <2>. QED
    BY <2>1, <2>2 DEF ColumnsOf, ColumnSets
<1>9. DropHedera(d, "punch_events") = Database(T \cup A, C1, U, R)
  BY <1>1, <1>4, DropHederaInTurn
<1>10. DropHedera(Database(T \cup A, C1, U, R), "reward_redemptions") = Database(T \cup A, C2, U, R)
  BY <1>5, DropHederaInTurn
<1>11. DropHedera(Database(T \cup A, C2, U, R), "punch_cards") = Database(T \cup A, C3, U, R)
  BY <1>6, DropHederaInTurn
<1>12. DropHedera(Database(T \cup A, C3, U, R), "reward_programs") = Database(T \cup A, C4, U, R)
  BY <1>7, DropHederaInTurn
<1>13. DowngradeHedera(d) = IF "hedera_accounts" \in d.tables
                            THEN DropTable(Database(T \cup A, C4, U, R), "hedera_accounts")
                            ELSE Database(T \cup A, C4, U, R)
  BY <1>9, <1>10, <1>11, <1>12, DowngradeHederaInTurn
<1>14. d.tables = T \cup A /\ "hedera_accounts" \notin T
  BY <1>1, <1>2, BaseTables DEF Database
<1>15. Schema(layers \ {"hedera"}, {}, R) = Database(T, C4, U, R)
  <2>1. RulesOf(layers \ {"hedera"}) = U
    BY <1>u DEF RulesOf
  <2>2. TablesOf(layers \ {"hedera"}) \cup {} = T
    BY <1>t DEF TablesOf
  <2>. QED
    BY <1>8, <2>1, <2>2 DEF Schema
<1>16. CASE "hedera_accounts" \notin A
  <2>1. T \cup A = T
    BY <1>16 DEF Accounts
  <2>. QED
    BY <2>1, <1>16, <1>d, <1>13, <1>14, <1>15
<1>17. CASE "hedera_accounts" \in A
  <2>1. PICK T0 : T0 = T \cup A
    OBVIOUS
  <2>2. T = T0 \ {"hedera_accounts"}
    BY <2>1, <1>14, <1>17 DEF Accounts
  <2>3. \A child \in T0 : "hedera_accounts" \notin References(child)
    BY <1>2, <2>1, BaseTables, Foreign DEF Accounts
  <2>4. Cleared(C4, "hedera_accounts") = C4
    <3>1. C4["hedera_accounts"] = {}
      BY <1>3, <1>8, ColumnsApart, BaseTables DEF ColumnsOf
    <3>. QED
      BY <3>1, <1>3 DEF Cleared, ColumnSets
  <2>5. DropTable(Database(T0, C4, U, R), "hedera_accounts") = Database(T, C4, U, R)
    <3>1. DropTable(Database(T0, C4, U, R), "hedera_accounts")
            = Database(T0 \ {"hedera_accounts"}, Cleared(C4, "hedera_accounts"), U, R)
      BY <1>3, <2>3, DropTableStatement
    <3>. QED
      BY <3>1, <2>2, <2>4
  <2>. QED
    BY <2>1, <2>5, <1>17, <1>d, <1>13, <1>14, <1>15
<1>. QED
  BY <1>16, <1>17

\* The verifier's columns, added where the base is and dropped wherever they are.
LEMMA UpgradeZgAdds ==
    ASSUME NEW layers, NEW R, "base" \in layers, NEW A \in SUBSET Accounts
    PROVE  UpgradeZg(Schema(layers, A, R)) = Schema(layers \cup {"zg"}, A, R)
<1>c. PICK C \in ColumnSets : C = ColumnsOf(layers)
  BY ColumnsTyped
<1>u. PICK U : U = RulesOf(layers)
  OBVIOUS
<1>t. PICK T : T = Base \cup A
  OBVIOUS
<1>1. Schema(layers, A, R) = Database(T, C, U, R)
  BY <1>c, <1>u, <1>t DEF Schema, TablesOf
<1>2. "punch_events" \in T /\ "punch_events" \in Tables
  BY <1>t, BaseTables DEF Tables
<1>3. UpgradeZg(Database(T, C, U, R)) = Database(T, Widened(C, "punch_events", ZgColumns("punch_events")), U, R)
  <2>1. AddMissing(Database(T, C, U, R), "punch_events", ZgColumns("punch_events"))
          = Database(T, Widened(C, "punch_events", ZgColumns("punch_events")), U, R)
    BY <1>2, AddMissingStatement
  <2>. QED
    BY <2>1 DEF UpgradeZg
<1>4. Widened(C, "punch_events", ZgColumns("punch_events")) = ColumnsOf(layers \cup {"zg"})
  <2>1. ASSUME NEW t \in Tables
        PROVE  Widened(C, "punch_events", ZgColumns("punch_events"))[t] = ColumnsOf(layers \cup {"zg"})[t]
    <3>1. Widened(C, "punch_events", ZgColumns("punch_events"))[t] = C[t] \cup ZgColumns(t)
      BY <1>2, ColumnsApart DEF Widened, ColumnSets
    <3>2. C[t] \cup ZgColumns(t) = ColumnsOf(layers \cup {"zg"})[t]
      BY <1>c DEF ColumnsOf
    <3>. QED
      BY <3>1, <3>2
  <2>. QED
    BY <2>1 DEF Widened, ColumnsOf, ColumnSets
<1>. QED
  BY <1>1, <1>3, <1>4, <1>t, <1>u DEF Schema, TablesOf, RulesOf

LEMMA UpgradeZgNeedsBase ==
    ASSUME NEW A \in SUBSET Accounts
    PROVE  ~UpgradeZg(Schema({}, A, {})).ok
<1>c. PICK C \in ColumnSets : C = ColumnsOf({})
  BY ColumnsTyped
<1>1. Schema({}, A, {}) = Database(A, C, {}, {})
  <2>1. TablesOf({}) \cup A = A /\ RulesOf({}) = {}
    BY DEF TablesOf, RulesOf
  <2>. QED
    BY <2>1, <1>c DEF Schema
<1>2. "punch_events" \in Tables /\ "punch_events" \notin A
  BY BaseTables DEF Tables, Accounts
<1>3. ~(ZgColumns("punch_events") \subseteq C["punch_events"])
  BY <1>2, <1>c, ColumnsApart DEF ColumnsOf
<1>4. UpgradeZg(Schema({}, A, {})) = Refused(Schema({}, A, {}))
  <2>1. Schema({}, A, {}).tables = A /\ Schema({}, A, {}).columns = C
    BY <1>1 DEF Database
  <2>. QED
    BY <1>2, <1>3, <2>1, AddMissingRefused DEF UpgradeZg
<1>. QED
  BY <1>1, <1>4 DEF Refused, Database

LEMMA DowngradeZgDrops ==
    ASSUME NEW layers, NEW R, NEW A \in SUBSET Accounts
    PROVE  DowngradeZg(Schema(layers, A, R)) = Schema(layers \ {"zg"}, A, R)
<1>c. PICK C \in ColumnSets : C = ColumnsOf(layers)
  BY ColumnsTyped
<1>u. PICK U : U = RulesOf(layers)
  OBVIOUS
<1>t. PICK T : T = TablesOf(layers) \cup A
  OBVIOUS
<1>1. Schema(layers, A, R) = Database(T, C, U, R)
  BY <1>c, <1>u, <1>t DEF Schema
<1>2. "punch_events" \in Tables
  BY BaseTables DEF Tables
<1>3. DowngradeZg(Database(T, C, U, R)) = Database(T, Narrowed(C, "punch_events", ZgColumns("punch_events")), U, R)
  BY DropColumnsStatement DEF DowngradeZg
<1>4. Narrowed(C, "punch_events", ZgColumns("punch_events")) = ColumnsOf(layers \ {"zg"})
  <2>1. ASSUME NEW t \in Tables
        PROVE  Narrowed(C, "punch_events", ZgColumns("punch_events"))[t] = ColumnsOf(layers \ {"zg"})[t]
    <3>1. Narrowed(C, "punch_events", ZgColumns("punch_events"))[t] = C[t] \ ZgColumns(t)
      BY <1>2, ColumnsApart DEF Narrowed, ColumnSets
    <3>2. C[t] = (IF "hedera" \in layers THEN HederaColumns(t) ELSE {})
                 \cup (IF "zg" \in layers THEN ZgColumns(t) ELSE {})
      BY <1>c DEF ColumnsOf
    <3>3. ColumnsOf(layers \ {"zg"})[t] = IF "hedera" \in layers THEN HederaColumns(t) ELSE {}
      BY DEF ColumnsOf
    <3>. QED
      BY <3>1, <3>2, <3>3, ColumnsApart
  <2>. QED
    BY <2>1 DEF Narrowed, ColumnsOf, ColumnSets
<1>. QED
  BY <1>1, <1>3, <1>4, <1>t, <1>u DEF Schema, TablesOf, RulesOf

\* One rule on receipts for the other.
LEMMA RetryNeedsEvents ==
    ASSUME NEW layers, NEW R, NEW A \in SUBSET Accounts, "base" \notin layers
    PROVE  /\ UpgradeReceiptRetry(Schema(layers, A, R)) = Schema(layers, A, R)
           /\ DowngradeReceiptRetry(Schema(layers, A, R)) = Schema(layers, A, R)
<1>1. "punch_events" \notin Schema(layers, A, R).tables
  BY DEF Schema, Database, TablesOf, Accounts
<1>. QED
  BY <1>1 DEF UpgradeReceiptRetry, DowngradeReceiptRetry

LEMMA UpgradeRetryNarrows ==
    ASSUME NEW layers, NEW R, Legal(layers, R), NEW A \in SUBSET Accounts, "base" \in layers
    PROVE  UpgradeReceiptRetry(Schema(layers, A, R)) = Schema(layers \cup {"retry"}, A, R)
<1>c. PICK C : C = ColumnsOf(layers)
  OBVIOUS
<1>u. PICK U, U1, U2 : U = RulesOf(layers) /\ U1 = U \ {"receipt_wide"} /\ U2 = U1 \cup {"verified_only"}
  OBVIOUS
<1>t. PICK T : T = Base \cup A
  OBVIOUS
<1>1. Schema(layers, A, R) = Database(T, C, U, R)
  BY <1>c, <1>u, <1>t DEF Schema, TablesOf
<1>2. "punch_events" \in Database(T, C, U, R).tables
  BY <1>t, BaseTables DEF Database
<1>3. DropRule(Database(T, C, U, R), "receipt_wide") = Database(T, C, U1, R)
  BY <1>u, DropRuleStatement
<1>4. AddRule(Database(T, C, U1, R), "verified_only") = Database(T, C, U2, R)
  BY <1>u, AddRuleStatement DEF Legal
<1>5. U2 = RulesOf(layers \cup {"retry"}) /\ C = ColumnsOf(layers \cup {"retry"})
  BY <1>u, <1>c DEF RulesOf, ColumnsOf
<1>6. Schema(layers \cup {"retry"}, A, R) = Database(T, C, U2, R)
  BY <1>5, <1>t DEF Schema, TablesOf
<1>. QED
  BY <1>1, <1>2, <1>3, <1>4, <1>6 DEF UpgradeReceiptRetry

LEMMA DowngradeRetryWidens ==
    ASSUME NEW layers, NEW R, NEW A \in SUBSET Accounts, "base" \in layers
    PROVE  /\ Admits("receipt_wide", R) =>
                DowngradeReceiptRetry(Schema(layers, A, R)) = Schema(layers \ {"retry"}, A, R)
           /\ ~Admits("receipt_wide", R) => ~DowngradeReceiptRetry(Schema(layers, A, R)).ok
<1>c. PICK C : C = ColumnsOf(layers)
  OBVIOUS
<1>u. PICK U, U1, U2 : U = RulesOf(layers) /\ U1 = U \ {"verified_only"} /\ U2 = U1 \cup {"receipt_wide"}
  OBVIOUS
<1>t. PICK T : T = Base \cup A
  OBVIOUS
<1>1. Schema(layers, A, R) = Database(T, C, U, R)
  BY <1>c, <1>u, <1>t DEF Schema, TablesOf
<1>2. "punch_events" \in Database(T, C, U, R).tables
  BY <1>t, BaseTables DEF Database
<1>3. DropRule(Database(T, C, U, R), "verified_only") = Database(T, C, U1, R)
  BY <1>u, DropRuleStatement
<1>4. /\ Admits("receipt_wide", R) => AddRule(Database(T, C, U1, R), "receipt_wide") = Database(T, C, U2, R)
      /\ ~Admits("receipt_wide", R) =>
            AddRule(Database(T, C, U1, R), "receipt_wide") = Refused(Database(T, C, U1, R))
  BY <1>u, AddRuleStatement
<1>5. U2 = RulesOf(layers \ {"retry"}) /\ C = ColumnsOf(layers \ {"retry"})
  BY <1>u, <1>c DEF RulesOf, ColumnsOf
<1>6. Schema(layers \ {"retry"}, A, R) = Database(T, C, U2, R)
  BY <1>5, <1>t DEF Schema, TablesOf
<1>7. ~Refused(Database(T, C, U1, R)).ok
  BY DEF Refused, Database
<1>. QED
  BY <1>1, <1>2, <1>3, <1>4, <1>6, <1>7 DEF DowngradeReceiptRetry
-----------------------------------------------------------------------------
(* The invariant: the database is the one its layers say. *)

LayersDecide ==
    \E accounts \in SUBSET Accounts :
        db = Schema(applied, accounts, db.rows) /\ Legal(applied, db.rows)

LEMMA SchemaFields ==
    ASSUME NEW layers, NEW A, NEW R
    PROVE  /\ Schema(layers, A, R).tables = TablesOf(layers) \cup A
           /\ Schema(layers, A, R).columns = ColumnsOf(layers)
           /\ Schema(layers, A, R).unique = RulesOf(layers)
           /\ Schema(layers, A, R).rows = R
           /\ Schema(layers, A, R).ok
BY DEF Schema, Database, Through

\* What an operation that went through makes of the database of its layers.
LEMMA OperationEffect ==
    ASSUME NEW A \in SUBSET Accounts, NEW R, Legal(applied, R), NEW operation \in Operations,
           Apply(operation, Schema(applied, A, R)).ok
    PROVE  \E A1 \in SUBSET Accounts, R1 \in {R, {}} :
               /\ Apply(operation, Schema(applied, A, R)) = Schema(AppliedAfter(operation), A1, R1)
               /\ Legal(AppliedAfter(operation), R1)
<1> DEFINE d == Schema(applied, A, R)
<1>b. applied \subseteq Layers /\ ("base" \notin applied => applied = {} /\ R = {})
  BY DEF Legal
<1>e. Admits("verified_only", {}) /\ Legal({}, {}) /\ Legal({"base", "retry"}, {})
  BY DEF Admits, Legal, RulesOf, Layers
<1>1. CASE operation = "upgrade" /\ "base" \in applied
  <2>1. Apply(operation, d) = d
    BY <1>1, UpgradeLeaves DEF Apply
  <2>. QED
    BY <1>1, <2>1 DEF AppliedAfter
<1>2. CASE operation = "upgrade" /\ "base" \notin applied
  <2>1. Apply(operation, d) = Schema({"base", "retry"}, A, {})
    BY <1>2, <1>b, UpgradeBuilds DEF Apply
  <2>2. AppliedAfter(operation) = {"base", "retry"}
    BY <1>2, <1>b DEF AppliedAfter
  <2>. QED
    BY <1>e, <2>1, <2>2
<1>3. CASE operation = "downgrade"
  <2>1. Apply(operation, d) = Schema({}, A, {})
    BY <1>3, DowngradeEmpties DEF Apply
  <2>2. AppliedAfter(operation) = {}
    BY <1>3 DEF AppliedAfter
  <2>. QED
    BY <1>e, <2>1, <2>2
<1>4. CASE operation = "upgrade_hedera"
  <2>1. Apply(operation, d) = UpgradeHedera(d)
    BY <1>4 DEF Apply
  <2>2. "base" \in applied
    BY <2>1, <1>b, UpgradeHederaNeedsBase
  <2>3. Apply(operation, d) = Schema(applied \cup {"hedera"}, Accounts, R)
    BY <2>1, <2>2, UpgradeHederaAdds
  <2>4. Legal(applied \cup {"hedera"}, R)
    BY <2>2 DEF Legal, RulesOf, Layers
  <2>. QED
    BY <1>4, <2>3, <2>4 DEF AppliedAfter
<1>5. CASE operation = "downgrade_hedera"
  <2>1. Apply(operation, d) = Schema(applied \ {"hedera"}, {}, R)
    BY <1>5, DowngradeHederaDrops DEF Apply
  <2>2. Legal(applied \ {"hedera"}, R)
    BY DEF Legal, RulesOf
  <2>. QED
    BY <1>5, <2>1, <2>2 DEF AppliedAfter
<1>6. CASE operation = "upgrade_zg"
  <2>1. Apply(operation, d) = UpgradeZg(d)
    BY <1>6 DEF Apply
  <2>2. "base" \in applied
    BY <2>1, <1>b, UpgradeZgNeedsBase
  <2>3. Apply(operation, d) = Schema(applied \cup {"zg"}, A, R)
    BY <2>1, <2>2, UpgradeZgAdds
  <2>4. Legal(applied \cup {"zg"}, R)
    BY <2>2 DEF Legal, RulesOf, Layers
  <2>. QED
    BY <1>6, <2>3, <2>4 DEF AppliedAfter
<1>7. CASE operation = "downgrade_zg"
  <2>1. Apply(operation, d) = Schema(applied \ {"zg"}, A, R)
    BY <1>7, DowngradeZgDrops DEF Apply
  <2>2. Legal(applied \ {"zg"}, R)
    BY DEF Legal, RulesOf
  <2>. QED
    BY <1>7, <2>1, <2>2 DEF AppliedAfter
<1>8. CASE operation \in {"upgrade_receipt_retry", "downgrade_receipt_retry"} /\ "base" \notin applied
  <2>1. Apply(operation, d) = d
    BY <1>8, RetryNeedsEvents DEF Apply
  <2>2. AppliedAfter(operation) = applied
    BY <1>8, <1>b DEF AppliedAfter
  <2>. QED
    BY <2>1, <2>2
<1>9. CASE operation = "upgrade_receipt_retry" /\ "base" \in applied
  <2>1. Apply(operation, d) = Schema(applied \cup {"retry"}, A, R)
    BY <1>9, UpgradeRetryNarrows DEF Apply
  <2>2. Legal(applied \cup {"retry"}, R)
    BY <1>9 DEF Legal, RulesOf, Layers
  <2>. QED
    BY <1>9, <2>1, <2>2 DEF AppliedAfter
<1>10. CASE operation = "downgrade_receipt_retry" /\ "base" \in applied
  <2>1. Apply(operation, d) = DowngradeReceiptRetry(d)
    BY <1>10 DEF Apply
  <2>2. Admits("receipt_wide", R)
    BY <1>10, <2>1, DowngradeRetryWidens
  <2>3. Apply(operation, d) = Schema(applied \ {"retry"}, A, R)
    BY <1>10, <2>1, <2>2, DowngradeRetryWidens
  <2>4. Legal(applied \ {"retry"}, R)
    BY <1>10, <2>2 DEF Legal, RulesOf
  <2>. QED
    BY <1>10, <2>3, <2>4 DEF AppliedAfter
<1>. QED
  BY <1>1, <1>2, <1>3, <1>4, <1>5, <1>6, <1>7, <1>8, <1>9, <1>10 DEF Operations
-----------------------------------------------------------------------------
(* Why it is an invariant *)

LEMMA InitLayers == Init => LayersDecide
<1> SUFFICES ASSUME Init PROVE LayersDecide
  OBVIOUS
<1>0. Legal({}, {}) /\ Legal({"base"}, {}) /\ Legal(Layers, {})
  BY DEF Legal, Admits, RulesOf, Layers
<1>1. CASE db = Empty /\ applied = {}
  <2>1. TablesOf({}) \cup {} = {} /\ RulesOf({}) = {} /\ ColumnsOf({}) = NoColumns
    BY DEF TablesOf, RulesOf, ColumnsOf, NoColumns
  <2>2. Empty = Schema({}, {}, {})
    BY <2>1 DEF Empty, Schema, Database, Through
  <2>3. db.rows = {}
    BY <1>1 DEF Empty
  <2>. QED
    BY <1>0, <1>1, <2>2, <2>3 DEF LayersDecide
<1>2. CASE db = [Empty EXCEPT !.tables = Base, !.unique = {"receipt_wide"}] /\ applied = {"base"}
  <2>1. TablesOf({"base"}) \cup {} = Base /\ RulesOf({"base"}) = {"receipt_wide"} /\ ColumnsOf({"base"}) = NoColumns
    BY DEF TablesOf, RulesOf, ColumnsOf, NoColumns
  <2>2. db.tables = Base /\ db.unique = {"receipt_wide"} /\ db.columns = NoColumns /\ db.rows = {} /\ db.ok = Through
    BY <1>2 DEF Empty, Through
  <2>3. db = Database(Base, NoColumns, {"receipt_wide"}, {})
    BY <1>2, <2>2 DEF Empty, Database
  <2>4. db = Schema({"base"}, {}, {})
    BY <2>1, <2>3 DEF Schema
  <2>. QED
    BY <1>0, <1>2, <2>2, <2>4 DEF LayersDecide
<1>3. CASE /\ db = [Empty EXCEPT !.tables = Tables, !.unique = {"verified_only"},
                                 !.columns = [t \in Tables |-> ModelColumns(t)]]
           /\ applied = Layers
  <2>1. TablesOf(Layers) \cup Accounts = Tables /\ RulesOf(Layers) = {"verified_only"}
    BY DEF TablesOf, RulesOf, Layers, Tables, Accounts
  <2>2. ColumnsOf(Layers) = [t \in Tables |-> ModelColumns(t)]
    <3>1. ASSUME NEW t \in Tables PROVE HederaColumns(t) \cup ZgColumns(t) = ModelColumns(t)
      BY DEF HederaColumns, ZgColumns, ModelColumns, LEDGER_PROOF_COLUMNS
    <3>. QED
      BY <3>1 DEF ColumnsOf, Layers
  <2>3. /\ db.tables = Tables /\ db.unique = {"verified_only"} /\ db.rows = {} /\ db.ok = Through
        /\ db.columns = [t \in Tables |-> ModelColumns(t)]
    BY <1>3 DEF Empty, Through
  <2>4. db = Database(Tables, [t \in Tables |-> ModelColumns(t)], {"verified_only"}, {})
    BY <1>3, <2>3 DEF Empty, Database
  <2>5. db = Schema(Layers, Accounts, {})
    BY <2>1, <2>2, <2>4 DEF Schema
  <2>. QED
    BY <1>0, <1>3, <2>3, <2>5 DEF LayersDecide
<1>. QED
  BY <1>1, <1>2, <1>3 DEF Init

\* A submission that is filed leaves the tables as they are and its rules kept.
LEMMA FiledIsLegal ==
    ASSUME NEW layers, NEW R, Legal(layers, R), NEW e, "base" \in layers,
           \A rule \in RulesOf(layers) : Admits(rule, R \cup {e})
    PROVE  Legal(layers, R \cup {e})
<1>1. Admits("verified_only", R \cup {e})
  BY DEF RulesOf, Admits, Clash
<1>. QED
  BY <1>1 DEF Legal

\* The service can use the tables it reads exactly if all three layers are there.
LEMMA ServedByLayers ==
    ASSUME LayersDecide
    PROVE  /\ (\A t \in Base : Queryable(t)) <=> {"base", "hedera", "zg"} \subseteq applied
           /\ (\A t \in {"reward_programs", "punch_cards", "punch_events"} : Queryable(t))
                <=> {"base", "hedera", "zg"} \subseteq applied
<1>1. PICK A \in SUBSET Accounts : db = Schema(applied, A, db.rows) /\ Legal(applied, db.rows)
  BY DEF LayersDecide
<1>2. db.tables = TablesOf(applied) \cup A /\ db.columns = ColumnsOf(applied)
  BY <1>1, SchemaFields
<1>3. ASSUME {"base", "hedera", "zg"} \subseteq applied, NEW t \in Base PROVE Queryable(t)
  <2>1. t \in db.tables /\ t \in Tables
    BY <1>2, <1>3 DEF TablesOf, Tables
  <2>2. ModelColumns(t) = HederaColumns(t) \cup ZgColumns(t)
    BY DEF HederaColumns, ZgColumns, ModelColumns, LEDGER_PROOF_COLUMNS
  <2>3. db.columns[t] = HederaColumns(t) \cup ZgColumns(t)
    BY <1>2, <1>3, <2>1 DEF ColumnsOf
  <2>. QED
    BY <2>1, <2>2, <2>3 DEF Queryable
<1>4. ASSUME Queryable("punch_events") PROVE {"base", "hedera", "zg"} \subseteq applied
  <2>1. "punch_events" \in TablesOf(applied)
    BY <1>2, <1>4 DEF Queryable, Accounts
  <2>2. "base" \in applied
    BY <2>1 DEF TablesOf
  <2>3. "punch_events" \in Tables
    BY BaseTables DEF Tables
  <2>4. Proof \cup {"zg_request_id", "zg_provider_address", "zg_tee_verified"} \subseteq
          (IF "hedera" \in applied THEN Proof ELSE {})
           \cup (IF "zg" \in applied THEN {"zg_request_id", "zg_provider_address", "zg_tee_verified"} ELSE {})
    BY <1>2, <1>4, <2>3 DEF Queryable, ColumnsOf, ModelColumns, HederaColumns, ZgColumns, LEDGER_PROOF_COLUMNS
  <2>5. "hedera" \in applied /\ "zg" \in applied
    BY <2>4 DEF Proof
  <2>. QED
    BY <2>2, <2>5
<1>. QED
  BY <1>3, <1>4, BaseTables

LEMMA NextLayers == LayersDecide /\ [Next]_vars => LayersDecide'
<1> SUFFICES ASSUME LayersDecide, [Next]_vars PROVE LayersDecide'
  OBVIOUS
<1>1. PICK A \in SUBSET Accounts : db = Schema(applied, A, db.rows) /\ Legal(applied, db.rows)
  BY DEF LayersDecide
<1>2. CASE UNCHANGED <<db, applied>>
  BY <1>2 DEF LayersDecide
<1>3. ASSUME NEW operation \in Operations, Migrate(operation) PROVE LayersDecide'
  <2>1. CASE ~Apply(operation, db).ok
    BY <1>2, <1>3, <2>1 DEF Migrate
  <2>2. CASE Apply(operation, db).ok
    <3>1. db' = Apply(operation, db) /\ applied' = AppliedAfter(operation)
      BY <1>3, <2>2 DEF Migrate
    <3>2. PICK R : R = db.rows
      OBVIOUS
    <3>3. PICK A1 \in SUBSET Accounts, R1 \in {R, {}} :
              /\ Apply(operation, db) = Schema(AppliedAfter(operation), A1, R1)
              /\ Legal(AppliedAfter(operation), R1)
      BY <1>1, <2>2, <3>2, OperationEffect
    <3>4. db' = Schema(applied', A1, R1) /\ Legal(applied', R1)
      BY <3>1, <3>3
    <3>5. db'.rows = R1
      BY <3>4, SchemaFields
    <3>. QED
      BY <3>4, <3>5 DEF LayersDecide
  <2>. QED
    BY <2>1, <2>2
<1>4. ASSUME NEW receipt \in Receipts, NEW status, Submit(receipt, status) PROVE LayersDecide'
  <2>1. CASE UNCHANGED db
    BY <1>2, <1>4, <2>1 DEF Submit
  <2>2. CASE ~UNCHANGED db
    <3>1. PICK e : /\ \A t \in {"reward_programs", "punch_cards", "punch_events"} : Queryable(t)
                   /\ \A rule \in db.unique : Admits(rule, db.rows \cup {e})
                   /\ db' = [db EXCEPT !.rows = @ \cup {e}] /\ applied' = applied
      BY <1>4, <2>2 DEF Submit
    <3>2. PICK R, R1 : R = db.rows /\ R1 = R \cup {e}
      OBVIOUS
    <3>3. "base" \in applied
      BY <3>1, ServedByLayers
    <3>4. db.unique = RulesOf(applied)
      BY <1>1, SchemaFields
    <3>5. Legal(applied, R1)
      BY <1>1, <3>1, <3>2, <3>3, <3>4, FiledIsLegal
    <3>6. db' = Schema(applied, A, R1)
      <4>1. PICK T, C, U : T = TablesOf(applied) \cup A /\ C = ColumnsOf(applied) /\ U = RulesOf(applied)
        OBVIOUS
      <4>2. db = Database(T, C, U, R)
        BY <1>1, <3>2, <4>1 DEF Schema
      <4>3. db' = [Database(T, C, U, R) EXCEPT !.rows = R1]
        BY <3>1, <3>2, <4>2
      <4>4. [Database(T, C, U, R) EXCEPT !.rows = R1] = Database(T, C, U, R1)
        BY DEF Database
      <4>. QED
        BY <4>1, <4>3, <4>4 DEF Schema
    <3>7. db'.rows = R1
      BY <3>6, SchemaFields
    <3>. QED
      BY <3>1, <3>5, <3>6, <3>7 DEF LayersDecide
  <2>. QED
    BY <2>1, <2>2
<1>5. CASE Redeem
  BY <1>2, <1>5 DEF Redeem
<1>. QED
  BY <1>2, <1>3, <1>4, <1>5 DEF Next, vars

\* Whatever a host has migrated, adopted and taken down, in whatever order, its
\* database is the one its applied layers say.
THEOREM TheLayersDecideTheSchema == Spec => []LayersDecide
BY InitLayers, NextLayers, PTL DEF Spec
-----------------------------------------------------------------------------
(* What follows from it *)

\* An operation only fails on a schema without the base, or where the older rule
\* would forbid what was filed under the newer one.
LEMMA FailedOperation ==
    ASSUME NEW A \in SUBSET Accounts, NEW R, Legal(applied, R), NEW operation \in Operations,
           ~Apply(operation, Schema(applied, A, R)).ok
    PROVE  \/ operation \in {"upgrade_hedera", "upgrade_zg"} /\ "base" \notin applied
           \/ operation = "downgrade_receipt_retry" /\ ~Admits("receipt_wide", R)
<1> DEFINE d == Schema(applied, A, R)
<1>a. ASSUME NEW layers, NEW A1, NEW R1, Apply(operation, d) = Schema(layers, A1, R1) PROVE FALSE
  BY <1>a, SchemaFields
<1>1. CASE operation = "upgrade"
  <2>1. CASE "base" \in applied
    BY <1>1, <1>a, <2>1, UpgradeLeaves DEF Apply
  <2>2. CASE "base" \notin applied
    <3>1. applied = {} /\ R = {}
      BY <2>2 DEF Legal
    <3>2. Apply(operation, d) = Schema({"base", "retry"}, A, {})
      BY <1>1, <3>1, UpgradeBuilds DEF Apply
    <3>. QED
      BY <3>2, <1>a
  <2>. QED
    BY <2>1, <2>2
<1>2. CASE operation = "downgrade"
  BY <1>2, <1>a, DowngradeEmpties DEF Apply
<1>3. CASE operation = "upgrade_hedera" /\ "base" \in applied
  <2>1. Apply(operation, d) = Schema(applied \cup {"hedera"}, Accounts, R)
    BY <1>3, UpgradeHederaAdds DEF Apply
  <2>. QED
    BY <2>1, <1>a
<1>4. CASE operation = "downgrade_hedera"
  <2>1. Apply(operation, d) = Schema(applied \ {"hedera"}, {}, R)
    BY <1>4, DowngradeHederaDrops DEF Apply
  <2>. QED
    BY <2>1, <1>a
<1>5. CASE operation = "upgrade_zg" /\ "base" \in applied
  <2>1. Apply(operation, d) = Schema(applied \cup {"zg"}, A, R)
    BY <1>5, UpgradeZgAdds DEF Apply
  <2>. QED
    BY <2>1, <1>a
<1>6. CASE operation = "downgrade_zg"
  <2>1. Apply(operation, d) = Schema(applied \ {"zg"}, A, R)
    BY <1>6, DowngradeZgDrops DEF Apply
  <2>. QED
    BY <2>1, <1>a
<1>7. CASE operation \in {"upgrade_receipt_retry", "downgrade_receipt_retry"} /\ "base" \notin applied
  BY <1>7, <1>a, RetryNeedsEvents DEF Apply
<1>8. CASE operation = "upgrade_receipt_retry" /\ "base" \in applied
  <2>1. Apply(operation, d) = Schema(applied \cup {"retry"}, A, R)
    BY <1>8, UpgradeRetryNarrows DEF Apply
  <2>. QED
    BY <2>1, <1>a
<1>9. CASE operation = "downgrade_receipt_retry" /\ "base" \in applied /\ Admits("receipt_wide", R)
  <2>1. Apply(operation, d) = Schema(applied \ {"retry"}, A, R)
    BY <1>9, DowngradeRetryWidens DEF Apply
  <2>. QED
    BY <2>1, <1>a
<1>. QED
  BY <1>1, <1>2, <1>3, <1>4, <1>5, <1>6, <1>7, <1>8, <1>9 DEF Operations

LEMMA OperationsAreNoRequests == "submit" \notin Operations /\ "redeem" \notin Operations
BY DEF Operations

LEMMA NothingAnsweredYet == Init => RunsOnAllLayers /\ DuplicateIsTrue /\ FailureHasACause
BY DEF Init, RunsOnAllLayers, DuplicateIsTrue, FailureHasACause

\* The service answers exactly on the schemas whose three layers are applied,
\* however they came about.
THEOREM ServesOnAllLayers == Spec => []RunsOnAllLayers
<1>1. LayersDecide /\ RunsOnAllLayers /\ [Next]_vars => RunsOnAllLayers'
  <2> SUFFICES ASSUME LayersDecide, RunsOnAllLayers, [Next]_vars PROVE RunsOnAllLayers'
    OBVIOUS
  <2>1. ASSUME NEW operation \in Operations, Migrate(operation) PROVE RunsOnAllLayers'
    <3>1. last'.what = operation
      BY <2>1 DEF Migrate
    <3>. QED
      BY <3>1, OperationsAreNoRequests DEF RunsOnAllLayers
  <2>2. ASSUME NEW receipt \in Receipts, NEW status, Submit(receipt, status) PROVE RunsOnAllLayers'
    <3>1. /\ applied' = applied
          /\ last'.answer # "error"
               <=> \A t \in {"reward_programs", "punch_cards", "punch_events"} : Queryable(t)
      BY <2>2 DEF Submit
    <3>. QED
      BY <3>1, ServedByLayers DEF RunsOnAllLayers
  <2>3. CASE Redeem
    <3>1. applied' = applied /\ (last'.answer # "error" <=> \A t \in Base : Queryable(t))
      BY <2>3 DEF Redeem
    <3>. QED
      BY <3>1, ServedByLayers DEF RunsOnAllLayers
  <2>4. CASE UNCHANGED vars
    BY <2>4 DEF vars, RunsOnAllLayers
  <2>. QED
    BY <2>1, <2>2, <2>3, <2>4 DEF Next
<1>. QED
  BY <1>1, NothingAnsweredYet, TheLayersDecideTheSchema, PTL DEF Spec

\* No migration, in any order, leaves punch events without a rule that decides a
\* race of two approvals.
THEOREM RacesAreDecided == Spec => []SomeRuleDecides
<1>1. LayersDecide => SomeRuleDecides
  <2> SUFFICES ASSUME LayersDecide, "punch_events" \in db.tables, NEW receipt \in Receipts
               PROVE  \E rule \in db.unique :
                          Clash(rule, [id |-> 1, receipt |-> receipt, status |-> "verified"],
                                      [id |-> 2, receipt |-> receipt, status |-> "verified"])
    BY DEF SomeRuleDecides
  <2>1. PICK A \in SUBSET Accounts : db = Schema(applied, A, db.rows)
    BY DEF LayersDecide
  <2>2. db.tables = TablesOf(applied) \cup A /\ db.unique = RulesOf(applied)
    BY <2>1, SchemaFields
  <2>3. "base" \in applied
    BY <2>2 DEF TablesOf, Accounts
  <2>4. PICK rule : rule \in db.unique
    BY <2>2, <2>3 DEF RulesOf
  <2>5. Clash(rule, [id |-> 1, receipt |-> receipt, status |-> "verified"],
                    [id |-> 2, receipt |-> receipt, status |-> "verified"])
    BY DEF Clash
  <2>. QED
    BY <2>4, <2>5
<1>. QED
  BY <1>1, TheLayersDecideTheSchema, PTL

\* Under the newer rule a receipt told to be a duplicate has earned a punch.
THEOREM RefusedDuplicatesHaveEarned == Spec => []DuplicateIsTrue
<1>1. LayersDecide /\ DuplicateIsTrue /\ [Next]_vars => DuplicateIsTrue'
  <2> SUFFICES ASSUME LayersDecide, DuplicateIsTrue, [Next]_vars PROVE DuplicateIsTrue'
    OBVIOUS
  <2>1. ASSUME NEW operation \in Operations, Migrate(operation) PROVE DuplicateIsTrue'
    BY <2>1 DEF Migrate, DuplicateIsTrue
  <2>2. ASSUME NEW receipt \in Receipts, NEW status, Submit(receipt, status) PROVE DuplicateIsTrue'
    <3>1. CASE last'.answer # "duplicate"
      BY <3>1 DEF DuplicateIsTrue
    <3>2. CASE last'.answer = "duplicate"
      <4>1. PICK e : e = [id |-> Cardinality(db.rows) + 1, receipt |-> receipt, status |-> status]
        OBVIOUS
      <4>2. /\ ~(~Earned(receipt) /\ \A rule \in db.unique : Admits(rule, db.rows \cup {e}))
            /\ \A t \in {"reward_programs", "punch_cards", "punch_events"} : Queryable(t)
            /\ last'.receipt = {receipt} /\ db' = db /\ applied' = applied
        BY <2>2, <3>2, <4>1 DEF Submit
      <4>3. "base" \in applied
        BY <4>2, ServedByLayers
      <4>4. ASSUME "retry" \in applied PROVE Earned(receipt)
        <5> SUFFICES ASSUME ~Earned(receipt) PROVE FALSE
          OBVIOUS
        <5>1. PICK A \in SUBSET Accounts : db = Schema(applied, A, db.rows) /\ Legal(applied, db.rows)
          BY DEF LayersDecide
        <5>2. db.unique = {"verified_only"}
          BY <4>3, <4>4, <5>1, SchemaFields DEF RulesOf
        <5>3. ~Admits("verified_only", db.rows \cup {e}) /\ Admits("verified_only", db.rows)
          BY <4>2, <5>1, <5>2 DEF Legal
        <5>4. PICK a \in db.rows \cup {e}, b \in db.rows \cup {e} : Clash("verified_only", a, b)
          BY <5>3 DEF Admits
        <5>5. PICK f \in db.rows : f.receipt = e.receipt /\ f.status = "verified"
          BY <5>3, <5>4 DEF Admits, Clash
        <5>6. f.receipt = receipt
          BY <4>1, <5>5
        <5>. QED
          BY <5>5, <5>6 DEF Earned
      <4>5. (\A r \in last.receipt : Earned(r))' <=> Earned(receipt)
        BY <4>2 DEF Earned
      <4>. QED
        BY <4>2, <4>4, <4>5 DEF DuplicateIsTrue
    <3>. QED
      BY <3>1, <3>2
  <2>3. CASE Redeem
    BY <2>3 DEF Redeem, DuplicateIsTrue
  <2>4. CASE UNCHANGED vars
    BY <2>4 DEF vars, DuplicateIsTrue, Earned
  <2>. QED
    BY <2>1, <2>2, <2>3, <2>4 DEF Next
<1>. QED
  BY <1>1, NothingAnsweredYet, TheLayersDecideTheSchema, PTL DEF Spec

\* An operation fails for one of the two reasons the module's notes give, and for
\* no other.
THEOREM FailuresAreExplained == Spec => []FailureHasACause
<1>1. LayersDecide /\ FailureHasACause /\ [Next]_vars => FailureHasACause'
  <2> SUFFICES ASSUME LayersDecide, FailureHasACause, [Next]_vars PROVE FailureHasACause'
    OBVIOUS
  <2>1. ASSUME NEW operation \in Operations, Migrate(operation) PROVE FailureHasACause'
    <3>1. CASE last'.answer # "failed"
      BY <3>1 DEF FailureHasACause
    <3>2. CASE last'.answer = "failed"
      <4>1. ~Apply(operation, db).ok /\ last'.what = operation /\ db' = db /\ applied' = applied
        BY <2>1, <3>2 DEF Migrate
      <4>2. PICK A \in SUBSET Accounts : db = Schema(applied, A, db.rows) /\ Legal(applied, db.rows)
        BY DEF LayersDecide
      <4>3. \/ operation \in {"upgrade_hedera", "upgrade_zg"} /\ "base" \notin applied
            \/ operation = "downgrade_receipt_retry" /\ ~Admits("receipt_wide", db.rows)
        BY <4>1, <4>2, FailedOperation
      <4>4. ~Admits("receipt_wide", db.rows) => \E a, b \in db.rows : a # b /\ a.receipt = b.receipt
        BY DEF Admits, Clash
      <4>. QED
        BY <4>1, <4>3, <4>4 DEF FailureHasACause
    <3>. QED
      BY <3>1, <3>2
  <2>2. ASSUME NEW receipt \in Receipts, NEW status, Submit(receipt, status) PROVE FailureHasACause'
    BY <2>2 DEF Submit, FailureHasACause
  <2>3. CASE Redeem
    BY <2>3 DEF Redeem, FailureHasACause
  <2>4. CASE UNCHANGED vars
    BY <2>4 DEF vars, FailureHasACause
  <2>. QED
    BY <2>1, <2>2, <2>3, <2>4 DEF Next
<1>. QED
  BY <1>1, NothingAnsweredYet, TheLayersDecideTheSchema, PTL DEF Spec

\* What an operation has done, it finds done and leaves alone.
LEMMA DoneTwiceIsDoneOnce ==
    ASSUME NEW layers, NEW R, Legal(layers, R), NEW A \in SUBSET Accounts, NEW operation \in Operations,
           NEW d, d = Apply(operation, Schema(layers, A, R)), d.ok
    PROVE  Apply(operation, d) = d
<1>b. "base" \notin layers => layers = {} /\ R = {}
  BY DEF Legal
<1>1. CASE operation = "upgrade" /\ "base" \in layers
  BY <1>1, UpgradeLeaves DEF Apply
<1>2. CASE operation = "upgrade" /\ "base" \notin layers
  <2>1. d = Schema({"base", "retry"}, A, {})
    BY <1>2, <1>b, UpgradeBuilds DEF Apply
  <2>2. Upgrade(Schema({"base", "retry"}, A, {})) = Schema({"base", "retry"}, A, {})
    BY UpgradeLeaves
  <2>. QED
    BY <1>2, <2>1, <2>2 DEF Apply
<1>3. CASE operation = "downgrade"
  <2>1. d = Schema({}, A, {})
    BY <1>3, DowngradeEmpties DEF Apply
  <2>2. Legal({}, {})
    BY DEF Legal, Admits, RulesOf
  <2>3. Downgrade(Schema({}, A, {})) = Schema({}, A, {})
    BY <2>2, DowngradeEmpties
  <2>. QED
    BY <1>3, <2>1, <2>3 DEF Apply
<1>4. CASE operation = "upgrade_hedera"
  <2>1. "base" \in layers
    BY <1>4, <1>b, UpgradeHederaNeedsBase DEF Apply
  <2>2. PICK L : L = layers \cup {"hedera"}
    OBVIOUS
  <2>3. d = Schema(L, Accounts, R)
    BY <1>4, <2>1, <2>2, UpgradeHederaAdds DEF Apply
  <2>4. L \cup {"hedera"} = L /\ "base" \in L
    BY <2>1, <2>2
  <2>5. UpgradeHedera(Schema(L, Accounts, R)) = Schema(L \cup {"hedera"}, Accounts, R)
    BY <2>4, UpgradeHederaAdds
  <2>. QED
    BY <1>4, <2>3, <2>4, <2>5 DEF Apply
<1>5. CASE operation = "downgrade_hedera"
  <2>1. PICK L : L = layers \ {"hedera"}
    OBVIOUS
  <2>2. d = Schema(L, {}, R)
    BY <1>5, <2>1, DowngradeHederaDrops DEF Apply
  <2>3. L \ {"hedera"} = L
    BY <2>1
  <2>4. DowngradeHedera(Schema(L, {}, R)) = Schema(L \ {"hedera"}, {}, R)
    BY DowngradeHederaDrops
  <2>. QED
    BY <1>5, <2>2, <2>3, <2>4 DEF Apply
<1>6. CASE operation = "upgrade_zg"
  <2>1. "base" \in layers
    BY <1>6, <1>b, UpgradeZgNeedsBase DEF Apply
  <2>2. PICK L : L = layers \cup {"zg"}
    OBVIOUS
  <2>3. d = Schema(L, A, R)
    BY <1>6, <2>1, <2>2, UpgradeZgAdds DEF Apply
  <2>4. L \cup {"zg"} = L /\ "base" \in L
    BY <2>1, <2>2
  <2>5. UpgradeZg(Schema(L, A, R)) = Schema(L \cup {"zg"}, A, R)
    BY <2>4, UpgradeZgAdds
  <2>. QED
    BY <1>6, <2>3, <2>4, <2>5 DEF Apply
<1>7. CASE operation = "downgrade_zg"
  <2>1. PICK L : L = layers \ {"zg"}
    OBVIOUS
  <2>2. d = Schema(L, A, R)
    BY <1>7, <2>1, DowngradeZgDrops DEF Apply
  <2>3. L \ {"zg"} = L
    BY <2>1
  <2>4. DowngradeZg(Schema(L, A, R)) = Schema(L \ {"zg"}, A, R)
    BY DowngradeZgDrops
  <2>. QED
    BY <1>7, <2>2, <2>3, <2>4 DEF Apply
<1>8. CASE operation \in {"upgrade_receipt_retry", "downgrade_receipt_retry"} /\ "base" \notin layers
  BY <1>8, RetryNeedsEvents DEF Apply
<1>9. CASE operation = "upgrade_receipt_retry" /\ "base" \in layers
  <2>1. PICK L : L = layers \cup {"retry"}
    OBVIOUS
  <2>2. d = Schema(L, A, R)
    BY <1>9, <2>1, UpgradeRetryNarrows DEF Apply
  <2>3. L \cup {"retry"} = L /\ "base" \in L
    BY <1>9, <2>1
  <2>4. Legal(L, R)
    BY <1>9, <2>1 DEF Legal, RulesOf, Layers
  <2>5. UpgradeReceiptRetry(Schema(L, A, R)) = Schema(L \cup {"retry"}, A, R)
    BY <2>3, <2>4, UpgradeRetryNarrows
  <2>. QED
    BY <1>9, <2>2, <2>3, <2>5 DEF Apply
<1>10. CASE operation = "downgrade_receipt_retry" /\ "base" \in layers
  <2>1. Admits("receipt_wide", R)
    BY <1>10, DowngradeRetryWidens DEF Apply
  <2>2. PICK L : L = layers \ {"retry"}
    OBVIOUS
  <2>3. d = Schema(L, A, R)
    BY <1>10, <2>1, <2>2, DowngradeRetryWidens DEF Apply
  <2>4. L \ {"retry"} = L /\ "base" \in L
    BY <1>10, <2>2
  <2>5. DowngradeReceiptRetry(Schema(L, A, R)) = Schema(L \ {"retry"}, A, R)
    BY <2>1, <2>4, DowngradeRetryWidens
  <2>. QED
    BY <1>10, <2>3, <2>4, <2>5 DEF Apply
<1>. QED
  BY <1>1, <1>2, <1>3, <1>4, <1>5, <1>6, <1>7, <1>8, <1>9, <1>10 DEF Operations

\* Every operation can be run again, on every schema a host can have.
THEOREM OperationsCanBeRepeated == Spec => []Repeatable
<1>1. LayersDecide => Repeatable
  <2> SUFFICES ASSUME LayersDecide, NEW operation \in Operations, Apply(operation, db).ok
               PROVE  Apply(operation, Apply(operation, db)) = Apply(operation, db)
    BY DEF Repeatable
  <2>1. PICK R : R = db.rows
    OBVIOUS
  <2>2. PICK A \in SUBSET Accounts : db = Schema(applied, A, R) /\ Legal(applied, R)
    BY <2>1 DEF LayersDecide
  <2>3. PICK d : d = Apply(operation, db)
    OBVIOUS
  <2>4. d = Apply(operation, Schema(applied, A, R)) /\ d.ok
    BY <2>2, <2>3
  <2>5. Apply(operation, d) = d
    BY <2>2, <2>4, DoneTwiceIsDoneOnce
  <2>. QED
    BY <2>3, <2>5
<1>. QED
  BY <1>1, TheLayersDecideTheSchema, PTL

\* A layer that was adopted and is given up again leaves no trace.
THEOREM AdoptionLeavesNoTrace == Spec => []AdoptionIsReversible
<1>1. LayersDecide => AdoptionIsReversible
  <2> SUFFICES ASSUME LayersDecide PROVE AdoptionIsReversible
    OBVIOUS
  <2>r. PICK R : R = db.rows
    OBVIOUS
  <2>a. PICK A \in SUBSET Accounts : db = Schema(applied, A, R) /\ Legal(applied, R)
    BY <2>r DEF LayersDecide
  <2>b. "base" \notin applied => applied = {} /\ R = {}
    BY <2>a DEF Legal
  <2>1. ASSUME "base" \notin applied PROVE Apply("downgrade", Apply("upgrade", db)) = db
    <3>1. db = Schema({}, A, {})
      BY <2>1, <2>a, <2>b
    <3>2. Upgrade(db) = Schema({"base", "retry"}, A, {})
      BY <3>1, UpgradeBuilds
    <3>3. Legal({"base", "retry"}, {})
      BY DEF Legal, Admits, RulesOf, Layers
    <3>4. Downgrade(Schema({"base", "retry"}, A, {})) = Schema({}, A, {})
      BY <3>3, DowngradeEmpties
    <3>. QED
      BY <3>1, <3>2, <3>4 DEF Apply
  <2>2. ASSUME "hedera" \notin applied, Apply("upgrade_hedera", db).ok, "hedera_accounts" \notin db.tables
        PROVE  Apply("downgrade_hedera", Apply("upgrade_hedera", db)) = db
    <3>1. "base" \in applied
      BY <2>2, <2>a, <2>b, UpgradeHederaNeedsBase DEF Apply
    <3>2. A = {}
      BY <2>2, <2>a, SchemaFields DEF Accounts
    <3>3. PICK L : L = applied \cup {"hedera"}
      OBVIOUS
    <3>4. UpgradeHedera(db) = Schema(L, Accounts, R)
      BY <2>a, <3>1, <3>3, UpgradeHederaAdds
    <3>5. DowngradeHedera(Schema(L, Accounts, R)) = Schema(L \ {"hedera"}, {}, R)
      BY DowngradeHederaDrops
    <3>6. L \ {"hedera"} = applied
      BY <2>2, <3>3
    <3>. QED
      BY <2>a, <3>2, <3>4, <3>5, <3>6 DEF Apply
  <2>3. ASSUME "zg" \notin applied, Apply("upgrade_zg", db).ok
        PROVE  Apply("downgrade_zg", Apply("upgrade_zg", db)) = db
    <3>1. "base" \in applied
      BY <2>3, <2>a, <2>b, UpgradeZgNeedsBase DEF Apply
    <3>2. PICK L : L = applied \cup {"zg"}
      OBVIOUS
    <3>3. UpgradeZg(db) = Schema(L, A, R)
      BY <2>a, <3>1, <3>2, UpgradeZgAdds
    <3>4. DowngradeZg(Schema(L, A, R)) = Schema(L \ {"zg"}, A, R)
      BY DowngradeZgDrops
    <3>5. L \ {"zg"} = applied
      BY <2>3, <3>2
    <3>. QED
      BY <2>a, <3>3, <3>4, <3>5 DEF Apply
  <2>4. ASSUME "retry" \notin applied
        PROVE  Apply("downgrade_receipt_retry", Apply("upgrade_receipt_retry", db)) = db
    <3>1. CASE "base" \notin applied
      BY <2>a, <3>1, RetryNeedsEvents DEF Apply
    <3>2. CASE "base" \in applied
      <4>1. PICK L : L = applied \cup {"retry"}
        OBVIOUS
      <4>2. UpgradeReceiptRetry(db) = Schema(L, A, R)
        BY <2>a, <3>2, <4>1, UpgradeRetryNarrows
      <4>3. Admits("receipt_wide", R)
        BY <2>4, <2>a, <3>2 DEF Legal, RulesOf
      <4>4. DowngradeReceiptRetry(Schema(L, A, R)) = Schema(L \ {"retry"}, A, R)
        BY <3>2, <4>1, <4>3, DowngradeRetryWidens
      <4>5. L \ {"retry"} = applied
        BY <2>4, <4>1
      <4>. QED
        BY <2>a, <4>2, <4>4, <4>5 DEF Apply
    <3>. QED
      BY <3>1, <3>2
  <2>. QED
    BY <2>1, <2>2, <2>3, <2>4 DEF AdoptionIsReversible
<1>. QED
  BY <1>1, TheLayersDecideTheSchema, PTL
=============================================================================
