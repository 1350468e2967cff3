---------------------------- MODULE HederaLedger ----------------------------
(***************************************************************************)
(* The mirror of src/hour_rewards/hedera/ledger.py: what the service's     *)
(* requests and reconcile passes put on the Hedera network, and the        *)
(* nullable columns in which the database remembers it.                    *)
(*                                                                         *)
(* A mirror call runs inside a request with a session of its own.  It is   *)
(* suspended at every network call and every commit, so each is cut in     *)
(* two: one action is the network executing (or not) what was asked, a     *)
(* later one commits the id that came back.  Any other request may run     *)
(* between them, and the request may die there.  A session keeps the rows  *)
(* it has loaded (progs, cards): a query returns the copy it already has,  *)
(* only a refresh replaces it.                                             *)
(*                                                                         *)
(* A call has one of three outcomes: it is executed and answered, it       *)
(* fails, or it is executed and its answer does not arrive in time.  Ids   *)
(* on the network count from 1, a serial within its collection and a       *)
(* sequence number within its topic, and 0 is a null column.               *)
(***************************************************************************)
EXTENDS Integers, Sequences, FiniteSets

CONSTANTS
    Users, Venues,
    Sessions,       \* database sessions: how many requests may be in flight
    Retired,        \* venues that left before the mirror was configured
    Limit,          \* rows of each kind one reconcile pass takes
    Required,       \* punches_required
    HostSerialises, \* TRUE: the host runs one request per venue at a time
    MaxRows,        \* bound: verified punches and redemptions in all
    MaxExtra,       \* bound: opt-ins, pauses and recounts in all
    MaxFaults,      \* bound: failed calls, lost answers and crashed requests in all
    MaxPasses,      \* bound: reconcile passes in flight
    None            \* nothing loaded, nothing concerned

ASSUME LedgerRetired == Retired \subseteq Venues /\ IsFiniteSet(Users) /\ IsFiniteSet(Venues)
ASSUME LedgerNumbers == Limit \in Nat /\ Required \in Nat \ {0} /\ HostSerialises \in BOOLEAN
ASSUME LedgerBounds == {MaxRows, MaxExtra, MaxFaults, MaxPasses} \subseteq Nat
ASSUME LedgerNone == None \notin Users \cup Venues \cup (Users \X Venues)

VARIABLES
    prog,           \* reward_programs: is_enabled, hedera_token_id, hedera_topic_id
    card,           \* punch_cards: cycle, count, hedera_nft_serial and _account_id
    rows,           \* verified punch_events and reward_redemptions, oldest first
    account,        \* hedera_accounts on this network, by user
    req,            \* what each session's request is doing
    tokens, topics, \* the network: the venue of each collection and topic
    accounts,       \* the network: the user of each account
    nfts, log,      \* the NFTs of each collection, the messages of each topic
    failed, faults, extra \* how much of the bounds is used up

db == <<prog, card, rows, account>>
network == <<tokens, topics, accounts, nfts, log>>
vars == <<prog, card, rows, account, req, tokens, topics, accounts, nfts, log,
          failed, faults, extra>>
-----------------------------------------------------------------------------
(* Rows, copies of rows, and requests *)

Cards == Users \X Venues
Owner(c) == c[1]
VenueOf(c) == c[2]

ProgramRows == [on : BOOLEAN, token : Nat, topic : Nat]
CardRows == [cycle : Nat, count : Nat, serial : Nat, holder : Nat]
ASSUME LedgerNoRow == None \notin ProgramRows \cup CardRows
MirrorRows == [kind : {"punch", "redeem"}, card : Cards, cycle : Nat, seq : Nat]

\* An NFT's metadata URI names its card, with the card's progress as a version;
\* holder 0 is the treasury.  A message with no event or redemption has row 0.
Nfts == [card : Cards, holder : Nat, meta : Nat \X Nat]
Messages == [row : Nat, count : Nat]

Ops == {"none", "optin", "punch", "recount", "redeem", "reconcile"}
Phases == {"programs", "cards", "punch", "redeem", "refresh"}
Steps == {"idle", "file", "token", "savetoken", "topic", "savetopic", "account",
          "create", "keep", "mint", "serial", "transfer", "holder", "submit",
          "metadata", "proof", "pick", "refresh"}
Requests ==
    [op : Ops, step : Steps, venue : Venues \cup {None}, card : Cards \cup {None},
     row : Nat, progs : [Venues -> ProgramRows \cup {None}],
     cards : [Cards -> CardRows \cup {None}], account : Nat, minted : BOOLEAN,
     got : Nat, seq : Nat, phase : Phases, work : SUBSET (Venues \cup Cards), queue : SUBSET Nat,
     touched : SUBSET Cards]

Bare(op, step, v, c) ==
    [op |-> op, step |-> step, venue |-> v, card |-> c, row |-> 0,
     progs |-> [u \in Venues |-> None], cards |-> [d \in Cards |-> None],
     account |-> 0, minted |-> FALSE, got |-> 0, seq |-> 0, phase |-> "programs",
     work |-> {}, queue |-> {}, touched |-> {}]
Idle == Bare("none", "idle", None, None)

Busy(w) == req[w].step # "idle"
\* What a host that queues the requests at one venue, and runs reconcile alone,
\* would guarantee.
VenueFree(v) ==
    HostSerialises => \A w \in Sessions : Busy(w) => req[w].op # "reconcile" /\ req[w].venue # v
AllFree == HostSerialises => \A w \in Sessions : ~Busy(w)

\* Punches from before the mirror was configured: everyone has one at each venue
\* that has left since.  They may be in any order.
Punch(c, n) == [kind |-> "punch", card |-> c, cycle |-> n, seq |-> 0]
EarlierRows ==
    LET old == {c \in Cards : VenueOf(c) \in Retired} IN
    {s \in [1..Cardinality(old) -> {Punch(c, 1) : c \in old}] :
         \A i, j \in DOMAIN s : s[i] = s[j] => i = j}

Init ==
    /\ prog = [v \in Venues |-> [on |-> FALSE, token |-> 0, topic |-> 0]]
    /\ card = [c \in Cards |-> [cycle |-> 1, count |-> IF VenueOf(c) \in Retired THEN 1 ELSE 0,
                               serial |-> 0, holder |-> 0]]
    /\ rows \in EarlierRows
    /\ account = [u \in Users |-> 0]
    /\ req = [w \in Sessions |-> Idle]
    /\ tokens = <<>> /\ topics = <<>> /\ accounts = <<>> /\ nfts = <<>> /\ log = <<>>
    /\ failed = 0 /\ faults = 0 /\ extra = 0

\* session.get and the queries: a row already loaded stays as it was loaded.
Load(r, v, c) ==
    [r EXCEPT !.progs = IF v # None /\ @[v] = None THEN [@ EXCEPT ![v] = prog[v]] ELSE @,
              !.cards = IF c # None /\ @[c] = None THEN [@ EXCEPT ![c] = card[c]] ELSE @]
-----------------------------------------------------------------------------
(* Where a request goes next.  r is the request's record as a step leaves  *)
(* it; each operator follows the code to its next await.                   *)

Program(r) == r.progs[r.venue]
Card(r) == r.cards[r.card]
Version(r) == <<Card(r).cycle, Card(r).count>>
At(r, step) == [r EXCEPT !.step = step]

Ended(r) == IF r.op = "reconcile"
            THEN [Bare("reconcile", "pick", None, None) EXCEPT
                      !.progs = r.progs, !.cards = r.cards, !.phase = r.phase,
                      !.work = r.work, !.queue = r.queue, !.touched = r.touched]
            ELSE Idle

ToTopicAgain(r) == At(r, "topic")  \* mutant
ToTopic(r) == IF Program(r).topic = 0 THEN At(r, "topic") ELSE Ended(r)
ToToken(r) == IF Program(r).token = 0 THEN At(r, "token") ELSE ToTopic(r)

\* The end of _publish.  A proof row is only written with what this call got.
ToAnyProof(r) == IF r.row # 0 THEN At(r, "proof") ELSE Ended(r)  \* mutant
ToProof(r) == IF r.row # 0 /\ r.seq # 0 THEN At(r, "proof") ELSE Ended(r)

ToPunchMetadata(r) ==  \* mutant
    IF r.op = "punch" /\ ~r.minted /\ Program(r).token # 0 /\ Card(r).serial # 0
    THEN At(r, "metadata") ELSE ToProof(r)
ToMetadata(r) ==
    IF /\ r.op # "reconcile" /\ ~r.minted
       /\ Program(r).token # 0 /\ Card(r).serial # 0
    THEN At(r, "metadata") ELSE ToProof(r)

ToSubmit(r) == IF Program(r).topic # 0 THEN At(r, "submit") ELSE ToMetadata(r)

\* ensure_card_nft has returned: to the publishing of a punch, or to reconcile.
NftDone(r) ==
    IF r.op = "reconcile"
    THEN [Ended(r) EXCEPT !.touched = IF Card(r).holder # 0 THEN @ \cup {r.card} ELSE @]
    ELSE ToSubmit([r EXCEPT !.account = 0])

ToTransfer(r) == IF Card(r).holder = 0 THEN At(r, "transfer") ELSE NftDone(r)
ToMintAgain(r) == At(r, "mint")  \* mutant
ToMint(r) == IF Card(r).serial = 0 THEN At(r, "mint") ELSE ToTransfer(r)

ToNft(r) ==
    IF (Card(r).serial # 0 /\ Card(r).holder # 0) \/ Program(r).token = 0
    THEN NftDone(r) ELSE At(r, "account")
-----------------------------------------------------------------------------
(* Calls to the network *)

\* A call of w that asks for change, and returns the record of w: after if the
\* answer arrives, after the except clause (otherwise) if it does not.
Call(w, change, nothing, after, otherwise) ==
    \/ change /\ req' = [req EXCEPT ![w] = after] /\ UNCHANGED <<failed, faults>>
    \/ /\ failed + faults < MaxFaults /\ failed' = failed + 1
       /\ nothing /\ req' = [req EXCEPT ![w] = otherwise] /\ UNCHANGED faults
    \/ /\ failed + faults < MaxFaults /\ faults' = faults + 1
       /\ change /\ req' = [req EXCEPT ![w] = otherwise] /\ UNCHANGED failed

\* The request dies: its task is cancelled or the process is killed.
Crash(w) ==
    /\ Busy(w) /\ failed + faults < MaxFaults
    /\ req' = [req EXCEPT ![w] = Idle]
    /\ faults' = faults + 1
    /\ UNCHANGED <<db, network, failed, extra>>
-----------------------------------------------------------------------------
(* The venue's collection and topic: _ensure_program_ledger *)

\* create_or_update_reward_program, then the ledger is set up.
OptIn(w, v) ==
    /\ ~Busy(w) /\ VenueFree(v) /\ extra < MaxExtra
    /\ prog' = [prog EXCEPT ![v].on = TRUE]
    /\ req' = [req EXCEPT ![w] =
           ToToken([Bare("optin", "idle", v, None) EXCEPT !.progs[v] = prog'[v]])]
    /\ extra' = extra + 1
    /\ UNCHANGED <<card, rows, account, network, failed, faults>>

\* An owner disables the program (update_reward_program): no mirror call.
Pause(v) ==
    /\ prog[v].on /\ extra < MaxExtra
    /\ prog' = [prog EXCEPT ![v].on = FALSE]
    /\ extra' = extra + 1
    /\ UNCHANGED <<card, rows, account, network, req, failed, faults>>

CreateCollection(w) ==
    LET r == req[w] IN
    /\ r.step = "token"
    /\ Call(w, tokens' = Append(tokens, r.venue) /\ nfts' = Append(nfts, <<>>),
            UNCHANGED <<tokens, nfts>>,
            [At(r, "savetoken") EXCEPT !.got = Len(tokens) + 1], Ended(r))
    /\ UNCHANGED <<db, topics, accounts, log, extra>>

SaveToken(w) ==
    LET r == req[w] IN
    /\ r.step = "savetoken"
    /\ prog' = [prog EXCEPT ![r.venue].token = r.got]
    /\ req' = [req EXCEPT ![w] = ToTopic([r EXCEPT !.progs[r.venue] = prog'[r.venue], !.got = 0])]
    /\ UNCHANGED <<card, rows, account, network, failed, faults, extra>>

CreateTopic(w) ==
    LET r == req[w] IN
    /\ r.step = "topic"
    /\ Call(w, topics' = Append(topics, r.venue) /\ log' = Append(log, <<>>),
            UNCHANGED <<topics, log>>,
            [At(r, "savetopic") EXCEPT !.got = Len(topics) + 1], Ended(r))
    /\ UNCHANGED <<db, tokens, accounts, nfts, extra>>

SaveTopic(w) ==
    LET r == req[w] IN
    /\ r.step = "savetopic"
    /\ prog' = [prog EXCEPT ![r.venue].topic = r.got]
    /\ req' = [req EXCEPT ![w] = Ended([r EXCEPT !.progs[r.venue] = prog'[r.venue]])]
    /\ UNCHANGED <<card, rows, account, network, failed, faults, extra>>
-----------------------------------------------------------------------------
(* The service files a row, and mirrors it *)

Punches(c, n) ==
    {i \in DOMAIN rows : rows[i].kind = "punch" /\ rows[i].card = c /\ rows[i].cycle = n}
HasPunch(c) == \E i \in DOMAIN rows : rows[i].kind = "punch" /\ rows[i].card = c

\* _punch_ordinal.
Ordinal(i) == Cardinality({j \in Punches(rows[i].card, rows[i].cycle) : j <= i})

\* submit_receipt and redeem_code load the program long before they commit.
Begin(w, op, c) ==
    /\ ~Busy(w) /\ VenueFree(VenueOf(c))
    /\ Len(rows) + Cardinality({s \in Sessions : req[s].step = "file"}) < MaxRows
    /\ \/ op = "punch" /\ prog[VenueOf(c)].on
       \/ op = "redeem" /\ card[c].count >= Required
    /\ req' = [req EXCEPT ![w] = Load(Bare(op, "file", VenueOf(c), c), VenueOf(c), None)]
    /\ UNCHANGED <<db, network, failed, faults, extra>>

\* The service's commit and the refresh of the card, then record_punch.
FilePunch(w) ==
    LET r == req[w]  c == r.card IN
    /\ r.step = "file" /\ r.op = "punch"
    /\ rows' = Append(rows, Punch(c, card[c].cycle))
    /\ card' = [card EXCEPT ![c].count = Cardinality(Punches(c, card[c].cycle)) + 1]
    /\ req' = [req EXCEPT ![w] = ToNft([r EXCEPT !.cards[c] = card'[c], !.row = Len(rows')])]
    /\ UNCHANGED <<prog, account, network, failed, faults, extra>>

\* The same for a redemption, then record_redemption: it never mints.
FileRedemption(w) ==
    LET r == req[w]  c == r.card IN
    /\ r.step = "file" /\ r.op = "redeem"
    /\ rows' = Append(rows, [kind |-> "redeem", card |-> c, cycle |-> card[c].cycle, seq |-> 0])
    /\ card' = [card EXCEPT ![c].cycle = @ + 1, ![c].count = 0]
    /\ req' = [req EXCEPT ![w] = ToSubmit([r EXCEPT !.cards[c] = card'[c], !.row = Len(rows')])]
    /\ UNCHANGED <<prog, account, network, failed, faults, extra>>

\* record_verified_punch with no event: a message and metadata, no proof row.
Recount(w, c) ==
    /\ ~Busy(w) /\ VenueFree(VenueOf(c)) /\ extra < MaxExtra /\ HasPunch(c)
    /\ req' = [req EXCEPT ![w] =
           ToNft(Load(Bare("recount", "idle", VenueOf(c), c), VenueOf(c), c))]
    /\ extra' = extra + 1
    /\ UNCHANGED <<db, network, failed, faults>>
-----------------------------------------------------------------------------
(* The card's NFT: ensure_card_nft and ensure_user_account *)

FindAccount(w) ==
    LET r == req[w]  found == account[Owner(r.card)] IN
    /\ r.step = "account"
    /\ req' = [req EXCEPT ![w] = IF found = 0 THEN At(r, "create")
                                 ELSE ToMint([r EXCEPT !.account = found])]
    /\ UNCHANGED <<db, network, failed, faults, extra>>

CreateAccount(w) ==
    LET r == req[w] IN
    /\ r.step = "create"
    /\ Call(w, accounts' = Append(accounts, Owner(r.card)), UNCHANGED accounts,
            [At(r, "keep") EXCEPT !.got = Len(accounts) + 1], NftDone(r))
    /\ UNCHANGED <<db, tokens, topics, nfts, log, extra>>

\* A user has one row, so the insert of the loser of a race is refused: nobody
\* below record_punch or reconcile's caller catches the IntegrityError.
KeepAnyAccount(w) ==  \* mutant
    LET r == req[w] IN
    /\ r.step = "keep"
    /\ account' = [account EXCEPT ![Owner(r.card)] = r.got]
    /\ req' = [req EXCEPT ![w] = ToMint([r EXCEPT !.account = r.got, !.got = 0])]
    /\ UNCHANGED <<prog, card, rows, network, failed, faults, extra>>
KeepAccount(w) ==
    LET r == req[w]  u == Owner(r.card) IN
    /\ r.step = "keep"
    /\ IF account[u] # 0
       THEN UNCHANGED account /\ req' = [req EXCEPT ![w] = Idle]
       ELSE /\ account' = [account EXCEPT ![u] = r.got]
            /\ req' = [req EXCEPT ![w] = ToMint([r EXCEPT !.account = r.got, !.got = 0])]
    /\ UNCHANGED <<prog, card, rows, network, failed, faults, extra>>

MintCard(w) ==
    LET r == req[w]  t == Program(r).token IN
    /\ r.step = "mint"
    /\ Call(w, nfts' = [nfts EXCEPT ![t] = Append(@,
                    [card |-> r.card, holder |-> 0, meta |-> Version(r)])],
            UNCHANGED nfts, [At(r, "serial") EXCEPT !.got = Len(nfts[t]) + 1], NftDone(r))
    /\ UNCHANGED <<db, tokens, topics, accounts, log, extra>>

SaveSerial(w) ==
    LET r == req[w]  c == r.card IN
    /\ r.step = "serial"
    /\ card' = [card EXCEPT ![c].serial = r.got]
    /\ req' = [req EXCEPT ![w] =
           ToTransfer([r EXCEPT !.cards[c] = card'[c], !.minted = TRUE, !.got = 0])]
    /\ UNCHANGED <<prog, rows, account, network, failed, faults, extra>>

\* The network refuses a transfer out of the treasury of what is not there.
TransferAnyway(w) ==  \* mutant
    LET r == req[w]  t == Program(r).token  k == Card(r).serial IN
    /\ r.step = "transfer"
    /\ Call(w, nfts' = [nfts EXCEPT ![t][k].holder = r.account], UNCHANGED nfts,
            At(r, "holder"), At(r, "holder"))
    /\ UNCHANGED <<db, tokens, topics, accounts, log, extra>>
TransferCard(w) ==
    LET r == req[w]  t == Program(r).token  k == Card(r).serial IN
    /\ r.step = "transfer"
    /\ IF k \in DOMAIN nfts[t] /\ nfts[t][k].holder = 0
       THEN Call(w, nfts' = [nfts EXCEPT ![t][k].holder = r.account], UNCHANGED nfts,
                 At(r, "holder"), NftDone(r))
       ELSE UNCHANGED <<nfts, failed, faults>> /\ req' = [req EXCEPT ![w] = NftDone(r)]
    /\ UNCHANGED <<db, tokens, topics, accounts, log, extra>>

SaveOwner(w) ==  \* mutant
    LET r == req[w]  c == r.card IN
    /\ r.step = "holder"
    /\ card' = [card EXCEPT ![c].holder = Owner(c)]
    /\ req' = [req EXCEPT ![w] = Idle]
    /\ UNCHANGED <<prog, rows, account, network, failed, faults, extra>>
SaveHolder(w) ==
    LET r == req[w]  c == r.card IN
    /\ r.step = "holder"
    /\ card' = [card EXCEPT ![c].holder = r.account]
    /\ req' = [req EXCEPT ![w] = NftDone([r EXCEPT !.cards[c] = card'[c]])]
    /\ UNCHANGED <<prog, rows, account, network, failed, faults, extra>>
-----------------------------------------------------------------------------
(* The message, the metadata and the proof row: _publish *)

\* A replayed punch counts by its place in its cycle, a live one by the card.
\* mutant
CardCount(r) == IF r.op = "redeem" \/ r.phase = "redeem" THEN 0 ELSE Card(r).count
MessageCount(r) ==
    CASE r.op = "reconcile" /\ r.phase = "punch" -> Ordinal(r.row)
      [] r.op \in {"punch", "recount"} -> Card(r).count
      [] OTHER -> 0

Submit(w) ==
    LET r == req[w]  t == Program(r).topic IN
    /\ r.step = "submit"
    /\ Call(w, log' = [log EXCEPT ![t] = Append(@, [row |-> r.row, count |-> MessageCount(r)])],
            UNCHANGED log, ToMetadata([r EXCEPT !.seq = Len(log[t]) + 1]), ToMetadata(r))
    /\ UNCHANGED <<db, tokens, topics, accounts, nfts, extra>>

Repoint(w, after) ==
    LET r == req[w]  t == Program(r).token  k == Card(r).serial IN
    /\ IF k \in DOMAIN nfts[t]
       THEN Call(w, nfts' = [nfts EXCEPT ![t][k].meta = Version(r)], UNCHANGED nfts, after, after)
       ELSE UNCHANGED <<nfts, failed, faults>> /\ req' = [req EXCEPT ![w] = after]
    /\ UNCHANGED <<db, tokens, topics, accounts, log, extra>>

UpdateMetadata(w) == req[w].step = "metadata" /\ Repoint(w, ToProof(req[w]))

WriteLatestProof(w) ==  \* mutant
    LET r == req[w] IN
    /\ r.step = "proof"
    /\ rows' = [rows EXCEPT ![Len(rows)].seq = r.seq]
    /\ req' = [req EXCEPT ![w] = Ended(r)]
    /\ UNCHANGED <<prog, card, account, network, failed, faults, extra>>
WriteProof(w) ==
    LET r == req[w] IN
    /\ r.step = "proof"
    /\ rows' = [rows EXCEPT ![r.row].seq = r.seq]
    /\ req' = [req EXCEPT ![w] = IF r.op = "reconcile"
                   THEN [Ended(r) EXCEPT !.touched = @ \cup {r.card}] ELSE Ended(r)]
    /\ UNCHANGED <<prog, card, account, network, failed, faults, extra>>
-----------------------------------------------------------------------------
(* reconcile: five phases, each a query and then its rows one by one *)

UnfinishedPrograms == {v \in Venues : prog[v].on /\ (prog[v].token = 0 \/ prog[v].topic = 0)}
CardsToMint == {c \in Cards : card[c].serial = 0 /\ HasPunch(c)}  \* mutant
CardsToFinish ==
    {c \in Cards : \/ card[c].serial = 0 /\ HasPunch(c)
                   \/ card[c].serial # 0 /\ card[c].holder = 0}
Unpublished(kind) == {i \in DOMAIN rows : rows[i].kind = kind /\ rows[i].seq = 0}

\* A LIMIT takes the oldest rows of an ordered query, and any of another.
Oldest(S) == {i \in S : Cardinality({j \in S : j <= i}) <= Limit}
Limited(S) == {T \in SUBSET S : Cardinality(T) = Limit \/ (T = S /\ Cardinality(S) < Limit)}

BeginReconcile(w) ==
    /\ ~Busy(w) /\ AllFree
    /\ Cardinality({s \in Sessions : req[s].op = "reconcile"}) < MaxPasses
    /\ \E T \in Limited(UnfinishedPrograms) :
           req' = [req EXCEPT ![w] =
               [Bare("reconcile", "pick", None, None) EXCEPT
                   !.progs = [v \in Venues |-> IF v \in T THEN prog[v] ELSE None],
                   !.work = T]]
    /\ UNCHANGED <<db, network, failed, faults, extra>>

NextPhase(w) ==
    LET r == req[w] IN
    /\ r.step = "pick" /\ r.work = {} /\ r.queue = {}
    /\ \/ /\ r.phase = "programs"
          /\ \E T \in Limited(CardsToFinish) :
                 req' = [req EXCEPT ![w] = [r EXCEPT !.phase = "cards", !.work = T,
                     !.cards = [c \in Cards |-> IF c \in T THEN card[c] ELSE @[c]]]]
       \/ /\ r.phase = "cards"
          /\ req' = [req EXCEPT ![w] =
                 [r EXCEPT !.phase = "punch", !.queue = Oldest(Unpublished("punch"))]]
       \/ /\ r.phase = "punch"
          /\ req' = [req EXCEPT ![w] =
                 [r EXCEPT !.phase = "redeem", !.queue = Oldest(Unpublished("redeem"))]]
       \/ /\ r.phase = "redeem"
          /\ req' = [req EXCEPT ![w] = [r EXCEPT !.phase = "refresh", !.work = r.touched]]
       \/ r.phase = "refresh" /\ req' = [req EXCEPT ![w] = Idle]
    /\ UNCHANGED <<db, network, failed, faults, extra>>

\* The next item of a phase; what is loaded for it, and whether it is skipped.
PickProgram(r, v) == ToToken([r EXCEPT !.venue = v, !.card = None, !.work = @ \ {v}])
PickCard(r, c) ==
    ToNft(Load([r EXCEPT !.venue = VenueOf(c), !.card = c, !.work = @ \ {c}], VenueOf(c), None))
PickRow(r, i) ==
    LET c == rows[i].card
        q == Load([r EXCEPT !.venue = VenueOf(c), !.card = c, !.row = i, !.queue = @ \ {i}],
                  VenueOf(c), c)
    IN IF Program(q).topic = 0 THEN Ended(q) ELSE At(q, "submit")
PickStale(r, c) ==
    LET q == Load([r EXCEPT !.venue = VenueOf(c), !.card = c, !.work = @ \ {c}], VenueOf(c), None)
    IN IF Program(q).token = 0 \/ Card(q).serial = 0 THEN q ELSE At(q, "refresh")

Pick(w) ==
    LET r == req[w] IN
    /\ r.step = "pick"
    /\ \/ \E x \in r.work : req' = [req EXCEPT ![w] =
              CASE r.phase = "programs" -> PickProgram(r, x)
                [] r.phase = "cards" -> PickCard(r, x)
                [] r.phase = "refresh" -> PickStale(r, x)]
       \/ \E i \in r.queue : /\ \A j \in r.queue : i <= j
                             /\ req' = [req EXCEPT ![w] = PickRow(r, i)]
    /\ UNCHANGED <<db, network, failed, faults, extra>>

RefreshMetadata(w) == req[w].step = "refresh" /\ Repoint(w, Ended(req[w]))
-----------------------------------------------------------------------------
\* A request that has begun goes on to its end.
Proceed(w) ==
    \/ FilePunch(w) \/ FileRedemption(w)
    \/ CreateCollection(w) \/ SaveToken(w) \/ CreateTopic(w) \/ SaveTopic(w)
    \/ FindAccount(w) \/ CreateAccount(w) \/ KeepAccount(w)
    \/ MintCard(w) \/ SaveSerial(w) \/ TransferCard(w) \/ SaveHolder(w)
    \/ Submit(w) \/ UpdateMetadata(w) \/ WriteProof(w)
    \/ NextPhase(w) \/ Pick(w) \/ RefreshMetadata(w)

Arrive(w) ==
    \/ \E v \in Venues : OptIn(w, v)
    \/ \E c \in Cards : Begin(w, "punch", c) \/ Begin(w, "redeem", c) \/ Recount(w, c)

Next ==
    \/ \E v \in Venues : Pause(v)
    \/ \E w \in Sessions : Proceed(w) \/ Arrive(w) \/ BeginReconcile(w) \/ Crash(w)

Spec == Init /\ [][Next]_vars

\* Requests in flight go on, failures come to an end (they are bounded), and
\* somebody keeps running reconcile; nobody else is obliged to act.
Fairness ==
    /\ \A w \in Sessions : WF_vars(Proceed(w))
    /\ WF_vars(\E w \in Sessions : BeginReconcile(w))
LiveSpec == Spec /\ Fairness
-----------------------------------------------------------------------------
(* Properties *)

\* Rows, requests and the network have the shape their columns and fields allow.
TypeOK ==
    /\ prog \in [Venues -> ProgramRows]
    /\ card \in [Cards -> CardRows]
    /\ rows \in Seq(MirrorRows)
    /\ account \in [Users -> Nat]
    /\ req \in [Sessions -> Requests]
    /\ tokens \in Seq(Venues) /\ topics \in Seq(Venues) /\ accounts \in Seq(Users)
    /\ nfts \in Seq(Seq(Nfts)) /\ Len(nfts) = Len(tokens)
    /\ log \in Seq(Seq(Messages)) /\ Len(log) = Len(topics)
    /\ failed \in Nat /\ faults \in Nat /\ extra \in Nat

\* What is on the network for a card, a venue, a row.
NftsOf(c) == {p \in UNION {{t} \X DOMAIN nfts[t] : t \in DOMAIN nfts} : nfts[p[1]][p[2]].card = c}
MessagesOf(i) == {p \in UNION {{t} \X DOMAIN log[t] : t \in DOMAIN log} : log[p[1]][p[2]].row = i}

\* A reference in the database is never a guess: the collection, topic and
\* account it names exist and were made for that venue or user, a serial was
\* minted for that card, a holder is its user's account, and a sequence number
\* is that of a message about that row in a topic of its venue.  This is what a
\* proof page may rely on, whatever raced or died (ledger.py, _save, _publish).
RefsExist ==
    /\ \A v \in Venues :
           /\ prog[v].token # 0 => prog[v].token \in DOMAIN tokens /\ tokens[prog[v].token] = v
           /\ prog[v].topic # 0 => prog[v].topic \in DOMAIN topics /\ topics[prog[v].topic] = v
    /\ \A u \in Users :
           account[u] # 0 => account[u] \in DOMAIN accounts /\ accounts[account[u]] = u
    /\ \A c \in Cards :
           /\ card[c].serial # 0 =>
                  \E p \in NftsOf(c) : p[2] = card[c].serial /\ tokens[p[1]] = VenueOf(c)
           /\ card[c].holder # 0 => card[c].holder = account[Owner(c)]
    /\ \A i \in DOMAIN rows :
           rows[i].seq # 0 => \E p \in MessagesOf(i) :
               p[2] = rows[i].seq /\ topics[p[1]] = VenueOf(rows[i].card)

\* No later call, replay or reconcile clears a reference that an earlier one
\* earned (the comment at ledger.py:452), nor the account once it is kept.
KeepsReferences ==
    /\ \A v \in Venues : /\ prog[v].token # 0 => prog'[v].token # 0
                         /\ prog[v].topic # 0 => prog'[v].topic # 0
    /\ \A c \in Cards : /\ card[c].serial # 0 => card'[c].serial # 0
                        /\ card[c].holder # 0 => card'[c].holder # 0
    /\ \A u \in Users : account[u] # 0 => account'[u] = account[u]
    /\ \A i \in DOMAIN rows : rows[i].seq # 0 => rows'[i].seq # 0
NeverCleared == [][KeepsReferences]_vars

\* A row is published at least once before it counts as published, and never
\* before it is committed: the mirror is an outbox with duplicates.
Outbox == INSTANCE MirrorOutbox WITH
    filed <- Len(rows),
    sent <- {i \in DOMAIN rows : MessagesOf(i) # {}},
    settled <- {i \in DOMAIN rows : rows[i].seq # 0}
ImplementsOutbox == Outbox!Spec

\* What the database says has been handed over is in its user's hands: the NFT
\* the card row names, in the collection its program names.
HeldByOwner ==
    \A c \in Cards : card[c].holder # 0 =>
        LET t == prog[VenueOf(c)].token IN
        /\ t # 0 /\ card[c].serial \in DOMAIN nfts[t]
        /\ nfts[t][card[c].serial].card = c
        /\ nfts[t][card[c].serial].holder = card[c].holder

\* _live_proofs: a proof looks the row's number up in the topic its program
\* names when the proof is read, not in the one the message was sent to.
MessageShown(i) ==
    LET t == prog[VenueOf(rows[i].card)].topic  n == rows[i].seq IN
    IF t # 0 /\ n \in DOMAIN log[t] THEN {log[t][n]} ELSE {}

\* The proof of an event shows the message of that event, for as long as the
\* row has a number: a row keeps the number alone, and the topic it counts in
\* stands in another row that other requests write (proofs.py, _live_proofs).
ProofsResolve == \A i \in DOMAIN rows :
    rows[i].seq # 0 => \E m \in MessageShown(i) : m.row = i

\* "A serial that exists on the ledger and nowhere in the database" needs a lost
\* answer or a dead request each: nothing else makes a second collection for a
\* venue, a second topic, a second NFT for a card or a second message for a row.
DuplicatesHaveACause ==
    /\ \A v \in Venues : /\ Cardinality({t \in DOMAIN tokens : tokens[t] = v}) <= 1 + faults
                         /\ Cardinality({t \in DOMAIN topics : topics[t] = v}) <= 1 + faults
    /\ \A c \in Cards : Cardinality(NftsOf(c)) <= 1 + faults
    /\ \A i \in DOMAIN rows : Cardinality(MessagesOf(i)) <= 1 + faults

\* A replayed message counts truthfully: every message about a punch, live or
\* replayed in whatever later cycle, carries its place in its cycle.
ReplaysAgree ==
    \A i \in DOMAIN rows : \A p \in MessagesOf(i) :
        log[p[1]][p[2]].count = IF rows[i].kind = "punch" THEN Ordinal(i) ELSE 0

\* While every call is answered and no request dies, the mirror of an idle venue
\* is exact: its rows published, its punched cards minted, handed over and
\* pointing at their progress.  The one exception is two cards of one user
\* racing for an account (ledger.py:112).
OneAccount(u) == Cardinality({a \in DOMAIN accounts : accounts[a] = u}) <= 1
MirrorExact ==
    failed = 0 /\ faults = 0 =>
        \A c \in Cards :
            (/\ OneAccount(Owner(c)) /\ VenueOf(c) \notin Retired
             /\ \A w \in Sessions : Busy(w) => /\ req[w].op # "reconcile"
                                               /\ req[w].venue # VenueOf(c)) =>
            /\ \A i \in DOMAIN rows : rows[i].card = c => rows[i].seq # 0
            /\ HasPunch(c) =>
                   /\ card[c].holder # 0
                   /\ nfts[prog[VenueOf(c)].token][card[c].serial].meta
                          = <<card[c].cycle, card[c].count>>

\* What no pass can do anything about: a row whose venue has no topic, or a
\* card with no collection or whose NFT has left the treasury unanswered.  Such rows stay in the
\* backlog, and Limit of them hide every younger row (ledger.py:552).
StuckRow(i) == prog[VenueOf(rows[i].card)].topic = 0
StuckCard(c) ==
    LET t == prog[VenueOf(c)].token IN
    \/ t = 0
    \/ card[c].serial # 0 /\ nfts[t][card[c].serial].holder # 0

\* Everything a pass can cure has been: no program without collection or topic,
\* no card to finish, no row to publish that stuck ones do not hide.
Unfinished == {c \in Cards : HasPunch(c) /\ card[c].holder = 0}
Owed(kind) == {i \in DOMAIN rows : rows[i].kind = kind /\ rows[i].seq = 0}
CaughtUp ==
    /\ \A v \in Venues : prog[v].on => prog[v].token # 0 /\ prog[v].topic # 0
    /\ Cardinality({c \in Unfinished : StuckCard(c)}) < Limit => \A c \in Unfinished : StuckCard(c)
    /\ \A kind \in {"punch", "redeem"} : \A i \in Owed(kind) :
           StuckRow(i) \/ Cardinality({j \in Owed(kind) : j < i /\ StuckRow(j)}) >= Limit

\* After an outage passes of reconcile catch up for good with what they can cure
\* (README, "one pass catches everything up"; ledger.py:199).
CatchesUp == <>[]CaughtUp

\* ledger.py:18 "nothing that exists on the ledger is missing from the
\* database": an NFT is its card's serial, or its serial is being saved.
NothingMissing ==
    \A c \in Cards : \A p \in NftsOf(c) :
        \/ card[c].serial = p[2]
        \/ \E w \in Sessions : req[w].card = c /\ req[w].step = "serial"
=============================================================================
