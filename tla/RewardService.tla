---------------------------- MODULE RewardService ----------------------------
(***************************************************************************)
(* The punch-card service of src/hour_rewards/service.py: the rows it      *)
(* keeps in Postgres and the requests that read and write them.            *)
(*                                                                         *)
(* A request is a coroutine with a database session of its own.  It runs   *)
(* until it awaits a query, a commit or the verifier, and every other      *)
(* request may run in between, so each handler is cut there: one action    *)
(* reads, a later one commits what was computed from what was read.  A     *)
(* commit is atomic (one transaction) but nothing is locked between a read *)
(* and the commit that follows (READ COMMITTED, no FOR UPDATE, no version  *)
(* column), and a session keeps the rows it has loaded: a row read once is *)
(* not read again by a later step of the same request (the session's       *)
(* identity map), which is why a request carries the cycle and the count   *)
(* it saw.                                                                 *)
(*                                                                         *)
(* The Hedera mirror is not configured here (its calls return at once).    *)
(***************************************************************************)
EXTENDS Integers, Sequences, FiniteSets

CONSTANTS
    Users,          \* people with the app
    Venues,         \* venues of the host application
    Receipts,       \* receipts, told apart by what their dedupe hash is built from
    Sessions,       \* database sessions: how many requests may be in flight
    Thresholds,     \* the punches_required an owner may ask for
    TTL,            \* DEFAULT_REDEMPTION_TTL_SECONDS, in ticks of the clock
    MinReusable,    \* MIN_REUSABLE_TTL_SECONDS, in the same ticks
    DedupeScoped,   \* TRUE: the host passes dedupe_scope_id = user_id
    MayCrash,       \* TRUE: a request may die between any two of its steps
    HostSerialises, \* TRUE: the host runs one request per card at a time
    ImagesVanish,   \* TRUE: a receipt's picture may be deleted while it is judged
    MaxTime,        \* bound: the last tick of the clock
    MaxEvents,      \* bound: submissions in all
    MaxCodes,       \* bound: redemption codes in all
    MaxRedemptions, \* bound: scans that may still redeem, and redemptions
    None            \* the null of the columns and arguments below

ASSUME ThresholdsAssumption == Thresholds \subseteq Int
ASSUME ClockAssumption == TTL \in Nat /\ MinReusable \in Nat \ {0}
ASSUME SwitchAssumption ==
    {DedupeScoped, MayCrash, HostSerialises, ImagesVanish} \subseteq BOOLEAN
ASSUME BoundsAssumption == {MaxTime, MaxEvents, MaxCodes, MaxRedemptions} \subseteq Nat
ASSUME NoneAssumption ==
    None \notin Venues \cup Users \cup Receipts \cup Int \cup (Users \X Venues)

VARIABLES
    program,        \* reward_programs: a row per venue that has opted in
    opened,         \* the punch_cards rows that exist
    card,           \* punch_cards: cycle_number and punch_count
    events,         \* punch_events, in the order they were filed
    codes,          \* reward_redemption_codes; a token is its index
    redemptions,    \* reward_redemptions
    now,            \* utc_now()
    req             \* what each session's request has done and read so far

vars == <<program, opened, card, events, codes, redemptions, now, req>>

-----------------------------------------------------------------------------
(* Rows *)

Cards == Users \X Venues
Owner(c) == c[1]
VenueOf(c) == c[2]

Programs == [status : {"none", "paused", "active"}, required : Int]
CardRows == [cycle : Nat, count : Nat]
Events == [card : Cards, cycle : Nat, receipt : Receipts,
           status : {"verified", "rejected"}]

\* need is the threshold the card was measured against when the code was
\* minted; the code stores nothing of it.
Codes == [card : Cards, cycle : Nat, expires : Nat, need : Int,
          status : {"pending", "redeemed", "expired", "invalidated"},
          redeemedAt : Nat \cup {None}]

\* at is the venue of redeemed_by_owner_id, the owner who scanned.
Redemptions == [card : Cards, code : Nat, cycle : Nat, required : Int,
                at : Venues \cup {None}]

(***************************************************************************)
(* A request: its handler (op), where it is suspended (step), and its      *)
(* locals.  cycle and count are the card row as this session loaded it;    *)
(* held is the codes _retire_spent_codes selected.                         *)
(***************************************************************************)
Ops == {"none", "submit", "recount", "view", "show", "scan"}
Steps == {"idle", "card", "insert", "verify", "dedupe", "file", "count", "bank",
          "pending", "retire", "mint", "lapse", "match", "void", "honour", "done"}
Answers == {"none", "failed", "refused", "approved", "rejected", "unavailable",
            "duplicate", "recounted", "viewed", "not_earned", "shown",
            "code_not_found", "already_redeemed", "code_expired", "stale_cycle",
            "wrong_venue", "honoured"}
Requests ==
    [op : Ops, step : Steps, answer : Answers,
     card : Cards \cup {None}, receipt : Receipts \cup {None},
     verdict : {"none", "verified", "rejected"},
     cycle : Nat, count : Nat, tally : Nat, need : Int,
     code : Nat, held : SUBSET Nat, stamp : Nat, at : Venues \cup {None}]

\* A request with no locals but what it is about.
Bare(op, step, answer, c, r, k) ==
    [op |-> op, step |-> step, answer |-> answer, card |-> c, receipt |-> r, code |-> k,
     verdict |-> "none", cycle |-> 0, count |-> 0, tally |-> 0, need |-> 0,
     held |-> {}, stamp |-> 0, at |-> None]

Idle == Bare("none", "idle", "none", None, None, 0)

\* What makes a receipt single-use at a venue, or (for a demo) at a venue for
\* one account.
Fingerprint(c, r) ==
    <<VenueOf(c), r, IF DedupeScoped THEN Owner(c) ELSE None>>

\* The verified submissions of a card in one of its cycles.
Earned(c, n) ==
    {i \in 1..Len(events) : /\ events[i].status = "verified"
                            /\ events[i].card = c
                            /\ events[i].cycle = n}

\* The receipts that have earned a punch.
Spent == {Fingerprint(events[i].card, events[i].receipt) :
              i \in {j \in 1..Len(events) : events[j].status = "verified"}}

PendingAnyStatus(c) == {k \in 1..Len(codes) : codes[k].card = c}  \* mutant
Pending(c) ==
    {k \in 1..Len(codes) : codes[k].card = c /\ codes[k].status = "pending"}
-----------------------------------------------------------------------------
(* Requests in flight *)

Busy(s) == req[s].step \notin {"idle", "done"}
InFlight(op) == Cardinality({s \in Sessions : Busy(s) /\ req[s].op = op})

\* What a host that queues the requests on one card would guarantee.
CardFree(c) == HostSerialises => \A s \in Sessions : Busy(s) => req[s].card # c

\* A handler that has returned or raised: its locals are gone, but what it was
\* about and how it ended are still on their way to the caller.
Closed(r, answer) == Bare(r.op, "done", answer, r.card, r.receipt, r.code)

Goto(s, step) == req' = [req EXCEPT ![s].step = step]
Finish(s, answer) == req' = [req EXCEPT ![s] = Closed(req[s], answer)]

Init ==
    /\ program = [v \in Venues |-> [status |-> "none", required |-> 0]]
    /\ opened = {}
    /\ card = [c \in Cards |-> [cycle |-> 1, count |-> 0]]
    /\ events = <<>>
    /\ codes = <<>>
    /\ redemptions = <<>>
    /\ now = 0
    /\ req = [s \in Sessions |-> Idle]

-----------------------------------------------------------------------------
(* An owner's program *)

Status(enabled) == IF enabled THEN "active" ELSE "paused"

\* create_or_update_reward_program: the model it is given is validated, ge=1.
OptIn(v, n, enabled) ==
    /\ n >= 1
    /\ program' = [program EXCEPT ![v] = [status |-> Status(enabled), required |-> n]]
    /\ UNCHANGED <<opened, card, events, codes, redemptions, now, req>>

\* update_reward_program: the request's fields are not validated.
UpdateProgram(v, n, enabled) ==
    /\ program[v].status # "none"
    /\ program' = [program EXCEPT ![v] = [status |-> Status(enabled), required |-> n]]
    /\ UNCHANGED <<opened, card, events, codes, redemptions, now, req>>

-----------------------------------------------------------------------------
(* The card a request is about: get_or_create_punch_card *)

ReachedOneEarly(row, need) == row.count + 1 >= need  \* mutant
Reached(row, need) == row.count >= need

\* The row is in the session; what the handler does with it first.  A view only
\* renders it; a code is refused to a card below the threshold, or else the clock
\* is read, before the codes are queried.
Loaded(s, row) ==
    LET r == [req[s] EXCEPT !.cycle = row.cycle, !.count = row.count]
    IN  req' = [req EXCEPT ![s] =
            CASE r.op = "submit" -> [r EXCEPT !.step = "verify"]
              [] r.op = "show" /\ Reached(row, r.need)  -> [r EXCEPT !.step = "pending", !.stamp = now]
              [] r.op = "show" /\ ~Reached(row, r.need) -> Closed(r, "not_earned")
              [] OTHER -> Closed(r, "viewed")]

FindCard(s) ==
    /\ req[s].step = "card"
    /\ IF req[s].card \in opened
       THEN Loaded(s, card[req[s].card])
       ELSE Goto(s, "insert")
    /\ UNCHANGED <<program, opened, card, events, codes, redemptions, now>>

\* uq_user_venue_punch_card lets one of two racing inserts in; the other's
\* IntegrityError is caught nowhere and fails its request.
OpenCard(s) ==
    LET c == req[s].card IN
    /\ req[s].step = "insert"
    /\ IF c \in opened
       THEN Finish(s, "failed") /\ UNCHANGED opened
       ELSE Loaded(s, card[c]) /\ opened' = opened \cup {c}
    /\ UNCHANGED <<program, card, events, codes, redemptions, now>>

\* get_punch_card_summary of a venue whose program is running.
BeginView(s, c) ==
    /\ req[s].step = "idle"
    /\ program[VenueOf(c)].status = "active"
    /\ CardFree(c)
    /\ req' = [req EXCEPT ![s] = Bare("view", "card", "none", c, None, 0)]
    /\ UNCHANGED <<program, opened, card, events, codes, redemptions, now>>

-----------------------------------------------------------------------------
(* Earning a punch: submit_receipt *)

BeginSubmit(s, c, r) ==
    LET q == Bare("submit", "card", "none", c, r, 0) IN
    /\ req[s].step = "idle"
    /\ CardFree(c)
    /\ Len(events) + InFlight("submit") < MaxEvents
    /\ req' = [req EXCEPT ![s] = IF program[VenueOf(c)].status = "active"
                                 THEN q
                                 ELSE Closed(q, "refused")]
    /\ UNCHANGED <<program, opened, card, events, codes, redemptions, now>>

\* verify_receipt decides, or could not: a verdict of verifier_unavailable is
\* answered without a row.
Verify(s) ==
    /\ req[s].step = "verify"
    /\ \/ \E v \in {"verified", "rejected"} :
             req' = [req EXCEPT ![s].step = "dedupe", ![s].verdict = v]
       \/ Finish(s, "unavailable")
    /\ UNCHANGED <<program, opened, card, events, codes, redemptions, now>>

\* _receipt_already_earned_a_punch
AlreadySubmitted(r) ==  \* mutant
    \E i \in 1..Len(events) :
        Fingerprint(events[i].card, events[i].receipt) = Fingerprint(r.card, r.receipt)
AlreadyEarned(r) == Fingerprint(r.card, r.receipt) \in Spent

RetryDuplicate(s) ==  \* mutant
    /\ req[s].step = "dedupe"
    /\ Goto(s, IF AlreadyEarned(req[s]) THEN "verify" ELSE "file")
    /\ UNCHANGED <<program, opened, card, events, codes, redemptions, now>>
CheckDuplicate(s) ==
    /\ req[s].step = "dedupe"
    /\ IF AlreadyEarned(req[s])
       THEN Finish(s, "duplicate")
       ELSE Goto(s, "file")
    /\ UNCHANGED <<program, opened, card, events, codes, redemptions, now>>

\* uq_venue_verified_receipt_dedupe: the index only ranges over verified rows.
NoIndex(r) == TRUE  \* mutant
IndexAdmits(r) ==
    r.verdict = "verified" => Fingerprint(r.card, r.receipt) \notin Spent

\* The event goes under the cycle the card was on when it was loaded.
FiledInFirstCycle(r) ==  \* mutant
    [card |-> r.card, cycle |-> 1, receipt |-> r.receipt, status |-> r.verdict]
Filed(r) ==
    [card |-> r.card, cycle |-> r.cycle, receipt |-> r.receipt, status |-> r.verdict]

NothingToBank(r) == FALSE  \* mutant
ToBank(r) == r.verdict = "verified"

\* The insert commits, or raises IntegrityError, which is told as a duplicate
\* whatever raised it: the index, or the foreign key of a picture that is gone.
FileEvent(s) ==
    LET r == req[s] IN
    /\ r.step = "file"
    /\ \/ /\ IndexAdmits(r)
          /\ events' = Append(events, Filed(r))
          /\ IF ToBank(r)
             THEN Goto(s, "count")
             ELSE Finish(s, "rejected")
       \/ /\ ~IndexAdmits(r) \/ ImagesVanish
          /\ Finish(s, "duplicate") /\ UNCHANGED events
    /\ UNCHANGED <<program, opened, card, codes, redemptions, now>>

\* record_verified_punch counts the cycle of the row its session holds ...
OneMore(r) == r.count + 1  \* mutant
VerifiedPunchCount(r) == Cardinality(Earned(r.card, r.cycle))

CountPunches(s) ==
    /\ req[s].step = "count"
    /\ req' = [req EXCEPT ![s].step = "bank", ![s].tally = VerifiedPunchCount(req[s])]
    /\ UNCHANGED <<program, opened, card, events, codes, redemptions, now>>

\* ... and stores it.  The UPDATE names punch_count only if it differs from the
\* loaded value, and never names cycle_number.
Banked(r, row) == IF r.tally = r.count THEN row ELSE [row EXCEPT !.count = r.tally]

BankPunch(s) ==
    LET r == req[s] IN
    /\ r.step = "bank"
    /\ card' = [card EXCEPT ![r.card] = Banked(r, @)]
    /\ Finish(s, IF r.op = "submit" THEN "approved" ELSE "recounted")
    /\ UNCHANGED <<program, opened, events, codes, redemptions, now>>

\* record_verified_punch called on its own, as by a retried request.
BeginRecount(s, c) ==
    /\ req[s].step = "idle"
    /\ c \in opened
    /\ CardFree(c)
    /\ req' = [req EXCEPT ![s] =
                  [Bare("recount", "count", "none", c, None, 0) EXCEPT
                      !.cycle = card[c].cycle, !.count = card[c].count]]
    /\ UNCHANGED <<program, opened, card, events, codes, redemptions, now>>

-----------------------------------------------------------------------------
(* Showing a code: generate_redemption_code *)

\* A paused program still issues codes: only its absence is refused.
BeginShow(s, c) ==
    LET q == Bare("show", "card", "none", c, None, 0)
        p == program[VenueOf(c)] IN
    /\ req[s].step = "idle"
    /\ CardFree(c)
    /\ Len(codes) + InFlight("show") < MaxCodes
    /\ req' = [req EXCEPT ![s] = IF p.status = "none"
                                 THEN Closed(q, "refused")
                                 ELSE [q EXCEPT !.need = p.required]]
    /\ UNCHANGED <<program, opened, card, events, codes, redemptions, now>>

ReadPending(s) ==
    /\ req[s].step = "pending"
    /\ req' = [req EXCEPT ![s].step = "retire", ![s].held = Pending(req[s].card)]
    /\ UNCHANGED <<program, opened, card, events, codes, redemptions, now>>

\* Of the codes a request selected, those it could still hand back, and the
\* one it does: the newest.
Reusable(r) ==
    {k \in r.held : codes[k].cycle = r.cycle /\ codes[k].expires - r.stamp >= MinReusable}
Newest(K) == {k \in K : \A j \in K : j <= k}

\* _retire_spent_codes commits a new status for every code it selected but the
\* one it keeps, whatever has become of them since.
LeftPending(r, k) == "pending"  \* mutant
AlwaysInvalidated(r, k) == "invalidated"  \* mutant
RetiredStatus(r, k) ==
    IF codes[k].cycle # r.cycle \/ k \in Reusable(r) THEN "invalidated" ELSE "expired"

RetireCodes(s) ==
    LET r == req[s]
        live == Newest(Reusable(r)) IN
    /\ r.step = "retire"
    /\ codes' = [k \in 1..Len(codes) |->
                    IF k \in r.held \ live
                    THEN [codes[k] EXCEPT !.status = RetiredStatus(r, k)]
                    ELSE codes[k]]
    /\ \/ live = {} /\ Goto(s, "mint")
       \/ \E k \in live : req' = [req EXCEPT ![s] = Closed([r EXCEPT !.code = k], "shown")]
    /\ UNCHANGED <<program, opened, card, events, redemptions, now>>

MintCode(s) ==
    LET r == req[s] IN
    /\ r.step = "mint"
    /\ codes' = Append(codes, [card |-> r.card, cycle |-> r.cycle, need |-> r.need,
                               expires |-> r.stamp + TTL, status |-> "pending",
                               redeemedAt |-> None])
    /\ req' = [req EXCEPT ![s] = Closed([r EXCEPT !.code = Len(codes) + 1], "shown")]
    /\ UNCHANGED <<program, opened, card, events, redemptions, now>>

-----------------------------------------------------------------------------
(* Redeeming: redeem_scanned_code, and redeem_code called directly (at = None) *)

NeverLapsed(k) == FALSE  \* mutant
Lapsed(k) == codes[k].expires <= now

\* Why a code that is no longer pending is refused.
SpentAnswer == [redeemed |-> "already_redeemed", expired |-> "code_expired",
                invalidated |-> "stale_cycle"]

\* What is decided from the payload and the code's row alone: a refusal, or the
\* step the scan goes on to.  A lapsed code is marked before it is refused.
ScanVerdict(k, claimed, at) ==
    IF claimed # None /\ claimed # at THEN "wrong_venue"
    ELSE IF k \notin 1..Len(codes) THEN "code_not_found"
    ELSE IF codes[k].status # "pending" THEN SpentAnswer[codes[k].status]
    ELSE IF Lapsed(k) THEN "lapse"
    ELSE "match"

BeginScan(s, k, claimed, at) ==
    LET c == IF k \in 1..Len(codes) THEN codes[k].card ELSE None
        verdict == ScanVerdict(k, claimed, at)
        q == Bare("scan", verdict, "none", c, None, k) IN
    /\ req[s].step = "idle"
    /\ at = None => claimed = None
    /\ CardFree(c)
    /\ verdict \in {"lapse", "match"} =>
           Len(redemptions) + InFlight("scan") < MaxRedemptions
    /\ req' = [req EXCEPT ![s] =
                  IF verdict \in {"lapse", "match"}
                  THEN [q EXCEPT !.stamp = now, !.at = at]
                  ELSE Closed(q, verdict)]
    /\ UNCHANGED <<program, opened, card, events, codes, redemptions, now>>

LapseCode(s) ==
    /\ req[s].step = "lapse"
    /\ codes' = [codes EXCEPT ![req[s].code].status = "expired"]
    /\ Finish(s, "code_expired")
    /\ UNCHANGED <<program, opened, card, events, redemptions, now>>

AnyVenue(r) == FALSE  \* mutant
WrongVenue(r) == r.at # None /\ r.at # VenueOf(r.card)

\* The card and the program's terms are read.
MatchCard(s) ==
    LET r == req[s]
        row == card[r.card] IN
    /\ r.step = "match"
    /\ \/ /\ WrongVenue(r)
          /\ Finish(s, "wrong_venue")
       \/ /\ ~WrongVenue(r)
          /\ codes[r.code].cycle # row.cycle
          /\ Goto(s, "void")
       \/ /\ ~WrongVenue(r)
          /\ codes[r.code].cycle = row.cycle
          /\ req' = [req EXCEPT ![s].step = "honour", ![s].cycle = row.cycle,
                                ![s].count = row.count,
                                ![s].need = program[VenueOf(r.card)].required]
    /\ UNCHANGED <<program, opened, card, events, codes, redemptions, now>>

MarkedUsed == "redeemed"  \* mutant
VoidStatus == "invalidated"

VoidCode(s) ==
    /\ req[s].step = "void"
    /\ codes' = [codes EXCEPT ![req[s].code].status = VoidStatus]
    /\ Finish(s, "stale_cycle")
    /\ UNCHANGED <<program, opened, card, events, redemptions, now>>

\* One commit: the history row, the code and the card's new cycle.  The columns
\* are computed from the rows this session loaded, and punch_count is written
\* only if it was not already loaded as 0.
SameCycle(r, row) == [row EXCEPT !.count = 0]  \* mutant
CountKept(r, row) == [row EXCEPT !.cycle = r.cycle + 1]  \* mutant
NextCycle(r, row) ==
    [row EXCEPT !.cycle = r.cycle + 1, !.count = IF r.count = 0 THEN @ ELSE 0]

Unmarked(r, code) == [code EXCEPT !.status = "redeemed"]  \* mutant
OwnerAsTime(r, code) ==  \* mutant
    [code EXCEPT !.status = "redeemed", !.redeemedAt = r.at]
Redeemed(r, code) == [code EXCEPT !.status = "redeemed", !.redeemedAt = r.stamp]

Honour(s) ==
    LET r == req[s] IN
    /\ r.step = "honour"
    /\ redemptions' = Append(redemptions, [card |-> r.card, code |-> r.code,
                                           cycle |-> r.cycle, required |-> r.need,
                                           at |-> r.at])
    /\ codes' = [codes EXCEPT ![r.code] = Redeemed(r, @)]
    /\ card' = [card EXCEPT ![r.card] = NextCycle(r, @)]
    /\ Finish(s, "honoured")
    /\ UNCHANGED <<program, opened, events, now>>

-----------------------------------------------------------------------------
(* Around the handlers *)

\* The caller has its answer.
Respond(s) ==
    /\ req[s].step = "done"
    /\ req' = [req EXCEPT ![s] = Idle]
    /\ UNCHANGED <<program, opened, card, events, codes, redemptions, now>>

\* The request dies (a cancelled task, a killed process) with whatever it has
\* committed so far.
Crash(s) ==
    /\ MayCrash
    /\ Busy(s)
    /\ req' = [req EXCEPT ![s] = Idle]
    /\ UNCHANGED <<program, opened, card, events, codes, redemptions, now>>

Tick ==
    /\ now < MaxTime
    /\ now' = now + 1
    /\ UNCHANGED <<program, opened, card, events, codes, redemptions, req>>

Begin(s) ==
    \/ \E c \in Cards :
          \/ BeginView(s, c)
          \/ \E r \in Receipts : BeginSubmit(s, c, r)
          \/ BeginRecount(s, c)
          \/ BeginShow(s, c)
    \/ \E k \in 0..Len(codes), claimed, at \in Venues \cup {None} : BeginScan(s, k, claimed, at)

Advance(s) ==
    \/ FindCard(s) \/ OpenCard(s)
    \/ Verify(s) \/ CheckDuplicate(s) \/ FileEvent(s) \/ CountPunches(s) \/ BankPunch(s)
    \/ ReadPending(s) \/ RetireCodes(s) \/ MintCode(s)
    \/ LapseCode(s) \/ MatchCard(s) \/ VoidCode(s) \/ Honour(s)
    \/ Respond(s)

Next ==
    \/ \E v \in Venues, n \in Thresholds, enabled \in BOOLEAN :
          OptIn(v, n, enabled) \/ UpdateProgram(v, n, enabled)
    \/ \E s \in Sessions : Begin(s) \/ Advance(s) \/ Crash(s)
    \/ Tick

Spec == Init /\ [][Next]_vars

\* Every await in a handler ends: queries answer, and the verifier and the model
\* behind it are called with timeouts.
Fairness == \A s \in Sessions : WF_vars(Advance(s))

FairSpec == Spec /\ Fairness
-----------------------------------------------------------------------------
(* What holds however requests interleave and wherever they die *)

\* What a suspended request is sure to know at each of its steps, when there
\* are n codes.
Informed(r, n) ==
    /\ r.step \notin {"idle", "done"} => r.card \in Cards
    /\ r.op = "submit" => r.card \in Cards /\ r.receipt \in Receipts
    /\ r.step \in {"verify", "dedupe", "file"} => r.op = "submit"
    /\ r.step \in {"dedupe", "file"} => r.verdict # "none"
    /\ r.step \in {"lapse", "match", "void", "honour"} => r.code \in 1..n

\* Every row and every local has the shape the models declare.
TypeOK ==
    /\ program \in [Venues -> Programs]
    /\ opened \subseteq Cards
    /\ card \in [Cards -> CardRows]
    /\ events \in Seq(Events)
    /\ codes \in Seq(Codes)
    /\ redemptions \in Seq(Redemptions)
    /\ now \in Nat
    /\ req \in [Sessions -> Requests]
    /\ \A s \in Sessions : Informed(req[s], Len(codes))

\* A receipt earns at most one punch at a venue, on whatever cards and by
\* whatever racing submissions it is claimed (submit_receipt and the partial
\* unique index of punch_events).
SingleUse ==
    \A i, j \in 1..Len(events) :
        /\ events[i].status = "verified"
        /\ events[j].status = "verified"
        /\ Fingerprint(events[i].card, events[i].receipt)
               = Fingerprint(events[j].card, events[j].receipt)
        => i = j

\* A submission refused as a duplicate names a receipt that did earn a punch: a
\* refused or unanswered attempt costs the receipt nothing (submit_receipt's
\* check, and its reading of every IntegrityError as a duplicate).  It is so while
\* the picture of a receipt stays until the receipt is judged, and not otherwise.
DuplicateMeansEarned ==
    \A s \in Sessions :
        req[s].answer = "duplicate" =>
            Fingerprint(req[s].card, req[s].receipt) \in Spent

\* A count is never larger than what some cycle of that card earned: recounting
\* cannot invent punches (record_verified_punch).
CountWasEarned ==
    \A c \in Cards :
        \/ card[c].count = 0
        \/ \E i \in 1..Len(events) :
              /\ events[i].card = c
              /\ card[c].count <= Cardinality(Earned(c, events[i].cycle))

\* redeemed_at is on exactly the codes that a history row names, even when a
\* later write has taken the redeemed status off the code (redeem_code commits
\* the two together).
RedemptionMarksCode ==
    \A k \in 1..Len(codes) :
        (codes[k].redeemedAt # None) <=> (\E i \in 1..Len(redemptions) : redemptions[i].code = k)

\* A reward is handed over only for a code of that very card and cycle, before
\* the code's deadline, and at the venue the card belongs to (redeem_code's
\* checks, made on rows read several steps before the commit).
HonouredAsIssued ==
    \A i \in 1..Len(redemptions) :
        LET r == redemptions[i] IN
        /\ r.code \in 1..Len(codes)
        /\ codes[r.code].card = r.card
        /\ codes[r.code].cycle = r.cycle
        /\ codes[r.code].redeemedAt < codes[r.code].expires
        /\ r.at \in {None, VenueOf(r.card)}

\* A scanner told "already redeemed" is told so of a code that did redeem.
AlreadyRedeemedIsTrue ==
    \A s \in Sessions :
        req[s].answer = "already_redeemed" =>
            \E i \in 1..Len(redemptions) : redemptions[i].code = req[s].code

-----------------------------------------------------------------------------
(* What holds when a host runs one request per card at a time, crashes included *)

\* One cycle of a card pays for one reward (redeem_code's cycle check).
OneRewardPerCycle ==
    \A i, j \in 1..Len(redemptions) :
        /\ redemptions[i].card = redemptions[j].card
        /\ redemptions[i].cycle = redemptions[j].cycle
        => i = j

Rewards(c) == {i \in 1..Len(redemptions) : redemptions[i].card = c}

\* The stored count never exceeds the verified punches of the card's present
\* cycle, which is what it is documented to be (record_verified_punch and
\* redeem_code's reset).
CountNotInflated ==
    \A c \in Cards : card[c].count <= Cardinality(Earned(c, card[c].cycle))

\* Every reward was paid for, in its own cycle, with as many verified punches
\* as the program required when its code was minted (generate_redemption_code
\* checks a count, redeem_code checks only a code).
RewardPaidFor ==
    \A i \in 1..Len(redemptions) :
        LET r == redemptions[i] IN
        codes[r.code].need <= Cardinality(Earned(r.card, r.cycle))

\* A card has at most one pending code, so "pending means what it says"
\* (_retire_spent_codes).
OnePendingCode ==
    \A c \in Cards : \A j, k \in Pending(c) : j = k

\* A redeemed code stays redeemed: expiring, invalidating and retiring never
\* touch it (the status checks of redeem_code and _retire_spent_codes).
RedeemedStays ==
    [][\A k \in 1..Len(codes) :
          codes[k].status = "redeemed" => codes'[k].status = "redeemed"]_vars

\* A code that was shown works until it is redeemed or is too short of time to be
\* shown again: none is closed under the customer who holds it, by another tap,
\* a scan or a new cycle (_retire_spent_codes and the refusals of redeem_code).
ClosedForCause ==
    \A k \in 1..Len(codes) :
        \/ codes[k].status \in {"pending", "redeemed"}
        \/ codes[k].status = "expired" /\ codes[k].expires < now + MinReusable

\* The service implements the promises of PunchCardRules: a punch is a verified
\* event, an offer a pending code of the present cycle, a claim a redemption.
LiveCodes(c) == {k \in Pending(c) : codes[k].cycle = card[c].cycle}
Rules == INSTANCE PunchCardRules WITH
    Marks <- Venues \X Receipts \X (Users \cup {None}),
    Prices <- Thresholds,
    NotOffered <- None,
    cycle <- [c \in Cards |-> card[c].cycle],
    earned <- [c \in Cards |->
                  {Fingerprint(c, events[i].receipt) : i \in Earned(c, card[c].cycle)}],
    offer <- [c \in Cards |-> IF LiveCodes(c) = {} THEN None
                              ELSE codes[CHOOSE k \in LiveCodes(c) : TRUE].need],
    claims <- [c \in Cards |-> Cardinality(Rewards(c))],
    spent <- Spent

ImplementsRules == Rules!Spec

-----------------------------------------------------------------------------
(* What else holds when requests also run to their end *)

\* With no request on the card in flight, the stored count is exactly the
\* verified punches of its cycle: the denormalized column can be trusted
\* (submit_receipt files the event and banks it in two commits).
CountExact ==
    \A c \in Cards :
        (\A s \in Sessions : Busy(s) => req[s].card # c)
            => card[c].count = Cardinality(Earned(c, card[c].cycle))

\* Every request is answered.
Answered ==
    \A s \in Sessions : req[s].step # "idle" ~> req[s].step = "idle"

-----------------------------------------------------------------------------
(* What the sources say and the handlers do not do *)

\* A "stale cycle" refusal is told only of a code whose cycle is over: "Redemption
\* code is from a previous cycle" (service.py:570).
StaleCycleIsTrue ==
    \A s \in Sessions :
        req[s].answer = "stale_cycle" =>
            codes[req[s].code].cycle < card[codes[req[s].code].card].cycle

\* A reward costs at least one punch: punches_required is declared ge=1
\* (models/reward_program.py:16), but update_reward_program stores any integer.
NothingIsFree ==
    \A i \in 1..Len(redemptions) :
        Earned(redemptions[i].card, redemptions[i].cycle) # {}
=============================================================================
