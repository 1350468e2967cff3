------------------------------ MODULE SerialProofs ------------------------------
(***************************************************************************)
(* What RewardService guarantees on a host that runs one request per card  *)
(* at a time: no cycle of a card pays for two rewards, every reward is     *)
(* paid for, counts are of the card's own cycle, one code is pending at    *)
(* most and is closed only by its redemption or its deadline, and the      *)
(* service implements PunchCardRules.                                      *)
(***************************************************************************)
EXTENDS RedemptionProofs

\* The steps of a request that has the card's row in its session.
Holding == {"verify", "dedupe", "file", "count", "bank", "pending", "retire", "mint", "honour"}

\* No two requests in flight are about one card.
Exclusive ==
    \A s, t \in Sessions : Busy(s) /\ Busy(t) /\ req[s].card = req[t].card => s = t

\* The row a request loaded is still the row of the card.
RowHeld ==
    \A s \in Sessions :
        req[s].step \in Holding =>
            req[s].cycle = card[req[s].card].cycle /\ req[s].count = card[req[s].card].count

\* A redeemed cycle is behind its card.
CyclesClosed ==
    \A i \in 1..Len(redemptions) : redemptions[i].cycle < card[redemptions[i].card].cycle

-----------------------------------------------------------------------------
(* Requests in flight, step by step *)

\* A request is in flight after its own step because it was, on the same card,
\* or because the host let it start.
LEMMA BusyStep ==
    ASSUME TypeOK, NEW s \in Sessions, Begin(s) \/ Advance(s) \/ Crash(s), Busy(s)'
    PROVE  \/ Busy(s) /\ req'[s].card = req[s].card
           \/ CardFree(req'[s].card)
<1>. USE DEF TypeOK, Busy
<1>1. CASE Begin(s)
  <2>1. ASSUME NEW c \in Cards, BeginView(s, c) PROVE CardFree(req'[s].card)
    BY <2>1 DEF BeginView, Bare
  <2>2. ASSUME NEW c \in Cards, NEW r \in Receipts, BeginSubmit(s, c, r)
        PROVE  CardFree(req'[s].card)
    BY <2>2 DEF BeginSubmit, Closed, Bare
  <2>3. ASSUME NEW c \in Cards, BeginRecount(s, c) PROVE CardFree(req'[s].card)
    BY <2>3 DEF BeginRecount, Bare
  <2>4. ASSUME NEW c \in Cards, BeginShow(s, c) PROVE CardFree(req'[s].card)
    BY <2>4 DEF BeginShow, Closed, Bare
  <2>5. ASSUME NEW k \in 0..Len(codes), NEW claimed \in Venues \cup {None},
               NEW at \in Venues \cup {None}, BeginScan(s, k, claimed, at)
        PROVE  CardFree(req'[s].card)
    <3> DEFINE c == IF k \in 1..Len(codes) THEN codes[k].card ELSE None
    <3>1. CardFree(c) /\ req'[s].card = c
      BY <2>5 DEF BeginScan, Closed, Bare
    <3>. QED
      BY <3>1
  <2>. QED
    BY <1>1, <2>1, <2>2, <2>3, <2>4, <2>5 DEF Begin
<1>2. ASSUME NEW step, Goto(s, step), req[s].step \notin {"idle", "done"}
      PROVE  Busy(s) /\ req'[s].card = req[s].card
  BY <1>2 DEF Goto, Requests
<1>3. ASSUME NEW r, NEW a, req' = [req EXCEPT ![s] = Closed(r, a)] PROVE FALSE
  BY <1>3 DEF Closed, Bare
<1>4. CASE FindCard(s) \/ OpenCard(s)
  <2>1. req[s].step \in {"card", "insert"}
    BY <1>4 DEF FindCard, OpenCard
  <2>2. Loaded(s, card[req[s].card]) \/ Goto(s, "insert") \/ Finish(s, "failed")
    BY <1>4 DEF FindCard, OpenCard
  <2>3. ASSUME Loaded(s, card[req[s].card]) PROVE req'[s].card = req[s].card
    BY <2>3 DEF Loaded, Closed, Bare, Requests
  <2>. QED
    BY <1>2, <1>3, <2>1, <2>2, <2>3 DEF Finish
<1>5. CASE Verify(s)
  <2>1. ASSUME NEW v, req' = [req EXCEPT ![s].step = "dedupe", ![s].verdict = v]
        PROVE  req'[s].card = req[s].card
    BY <2>1 DEF Requests
  <2>. QED
    BY <1>3, <1>5, <2>1 DEF Verify, Finish
<1>6. CASE CheckDuplicate(s) \/ FileEvent(s)
  BY <1>2, <1>3, <1>6 DEF CheckDuplicate, FileEvent, Finish
<1>7. CASE CountPunches(s) \/ ReadPending(s)
  BY <1>7 DEF CountPunches, ReadPending, Requests
<1>8. CASE BankPunch(s) \/ LapseCode(s) \/ VoidCode(s) \/ Honour(s)
  BY <1>3, <1>8 DEF BankPunch, LapseCode, VoidCode, Honour, Finish
<1>9. CASE RetireCodes(s) \/ MintCode(s)
  BY <1>2, <1>3, <1>9 DEF RetireCodes, MintCode
<1>10. CASE MatchCard(s)
  <2>1. CASE Finish(s, "wrong_venue")
    BY <1>3, <2>1 DEF Finish
  <2>2. CASE Goto(s, "void")
    BY <1>2, <1>10, <2>2 DEF MatchCard
  <2>3. CASE req' = [req EXCEPT ![s].step = "honour", ![s].cycle = card[req[s].card].cycle,
                                ![s].count = card[req[s].card].count,
                                ![s].need = program[VenueOf(req[s].card)].required]
    BY <1>10, <2>3 DEF MatchCard, Requests
  <2>. QED
    BY <1>10, <2>1, <2>2, <2>3 DEF MatchCard
<1>11. CASE Respond(s) \/ Crash(s)
  BY <1>11 DEF Respond, Crash, Idle, Bare
<1>. QED
  BY <1>1, <1>4, <1>5, <1>6, <1>7, <1>8, <1>9, <1>10, <1>11 DEF Advance

\* A request that holds a row after its own step held it before, or has just
\* loaded it; and it has not written the row in that step.
LEMMA HoldStep ==
    ASSUME TypeOK, NEW s \in Sessions, Begin(s) \/ Advance(s) \/ Crash(s),
           req'[s].step \in Holding
    PROVE  /\ card' = card
           /\ \/ /\ req[s].step \in Holding /\ req'[s].card = req[s].card
                 /\ req'[s].cycle = req[s].cycle /\ req'[s].count = req[s].count
              \/ /\ req'[s].cycle = card[req'[s].card].cycle
                 /\ req'[s].count = card[req'[s].card].count
<1>. USE DEF TypeOK, Holding
<1>1. ASSUME NEW step, Goto(s, step)
      PROVE  /\ req'[s].step = step /\ req'[s].card = req[s].card
             /\ req'[s].cycle = req[s].cycle /\ req'[s].count = req[s].count
  BY <1>1 DEF Goto, Requests
<1>2. ASSUME NEW r, NEW a, req' = [req EXCEPT ![s] = Closed(r, a)] PROVE FALSE
  BY <1>2 DEF Closed, Bare
<1>3. CASE Begin(s)
  <2>0. card' = card
    BY <1>3 DEF Begin, BeginView, BeginSubmit, BeginRecount, BeginShow, BeginScan
  <2>1. ASSUME NEW c \in Cards, BeginView(s, c) PROVE FALSE
    BY <2>1 DEF BeginView, Bare
  <2>2. ASSUME NEW c \in Cards, NEW r \in Receipts, BeginSubmit(s, c, r) PROVE FALSE
    BY <2>2 DEF BeginSubmit, Closed, Bare
  <2>3. ASSUME NEW c \in Cards, BeginShow(s, c) PROVE FALSE
    BY <2>3 DEF BeginShow, Closed, Bare
  <2>4. ASSUME NEW k \in 0..Len(codes), NEW claimed \in Venues \cup {None},
               NEW at \in Venues \cup {None}, BeginScan(s, k, claimed, at)
        PROVE  FALSE
    BY <2>4 DEF BeginScan, Closed, Bare
  <2>5. ASSUME NEW c \in Cards, BeginRecount(s, c)
        PROVE  /\ req'[s].cycle = card[req'[s].card].cycle
               /\ req'[s].count = card[req'[s].card].count
    BY <2>5 DEF BeginRecount, Bare
  <2>. QED
    BY <1>3, <2>0, <2>1, <2>2, <2>3, <2>4, <2>5 DEF Begin
<1>4. CASE FindCard(s) \/ OpenCard(s)
  <2>1. card' = card
    BY <1>4 DEF FindCard, OpenCard
  <2>2. Loaded(s, card[req[s].card]) \/ Goto(s, "insert") \/ Finish(s, "failed")
    BY <1>4 DEF FindCard, OpenCard
  <2>3. ASSUME Loaded(s, card[req[s].card])
        PROVE  /\ req'[s].cycle = card[req'[s].card].cycle
               /\ req'[s].count = card[req'[s].card].count
    BY <2>3 DEF Loaded, Closed, Bare, Requests
  <2>. QED
    BY <1>1, <1>2, <2>1, <2>2, <2>3 DEF Finish
<1>5. CASE Verify(s)
  <2>1. ASSUME NEW v, req' = [req EXCEPT ![s].step = "dedupe", ![s].verdict = v]
        PROVE  /\ req'[s].card = req[s].card
               /\ req'[s].cycle = req[s].cycle /\ req'[s].count = req[s].count
    BY <2>1 DEF Requests
  <2>. QED
    BY <1>2, <1>5, <2>1 DEF Verify, Finish
<1>6. CASE CheckDuplicate(s) \/ FileEvent(s)
  BY <1>1, <1>2, <1>6 DEF CheckDuplicate, FileEvent, Finish
<1>7. CASE CountPunches(s) \/ ReadPending(s)
  BY <1>7 DEF CountPunches, ReadPending, Requests
<1>8. CASE BankPunch(s) \/ LapseCode(s) \/ VoidCode(s) \/ Honour(s)
  BY <1>2, <1>8 DEF BankPunch, LapseCode, VoidCode, Honour, Finish
<1>9. CASE RetireCodes(s) \/ MintCode(s)
  BY <1>1, <1>2, <1>9 DEF RetireCodes, MintCode
<1>10. CASE MatchCard(s)
  <2>1. card' = card
    BY <1>10 DEF MatchCard
  <2>2. CASE Finish(s, "wrong_venue") \/ Goto(s, "void")
    BY <1>1, <1>2, <2>2 DEF Finish
  <2>3. CASE req' = [req EXCEPT ![s].step = "honour", ![s].cycle = card[req[s].card].cycle,
                                ![s].count = card[req[s].card].count,
                                ![s].need = program[VenueOf(req[s].card)].required]
    BY <2>1, <2>3 DEF Requests
  <2>. QED
    BY <1>10, <2>2, <2>3 DEF MatchCard
<1>11. CASE Respond(s) \/ Crash(s)
  BY <1>11 DEF Respond, Crash, Idle, Bare
<1>. QED
  BY <1>3, <1>4, <1>5, <1>6, <1>7, <1>8, <1>9, <1>10, <1>11 DEF Advance

-----------------------------------------------------------------------------
(* One request per card *)

LEMMA ExclusiveNext ==
    ASSUME HostSerialises, TypeOK, Exclusive, [Next]_vars
    PROVE  Exclusive'
<1>1. CASE Around
  BY <1>1, AroundChangesLittle DEF Exclusive, Busy
<1>2. ASSUME NEW s \in Sessions, Begin(s) \/ Advance(s) \/ Crash(s)
      PROVE  Exclusive'
  <2>1. \A t \in Sessions : t # s => req'[t] = req[t]
    BY <1>2, OthersUnchanged
  <2>2. ASSUME NEW t \in Sessions, t # s, Busy(s)', Busy(t)', req'[s].card = req'[t].card
        PROVE  FALSE
    <3>1. Busy(t) /\ req'[t].card = req[t].card
      BY <2>1, <2>2 DEF Busy
    <3>2. CASE Busy(s) /\ req'[s].card = req[s].card
      BY <2>2, <3>1, <3>2 DEF Exclusive
    <3>3. CASE CardFree(req'[s].card)
      BY <2>2, <3>1, <3>3 DEF CardFree
    <3>. QED
      BY <1>2, <2>2, <3>2, <3>3, BusyStep
  <2>3. ASSUME NEW t \in Sessions, NEW u \in Sessions, t # s, u # s,
               Busy(t)', Busy(u)', req'[t].card = req'[u].card
        PROVE  t = u
    BY <2>1, <2>3 DEF Exclusive, Busy
  <2>. QED
    BY <2>2, <2>3 DEF Exclusive
<1>. QED
  BY <1>1, <1>2, StepKinds

\* A request's row can only be written by the request itself, and then it is
\* over.
LEMMA RowHeldNext ==
    ASSUME TypeOK, Exclusive, RowHeld, [Next]_vars
    PROVE  RowHeld'
<1> DEFINE Held(r, rows) == /\ r.cycle = rows[r.card].cycle
                            /\ r.count = rows[r.card].count
<1>1. ASSUME NEW t \in Sessions, req'[t] = req[t], card' = card,
             req'[t].step \in Holding
      PROVE  Held(req'[t], card')
  BY <1>1 DEF RowHeld
<1>2. CASE Around
  BY <1>1, <1>2, AroundChangesLittle DEF RowHeld
<1>3. ASSUME NEW s \in Sessions, Begin(s) \/ Advance(s) \/ Crash(s),
             NEW t \in Sessions, req'[t].step \in Holding
      PROVE  Held(req'[t], card')
  <2>1. CASE t = s
    <3>1. CASE /\ req[s].step \in Holding /\ req'[s].card = req[s].card
               /\ req'[s].cycle = req[s].cycle /\ req'[s].count = req[s].count
      BY <1>3, <2>1, <3>1, HoldStep DEF RowHeld
    <3>2. CASE /\ req'[s].cycle = card[req'[s].card].cycle
               /\ req'[s].count = card[req'[s].card].count
      BY <1>3, <2>1, <3>2, HoldStep
    <3>. QED
      BY <1>3, <2>1, <3>1, <3>2, HoldStep
  <2>2. CASE t # s
    <3>1. req'[t] = req[t]
      BY <1>3, <2>2, OthersUnchanged
    <3>2. Busy(t) /\ req[t].card \in Cards
      BY <1>3, <3>1 DEF Busy, Holding, TypeOK, Informed
    <3>3. ASSUME NEW u \in Sessions, Busy(u), u # t,
                 \A c \in Cards : c # req[u].card => card'[c] = card[c]
          PROVE  card'[req[t].card] = card[req[t].card]
      BY <3>2, <3>3 DEF Exclusive
    <3>4. ASSUME BankPunch(t) \/ Honour(t) PROVE FALSE
      BY <1>3, <3>1, <3>4 DEF BankPunch, Honour, Finish, Closed, Bare, Holding, TypeOK
    <3>5. card'[req[t].card] = card[req[t].card]
      BY <3>3, <3>4, CardStep
    <3>. QED
      BY <1>3, <3>1, <3>5 DEF RowHeld
  <2>. QED
    BY <2>1, <2>2
<1>. QED
  BY <1>2, <1>3, StepKinds DEF RowHeld

-----------------------------------------------------------------------------
(* One reward per cycle *)

\* A card only moves forward.
LEMMA CycleGrows ==
    ASSUME TypeOK, RowHeld, [Next]_vars, NEW c \in Cards
    PROVE  /\ card[c].cycle \in Nat /\ card'[c].cycle \in Nat
           /\ card'[c].cycle >= card[c].cycle
           /\ \A s \in Sessions :
                 Honour(s) /\ req[s].card = c => /\ req[s].cycle = card[c].cycle
                                                 /\ card'[c].cycle = card[c].cycle + 1
<1>1. card[c] \in CardRows /\ card'[c] \in CardRows
  BY TypeNext DEF TypeOK
<1>2. ASSUME NEW s \in Sessions, Honour(s), req[s].card = c
      PROVE  req[s].cycle = card[c].cycle /\ card'[c].cycle = card[c].cycle + 1
  <2>1. req[s].cycle = card[c].cycle
    BY <1>2 DEF RowHeld, Holding, Honour
  <2>2. card'[c] = NextCycle(req[s], card[c])
    BY <1>2 DEF Honour, TypeOK
  <2>. QED
    BY <1>1, <2>1, <2>2 DEF NextCycle, CardRows
<1>3. ASSUME NEW s \in Sessions, BankPunch(s)
      PROVE  card'[c].cycle = card[c].cycle
  <2>1. card'[c] = card[c] \/ card'[c] = Banked(req[s], card[c])
    BY <1>3 DEF BankPunch, TypeOK
  <2>. QED
    BY <1>1, <2>1 DEF Banked, CardRows
<1>. QED
  BY <1>1, <1>2, <1>3, CardStep DEF CardRows

LEMMA CyclesClosedNext ==
    ASSUME TypeOK, RowHeld, CyclesClosed, OneRewardPerCycle, [Next]_vars
    PROVE  CyclesClosed' /\ OneRewardPerCycle'
<1>1. /\ redemptions \in Seq(Redemptions) /\ Len(redemptions) \in Nat
      /\ \A i \in 1..Len(redemptions) : redemptions[i] \in Redemptions
  BY LenProperties, ElementOfSeq DEF TypeOK
<1>2. ASSUME NEW i \in 1..Len(redemptions)
      PROVE  /\ redemptions[i].card \in Cards /\ redemptions[i].cycle \in Nat
             /\ redemptions[i].cycle < card[redemptions[i].card].cycle
             /\ redemptions[i].cycle < card'[redemptions[i].card].cycle
  <2>1. redemptions[i].card \in Cards /\ redemptions[i].cycle \in Nat
    BY <1>1 DEF Redemptions
  <2>. QED
    BY <2>1, CycleGrows DEF CyclesClosed
<1>3. CASE redemptions' = redemptions
  BY <1>2, <1>3 DEF CyclesClosed, OneRewardPerCycle
<1>4. ASSUME NEW s \in Sessions, Honour(s),
             NEW e, e = [card |-> req[s].card, code |-> req[s].code, cycle |-> req[s].cycle,
                         required |-> req[s].need, at |-> req[s].at],
             redemptions' = Append(redemptions, e)
      PROVE  CyclesClosed' /\ OneRewardPerCycle'
  <2>1. /\ Len(redemptions') = Len(redemptions) + 1
        /\ \A i \in 1..Len(redemptions) : redemptions'[i] = redemptions[i]
        /\ redemptions'[Len(redemptions) + 1] = e
    BY <1>1, <1>4
  <2>2. \A i \in 1..Len(redemptions') : i \in 1..Len(redemptions) \/ i = Len(redemptions) + 1
    BY <1>1, <2>1
  <2>3. /\ e.card \in Cards /\ e.cycle \in Nat /\ e.cycle = card[e.card].cycle
        /\ e.cycle < card'[e.card].cycle
    <3>1. req[s].card \in Cards
      BY <1>4, HonourStep
    <3>2. e.card = req[s].card /\ e.cycle = req[s].cycle
      BY <1>4
    <3>. QED
      BY <1>4, <3>1, <3>2, CycleGrows
  <2>4. CyclesClosed'
    BY <1>2, <2>1, <2>2, <2>3 DEF CyclesClosed
  <2>5. ASSUME NEW i \in 1..Len(redemptions), redemptions[i].card = e.card
        PROVE  redemptions[i].cycle # e.cycle
    BY <1>2, <2>3, <2>5
  <2>6. OneRewardPerCycle'
    BY <2>1, <2>2, <2>5 DEF OneRewardPerCycle
  <2>. QED
    BY <2>4, <2>6
<1>. QED
  BY <1>3, <1>4, RedemptionsStep

\* On a host that runs one request per card at a time, a cycle of a card pays
\* for at most one reward, however many codes were issued in it and wherever
\* requests died.
THEOREM OneRewardWhenSerialised ==
    ASSUME HostSerialises
    PROVE  Spec => []OneRewardPerCycle
<1> DEFINE IInv == Exclusive /\ RowHeld /\ CyclesClosed /\ OneRewardPerCycle
<1>1. Init => IInv
  BY DEF Init, Idle, Bare, Exclusive, Busy, RowHeld, Holding, CyclesClosed, OneRewardPerCycle
<1>2. TypeOK /\ IInv /\ [Next]_vars => IInv'
  BY ExclusiveNext, RowHeldNext, CyclesClosedNext
<1>. QED
  BY <1>1, <1>2, TypeCorrect, PTL DEF Spec

-----------------------------------------------------------------------------
(* What requests and rows know of each other, one request per card *)

\* What the request that has the card to itself has established about it.
SerialKnows ==
    \A s \in Sessions :
        LET r == req[s] IN
        /\ r.step \in {"card", "insert"} /\ r.op = "show" => r.need \in Thresholds
        /\ r.step \in {"pending", "retire", "mint"} =>
               /\ r.need \in Thresholds
               /\ r.need <= Cardinality(Earned(r.card, r.cycle))
        /\ r.step = "retire" => r.held = Pending(r.card)
        /\ r.step = "mint" => Pending(r.card) = {}
        /\ r.step \in Scanning => codes[r.code].status = "pending"
        /\ r.step # "void"

\* No code and no event is of a cycle its card has yet to reach.
NothingAhead ==
    /\ \A k \in 1..Len(codes) : codes[k].cycle <= card[codes[k].card].cycle
    /\ \A i \in 1..Len(events) : events[i].cycle <= card[events[i].card].cycle

\* Every code asks a price the owner set, and its cycle has earned it.
CodesCovered ==
    \A k \in 1..Len(codes) :
        /\ codes[k].need \in Thresholds
        /\ codes[k].need <= Cardinality(Earned(codes[k].card, codes[k].cycle))

\* A pending code is of the cycle its card is on.
PendingIsPresent ==
    \A k \in 1..Len(codes) :
        codes[k].status = "pending" => codes[k].cycle = card[codes[k].card].cycle

\* A request judges codes by a time that has been, and lapses one that is over.
Stamped ==
    \A s \in Sessions :
        /\ req[s].step \in {"pending", "retire"} => req[s].stamp <= now
        /\ req[s].step = "lapse" => codes[req[s].code].expires <= now

\* A running or paused program asks one of the prices owners ask.
PricesAsked ==
    \A v \in Venues : program[v].status # "none" => program[v].required \in Thresholds

\* No punch is missing from a count but those a request in flight is about to
\* count or bank.
CountOwed ==
    \A c \in Cards :
        \/ \E s \in Sessions : req[s].card = c /\ req[s].step \in {"count", "bank"}
        \/ card[c].count = Cardinality(Earned(c, card[c].cycle))

\* A tally about to be banked is the number of punches earned.
TallyExact ==
    \A s \in Sessions :
        req[s].step = "bank" => req[s].tally = Cardinality(Earned(req[s].card, req[s].cycle))

-----------------------------------------------------------------------------
(* What each request writes *)

\* The tables a request's own step may write, by the action that writes them.
LEMMA OwnWrites ==
    ASSUME NEW s \in Sessions, Begin(s) \/ Advance(s) \/ Crash(s)
    PROVE  /\ program' = program /\ now' = now
           /\ card' = card \/ BankPunch(s) \/ Honour(s)
           /\ events' = events \/ FileEvent(s)
           /\ \/ codes' = codes
              \/ RetireCodes(s) \/ MintCode(s) \/ LapseCode(s) \/ VoidCode(s) \/ Honour(s)
           /\ redemptions' = redemptions \/ Honour(s)
<1>1. CASE Begin(s)
  BY <1>1 DEF Begin, BeginView, BeginSubmit, BeginRecount, BeginShow, BeginScan
<1>2. CASE Crash(s)
  BY <1>2 DEF Crash
<1>3. CASE Advance(s)
  BY <1>3 DEF Advance, FindCard, OpenCard, Verify, CheckDuplicate, FileEvent, CountPunches,
     BankPunch, ReadPending, RetireCodes, MintCode, LapseCode, MatchCard, VoidCode, Honour, Respond
<1>. QED
  BY <1>1, <1>2, <1>3

\* The writers are in flight, on a card.
LEMMA WritersAreBusy ==
    ASSUME TypeOK, NEW s \in Sessions,
           \/ BankPunch(s) \/ Honour(s) \/ FileEvent(s)
           \/ RetireCodes(s) \/ MintCode(s) \/ LapseCode(s) \/ VoidCode(s)
    PROVE  Busy(s) /\ req[s].card \in Cards
BY DEF TypeOK, Informed, Busy, BankPunch, Honour, FileEvent, RetireCodes, MintCode, LapseCode,
   VoidCode

\* A request leaves alone the rows of every card but its own.
LEMMA OtherCards ==
    ASSUME TypeOK, ScanKnows, SerialKnows,
           NEW s \in Sessions, Begin(s) \/ Advance(s) \/ Crash(s),
           NEW c \in Cards, Busy(s) => req[s].card # c
    PROVE  /\ card'[c] = card[c]
           /\ \A n : Earned(c, n)' = Earned(c, n)
           /\ \A k \in 1..Len(codes) : codes[k].card = c => codes'[k] = codes[k]
           /\ Pending(c)' = Pending(c)
           /\ Rewards(c)' = Rewards(c)
<1>0. /\ Len(codes) \in Nat /\ Len(events) \in Nat /\ Len(codes') \in Nat
      /\ events \in Seq(Events)
      /\ \A k \in 1..Len(codes) : codes[k] \in Codes
  BY TypeNext, LenProperties, ElementOfSeq DEF TypeOK, Next
<1>1. card'[c] = card[c]
  BY OwnWrites, WritersAreBusy DEF BankPunch, Honour, TypeOK
<1>2. ASSUME NEW n PROVE Earned(c, n)' = Earned(c, n)
  <2>1. CASE events' = events
    BY <2>1 DEF Earned
  <2>2. ASSUME FileEvent(s), events' = Append(events, Filed(req[s]))
        PROVE  Earned(c, n)' = Earned(c, n)
    <3>1. /\ Len(events') = Len(events) + 1
          /\ \A i \in 1..Len(events) : events'[i] = events[i]
          /\ events'[Len(events) + 1] = Filed(req[s])
      BY <1>0, <2>2
    <3>2. Filed(req[s]).card # c
      BY <2>2, WritersAreBusy DEF Filed
    <3>3. \A i : i \in 1..Len(events') <=> i \in 1..Len(events) \/ i = Len(events) + 1
      BY <1>0, <3>1
    <3>. QED
      BY <1>0, <3>1, <3>2, <3>3 DEF Earned
  <2>. QED
    BY <2>1, <2>2, OwnWrites DEF FileEvent
<1>3. /\ Len(codes') >= Len(codes)
      /\ \A k \in 1..Len(codes) : codes[k].card = c => codes'[k] = codes[k]
      /\ \A k \in 1..Len(codes) : codes[k].card # c => codes'[k].card # c
      /\ \A k \in 1..Len(codes') : k \notin 1..Len(codes) => codes'[k].card # c
  <2>1. CASE codes' = codes
    BY <1>0, <2>1
  <2>2. /\ Len(codes') >= Len(codes)
        /\ \A k \in 1..Len(codes) : codes[k].card # c => codes'[k].card # c
    BY CodesStep DEF SameIssue, Next
  <2>3. CASE RetireCodes(s)
    <3>1. req[s].held = Pending(req[s].card) /\ req[s].card # c
      BY <2>3, WritersAreBusy DEF SerialKnows, RetireCodes
    <3>. QED
      BY <1>0, <2>2, <2>3, <3>1, RetireStep DEF Pending
  <2>4. CASE MintCode(s)
    <3>1. req[s].card # c
      BY <2>4, WritersAreBusy
    <3>2. \A k \in 1..Len(codes') : k \notin 1..Len(codes) => k = Len(codes) + 1
      BY <2>4, MintStep
    <3>. QED
      BY <2>2, <2>4, <3>1, <3>2, MintStep
  <2>5. CASE LapseCode(s) \/ VoidCode(s)
    <3>1. req[s].card # c /\ codes[req[s].code].card = req[s].card
      BY <2>5, WritersAreBusy DEF ScanKnows, LapseCode, VoidCode, Scanning
    <3>. QED
      BY <2>2, <2>5, <3>1, RefuseStep
  <2>6. CASE Honour(s)
    <3>1. req[s].card # c /\ codes[req[s].code].card = req[s].card
      BY <2>6, WritersAreBusy DEF ScanKnows, Honour, Scanning
    <3>. QED
      BY <2>2, <2>6, <3>1, HonourWrites
  <2>. QED
    BY <2>1, <2>3, <2>4, <2>5, <2>6, OwnWrites
<1>4. Pending(c)' = Pending(c)
  <2>1. \A k \in 1..Len(codes) : k \in 1..Len(codes')
    BY <1>0, <1>3
  <2>. QED
    BY <1>3, <2>1 DEF Pending
<1>5. Rewards(c)' = Rewards(c)
  <2>1. CASE redemptions' = redemptions
    BY <2>1 DEF Rewards
  <2>2. CASE Honour(s)
    <3>1. req[s].card # c
      BY <2>2, WritersAreBusy
    <3>2. \A i : i \in 1..Len(redemptions') <=> i \in 1..Len(redemptions) \/ i = Len(redemptions) + 1
      BY <2>2, HonourWrites
    <3>. QED
      BY <2>2, <3>1, <3>2, HonourWrites DEF Rewards
  <2>. QED
    BY <2>1, <2>2, OwnWrites
<1>. QED
  BY <1>1, <1>2, <1>3, <1>4, <1>5

-----------------------------------------------------------------------------
(* The invariants, one by one *)

LEMMA SerialKnowsNext ==
    ASSUME HostSerialises, TypeOK, Exclusive, RowHeld, ScanKnows, SerialKnows,
           PendingIsPresent, PricesAsked, CountNotInflated, [Next]_vars
    PROVE  SerialKnows'
<1> DEFINE Knows(r, E, P) ==
             /\ r.step \in {"card", "insert"} /\ r.op = "show" => r.need \in Thresholds
             /\ r.step \in {"pending", "retire", "mint"} =>
                    r.need \in Thresholds /\ r.need <= Cardinality(E)
             /\ r.step = "retire" => r.held = P
             /\ r.step = "mint" => P = {}
           OnCode(r, C) ==
             /\ r.step \in Scanning => C[r.code].status = "pending"
             /\ r.step # "void"
<1>. SUFFICES ASSUME NEW t \in Sessions,
                     NEW c, c = req'[t].card, NEW n, n = req'[t].cycle
              PROVE  Knows(req'[t], Earned(c, n)', Pending(c)') /\ OnCode(req'[t], codes')
  <2>1. ASSUME NEW t \in Sessions PROVE OnCode(req[t], codes)'
    OBVIOUS
  <2>2. ASSUME NEW t \in Sessions
        PROVE  Knows(req[t], Earned(req[t].card, req[t].cycle), Pending(req[t].card))'
    BY SMTT(60) DEF Earned, Pending
  <2>. QED
    BY <2>1, <2>2 DEF SerialKnows
<1>0. /\ req[t] \in Requests /\ Informed(req[t], Len(codes))
      /\ Knows(req[t], Earned(req[t].card, req[t].cycle), Pending(req[t].card))
      /\ OnCode(req[t], codes)
  BY DEF TypeOK, SerialKnows
<1>1. CASE Around
  <2>1. req' = req /\ codes' = codes /\ card' = card /\ events' = events
    BY <1>1, AroundChangesLittle
  <2>2. Earned(c, n)' = Earned(c, n) /\ Pending(c)' = Pending(c)
    BY <2>1 DEF Earned, Pending
  <2>. QED
    BY <1>0, <2>1, <2>2
<1>2. ASSUME NEW s \in Sessions, s # t, Begin(s) \/ Advance(s) \/ Crash(s)
      PROVE  Knows(req'[t], Earned(c, n)', Pending(c)') /\ OnCode(req'[t], codes')
  <2>1. req'[t] = req[t]
    BY <1>2, OthersUnchanged
  <2>2. CASE Busy(t)
    <3>1. c \in Cards /\ (Busy(s) => req[s].card # c)
      BY <1>0, <1>2, <2>1, <2>2 DEF Informed, Busy, Exclusive
    <3>2. /\ card'[c] = card[c] /\ Earned(c, n)' = Earned(c, n) /\ Pending(c)' = Pending(c)
          /\ \A k \in 1..Len(codes) : codes[k].card = c => codes'[k] = codes[k]
      BY <1>2, <3>1, OtherCards
    <3>3. Knows(req'[t], Earned(c, n)', Pending(c)')
      BY <1>0, <2>1, <3>2
    <3>4. req[t].step \in Scanning => codes'[req[t].code] = codes[req[t].code]
      BY <1>0, <2>1, <3>2 DEF ScanKnows, Informed, Scanning
    <3>5. OnCode(req'[t], codes')
      BY <1>0, <2>1, <3>4
    <3>. QED
      BY <3>3, <3>5
  <2>3. CASE ~Busy(t)
    BY <2>1, <2>3 DEF Busy, Scanning
  <2>. QED
    BY <2>2, <2>3
<1>3. ASSUME Begin(t) \/ Advance(t) \/ Crash(t)
      PROVE  Knows(req'[t], Earned(c, n)', Pending(c)')
  <2>1. CASE req'[t].step = "card" /\ req'[t].op = "show"
    <3>1. PICK d \in Cards : BeginShow(t, d)
      <4>1. ASSUME NEW d \in Cards, BeginView(t, d) PROVE FALSE
        BY <2>1, <4>1 DEF BeginView, Bare, TypeOK
      <4>2. ASSUME NEW d \in Cards, NEW r \in Receipts, BeginSubmit(t, d, r) PROVE FALSE
        BY <2>1, <4>2 DEF BeginSubmit, Closed, Bare, TypeOK
      <4>. QED
        BY <1>3, <2>1, <4>1, <4>2, StepFrom
    <3>2. VenueOf(d) \in Venues
      BY DEF Cards, VenueOf
    <3>3. /\ program[VenueOf(d)].status # "none"
          /\ req'[t].need = program[VenueOf(d)].required
      BY <2>1, <3>1 DEF BeginShow, Closed, Bare, TypeOK
    <3>. QED
      BY <2>1, <3>2, <3>3 DEF PricesAsked
  <2>2. CASE req'[t].step = "insert"
    <3>1. FindCard(t) /\ Goto(t, "insert")
      BY <1>3, <2>2, StepFrom
    <3>2. req[t].step = "card" /\ req'[t].op = req[t].op /\ req'[t].need = req[t].need
      BY <1>0, <3>1 DEF FindCard, Goto, TypeOK, Requests
    <3>. QED
      BY <1>0, <2>2, <3>2
  <2>3. CASE req'[t].step = "pending"
    <3>1. (FindCard(t) \/ OpenCard(t)) /\ Loaded(t, card[req[t].card])
      BY <1>3, <2>3, StepFrom
    <3>2. events' = events /\ req[t].step \in {"card", "insert"} /\ req[t].card \in Cards
      BY <1>0, <3>1 DEF FindCard, OpenCard, Informed
    <3> DEFINE row == card[req[t].card]
    <3>3. row \in CardRows
      BY <3>2 DEF TypeOK
    <3>4. /\ req[t].op = "show" /\ Reached(row, req[t].need)
          /\ c = req[t].card /\ n = row.cycle /\ req'[t].need = req[t].need
      BY <1>0, <2>3, <3>1, <3>3 DEF Loaded, Closed, Bare, TypeOK, Requests, CardRows
    <3>5. row.count <= Cardinality(Earned(c, n)) /\ Cardinality(Earned(c, n)) \in Nat
      BY <3>2, <3>4, EarnedGrows DEF CountNotInflated
    <3>6. req[t].need \in Int /\ row.count \in Nat /\ req[t].need <= row.count
      BY <1>0, <3>3, <3>4 DEF Requests, CardRows, Reached
    <3>7. Earned(c, n)' = Earned(c, n)
      BY <3>2 DEF Earned
    <3>. HIDE DEF row
    <3>8. req'[t].need \in Thresholds /\ req'[t].need <= Cardinality(Earned(c, n)')
      BY <1>0, <3>2, <3>4, <3>5, <3>6, <3>7
    <3>. QED
      BY <2>3, <3>8
  <2>4. CASE req'[t].step = "retire"
    <3>1. ReadPending(t)
      BY <1>3, <2>4, StepFrom
    <3>2. /\ events' = events /\ codes' = codes /\ req[t].step = "pending"
          /\ req'[t].held = Pending(req[t].card) /\ req'[t].need = req[t].need
          /\ c = req[t].card /\ n = req[t].cycle
      BY <1>0, <3>1 DEF ReadPending, TypeOK, Requests
    <3>3. Earned(c, n)' = Earned(c, n) /\ Pending(c)' = Pending(c)
      BY <3>2 DEF Earned, Pending
    <3>. QED
      BY <1>0, <2>4, <3>2, <3>3
  <2>5. CASE req'[t].step = "mint"
    <3>1. RetireCodes(t) /\ Goto(t, "mint")
      BY <1>3, <2>5, StepFrom
    <3>2. /\ events' = events /\ req[t].step = "retire" /\ req'[t].need = req[t].need
          /\ c = req[t].card /\ n = req[t].cycle
      BY <1>0, <3>1 DEF RetireCodes, Goto, TypeOK, Requests
    <3>3. Newest(Reusable(req[t])) = {}
      <4>1. ASSUME NEW k, req' = [req EXCEPT ![t] = Closed([req[t] EXCEPT !.code = k], "shown")]
            PROVE  FALSE
        BY <2>5, <4>1 DEF Closed, Bare, TypeOK
      <4>. QED
        BY <3>1, <4>1 DEF RetireCodes
    <3>4. req[t].held = Pending(c)
      BY <1>0, <3>2
    <3>5. Pending(c)' = {}
      <4>1. ASSUME NEW k \in 1..Len(codes'), codes'[k].card = c, codes'[k].status = "pending"
            PROVE  FALSE
        <5>1. k \in 1..Len(codes) /\ codes[k].card = c
          BY <3>1, <4>1, RetireStep, CodesStep DEF SameIssue
        <5>2. RetiredStatus(req[t], k) # "pending"
          BY DEF RetiredStatus
        <5>3. k \notin Pending(c) /\ codes'[k] = codes[k]
          BY <3>1, <3>3, <3>4, <4>1, <5>1, <5>2, RetireStep
        <5>. QED
          BY <4>1, <5>1, <5>3 DEF Pending
      <4>. QED
        BY <4>1 DEF Pending
    <3>6. Earned(c, n)' = Earned(c, n)
      BY <3>2 DEF Earned
    <3>. QED
      BY <1>0, <2>5, <3>2, <3>5, <3>6
  <2>. QED
    BY <2>1, <2>2, <2>3, <2>4, <2>5
<1>4. ASSUME Begin(t) \/ Advance(t) \/ Crash(t), req'[t].step \in Scanning
      PROVE  OnCode(req'[t], codes')
  <2>1. ASSUME NEW k \in 0..Len(codes), NEW claimed \in Venues \cup {None},
               NEW at \in Venues \cup {None}, BeginScan(t, k, claimed, at)
        PROVE  OnCode(req'[t], codes')
    <3> DEFINE verdict == ScanVerdict(k, claimed, at)
    <3>1. codes' = codes /\ req'[t].code = k /\ req'[t].step \in {"done", verdict}
      BY <2>1 DEF BeginScan, Closed, Bare, TypeOK
    <3>2. verdict \in {"lapse", "match"} /\ req'[t].step = verdict
      BY <1>4, <2>1, <3>1 DEF BeginScan, Closed, Bare, TypeOK, Scanning
    <3>3. k \in 1..Len(codes) => codes[k] \in Codes
      BY ElementOfSeq DEF TypeOK
    <3>4. codes[k].status = "pending"
      BY <3>2, <3>3 DEF ScanVerdict, SpentAnswer, Codes
    <3>. QED
      BY <3>1, <3>2, <3>4
  <2>2. ASSUME MatchCard(t) PROVE OnCode(req'[t], codes')
    <3>1. /\ codes' = codes /\ card' = card /\ req[t].step = "match"
          /\ req[t].card \in Cards /\ req[t].code \in 1..Len(codes)
      BY <1>0, <2>2 DEF MatchCard, Informed
    <3>2. codes[req[t].code].status = "pending" /\ codes[req[t].code].card = req[t].card
      BY <1>0, <3>1 DEF ScanKnows, Scanning
    <3>3. CASE Finish(t, "wrong_venue")
      BY <1>4, <3>3 DEF Finish, Closed, Bare, TypeOK, Scanning
    <3>4. codes[req[t].code].cycle = card[req[t].card].cycle
      BY <3>1, <3>2 DEF PendingIsPresent
    <3>5. CASE req' = [req EXCEPT ![t].step = "honour", ![t].cycle = card[req[t].card].cycle,
                                  ![t].count = card[req[t].card].count,
                                  ![t].need = program[VenueOf(req[t].card)].required]
      <4>1. req'[t].code = req[t].code /\ req'[t].step = "honour"
        BY <1>0, <3>5 DEF TypeOK, Requests
      <4>. QED
        BY <3>1, <3>2, <4>1
    <3>. QED
      BY <2>2, <3>3, <3>4, <3>5 DEF MatchCard
  <2>. QED
    BY <1>4, <2>1, <2>2, ScanStep
<1>5. req'[t].step \notin Scanning => OnCode(req'[t], codes')
  BY DEF Scanning
<1>. QED
  BY <1>1, <1>2, <1>3, <1>4, <1>5, StepKinds

\* A pending code was pending, or has just been minted for a card that had none.
LEMMA PendingStep ==
    ASSUME TypeOK, SerialKnows, [Next]_vars, NEW c, NEW k \in Pending(c)'
    PROVE  k \in Pending(c) \/ (k = Len(codes) + 1 /\ Pending(c) = {})
<1>0. Len(codes) \in Nat /\ k \in 1..Len(codes') /\ codes'[k].card = c /\ codes'[k].status = "pending"
  BY LenProperties DEF TypeOK, Pending
<1>1. CASE k \in 1..Len(codes) /\ codes[k].status = "pending"
  BY <1>0, <1>1, CodesStep DEF SameIssue, Pending
<1>2. CASE k \in 1..Len(codes) /\ codes[k].status # "pending"
  <2>1. codes'[k] # codes[k]
    BY <1>0, <1>2
  <2>2. PICK s \in Sessions : \/ RetireCodes(s) \/ MintCode(s) \/ LapseCode(s)
                              \/ VoidCode(s) \/ Honour(s)
    BY <2>1, CodesWriters
  <2>3. RetiredStatus(req[s], k) # "pending"
    BY DEF RetiredStatus
  <2>. QED
    BY <1>0, <1>2, <2>1, <2>2, <2>3, RetireStep, MintStep, RefuseStep, HonourWrites, HonourStep
<1>3. CASE k \notin 1..Len(codes)
  <2>1. PICK s \in Sessions : \/ RetireCodes(s) \/ MintCode(s) \/ LapseCode(s)
                              \/ VoidCode(s) \/ Honour(s)
    BY <1>0, <1>3, CodesWriters
  <2>2. MintCode(s)
    BY <1>0, <1>3, <2>1, RetireStep, RefuseStep, HonourWrites
  <2>3. k = Len(codes) + 1
    BY <1>0, <1>3, <2>2, MintStep
  <2>4. c = req[s].card /\ req[s].step = "mint"
    BY <1>0, <2>2, <2>3, MintStep DEF MintCode
  <2>. QED
    BY <2>3, <2>4 DEF SerialKnows
<1>. QED
  BY <1>1, <1>2, <1>3

LEMMA OnePendingNext ==
    ASSUME TypeOK, SerialKnows, OnePendingCode, [Next]_vars
    PROVE  OnePendingCode'
<1>. SUFFICES ASSUME NEW c \in Cards, NEW j \in Pending(c)', NEW k \in Pending(c)'
              PROVE  j = k
  BY DEF OnePendingCode
<1>. QED
  BY PendingStep DEF OnePendingCode

LEMMA CodesCoveredNext ==
    ASSUME TypeOK, SerialKnows, CodesCovered, [Next]_vars
    PROVE  CodesCovered'
<1>0. /\ Len(codes) \in Nat /\ \A k \in 1..Len(codes) : codes[k] \in Codes
  BY LenProperties, ElementOfSeq DEF TypeOK
<1>. SUFFICES ASSUME NEW k \in 1..Len(codes'),
                     NEW c, c = codes'[k].card, NEW n, n = codes'[k].cycle
              PROVE  codes'[k].need \in Thresholds /\ codes'[k].need <= Cardinality(Earned(c, n)')
  BY DEF CodesCovered, Earned
<1>1. /\ Cardinality(Earned(c, n)) \in Nat /\ Cardinality(Earned(c, n)') \in Nat
      /\ Cardinality(Earned(c, n)) <= Cardinality(Earned(c, n)')
  BY EarnedGrows
<1>2. CASE k \in 1..Len(codes)
  <2>1. SameIssue(codes'[k], codes[k])
    BY <1>2, CodesStep
  <2>2. codes[k].need \in Int
    BY <1>0, <1>2 DEF Codes
  <2>3. codes'[k].need = codes[k].need /\ c = codes[k].card /\ n = codes[k].cycle
    BY <2>1 DEF SameIssue
  <2>4. codes[k].need \in Thresholds /\ codes[k].need <= Cardinality(Earned(c, n))
    BY <1>2, <2>3 DEF CodesCovered
  <2>. QED
    BY <1>1, <2>2, <2>3, <2>4
<1>3. CASE k \notin 1..Len(codes)
  <2>1. PICK s \in Sessions : \/ RetireCodes(s) \/ MintCode(s) \/ LapseCode(s)
                              \/ VoidCode(s) \/ Honour(s)
    BY <1>3, CodesWriters
  <2>2. MintCode(s)
    BY <1>3, <2>1, RetireStep, RefuseStep, HonourWrites
  <2>3. k = Len(codes) + 1
    BY <1>0, <1>3, <2>2, MintStep
  <2>4. /\ req[s].step = "mint" /\ c = req[s].card /\ n = req[s].cycle
        /\ codes'[k].need = req[s].need /\ req[s].need \in Int
    BY <2>2, <2>3, MintStep DEF MintCode, TypeOK, Requests
  <2>5. req[s].need \in Thresholds /\ req[s].need <= Cardinality(Earned(c, n))
    BY <2>4 DEF SerialKnows
  <2>. QED
    BY <1>1, <2>4, <2>5
<1>. QED
  BY <1>2, <1>3

LEMMA NothingAheadNext ==
    ASSUME TypeOK, RowHeld, NothingAhead, [Next]_vars
    PROVE  NothingAhead'
<1>0. /\ Len(codes) \in Nat /\ \A k \in 1..Len(codes) : codes[k] \in Codes
      /\ events \in Seq(Events)
      /\ Len(events) \in Nat /\ \A i \in 1..Len(events) : events[i] \in Events
  BY LenProperties, ElementOfSeq DEF TypeOK
<1>1. \A c \in Cards : /\ card[c].cycle \in Nat /\ card'[c].cycle \in Nat
                       /\ card'[c].cycle >= card[c].cycle
  BY CycleGrows
<1>2. ASSUME NEW k \in 1..Len(codes') PROVE codes'[k].cycle <= card'[codes'[k].card].cycle
  <2>1. CASE k \in 1..Len(codes)
    <3>1. codes[k].card \in Cards /\ codes[k].cycle \in Nat
      BY <1>0, <2>1 DEF Codes
    <3>2. codes'[k].card = codes[k].card /\ codes'[k].cycle = codes[k].cycle
      BY <2>1, CodesStep DEF SameIssue
    <3>3. codes[k].cycle <= card[codes[k].card].cycle
      BY <2>1 DEF NothingAhead
    <3>. QED
      BY <1>1, <3>1, <3>2, <3>3
  <2>2. CASE k \notin 1..Len(codes)
    <3>1. PICK s \in Sessions : \/ RetireCodes(s) \/ MintCode(s) \/ LapseCode(s)
                                \/ VoidCode(s) \/ Honour(s)
      BY <2>2, CodesWriters
    <3>2. MintCode(s)
      BY <2>2, <3>1, RetireStep, RefuseStep, HonourWrites
    <3>3. k = Len(codes) + 1
      BY <1>0, <2>2, <3>2, MintStep
    <3>4. codes'[k].card = req[s].card /\ codes'[k].cycle = req[s].cycle
      BY <3>2, <3>3, MintStep
    <3>5. req[s].card \in Cards /\ req[s].cycle = card[req[s].card].cycle
      BY <3>2 DEF MintCode, TypeOK, Informed, RowHeld, Holding
    <3>. QED
      BY <1>1, <3>4, <3>5
  <2>. QED
    BY <2>1, <2>2
<1>3. ASSUME NEW i \in 1..Len(events') PROVE events'[i].cycle <= card'[events'[i].card].cycle
  <2>1. CASE i \in 1..Len(events)
    <3>1. events[i].card \in Cards /\ events[i].cycle \in Nat
      BY <1>0, <2>1 DEF Events
    <3>2. events'[i] = events[i]
      BY <2>1, EventsKept
    <3>3. events[i].cycle <= card[events[i].card].cycle
      BY <2>1 DEF NothingAhead
    <3>. QED
      BY <1>1, <3>1, <3>2, <3>3
  <2>2. CASE i \notin 1..Len(events)
    <3>0. events' # events
      BY <2>2
    <3>1. ~Around
      BY <3>0, AroundChangesLittle
    <3>2. PICK s \in Sessions : Begin(s) \/ Advance(s) \/ Crash(s)
      BY <3>1, StepKinds
    <3>3. FileEvent(s) /\ events' = Append(events, Filed(req[s]))
      BY <3>0, <3>2, OwnWrites DEF FileEvent
    <3>4. events'[i] = Filed(req[s])
      BY <1>0, <2>2, <3>3
    <3>5. req[s].card \in Cards /\ req[s].cycle = card[req[s].card].cycle
      BY <3>3 DEF FileEvent, TypeOK, Informed, RowHeld, Holding
    <3>. QED
      BY <1>1, <3>4, <3>5 DEF Filed
  <2>. QED
    BY <2>1, <2>2
<1>. QED
  BY <1>2, <1>3 DEF NothingAhead

\* What a recount stores, and what a redemption leaves, on a row that nobody
\* else has written since it was loaded.
LEMMA CountStep ==
    ASSUME TypeOK, RowHeld, NEW s \in Sessions
    PROVE  /\ BankPunch(s) =>
                /\ card'[req[s].card].count = req[s].tally
                /\ card'[req[s].card].cycle = card[req[s].card].cycle
                /\ req[s].cycle = card[req[s].card].cycle
           /\ Honour(s) =>
                /\ card'[req[s].card].count = 0
                /\ card'[req[s].card].cycle = card[req[s].card].cycle + 1
<1>0. req[s] \in Requests /\ Informed(req[s], Len(codes))
  BY DEF TypeOK
<1>1. ASSUME BankPunch(s)
      PROVE  /\ card'[req[s].card].count = req[s].tally
             /\ card'[req[s].card].cycle = card[req[s].card].cycle
             /\ req[s].cycle = card[req[s].card].cycle
  <2>1. /\ req[s].card \in Cards /\ card[req[s].card] \in CardRows
        /\ req[s].cycle = card[req[s].card].cycle /\ req[s].count = card[req[s].card].count
    BY <1>0, <1>1 DEF BankPunch, Informed, RowHeld, Holding, TypeOK
  <2>2. card'[req[s].card] = Banked(req[s], card[req[s].card])
    BY <1>1, <2>1 DEF BankPunch, TypeOK
  <2>. QED
    BY <2>1, <2>2 DEF Banked, CardRows
<1>2. ASSUME Honour(s)
      PROVE  /\ card'[req[s].card].count = 0
             /\ card'[req[s].card].cycle = card[req[s].card].cycle + 1
  <2>1. /\ req[s].card \in Cards /\ card[req[s].card] \in CardRows
        /\ req[s].cycle = card[req[s].card].cycle /\ req[s].count = card[req[s].card].count
    BY <1>0, <1>2 DEF Honour, Informed, RowHeld, Holding, TypeOK
  <2>2. card'[req[s].card] = NextCycle(req[s], card[req[s].card])
    BY <1>2, <2>1 DEF Honour, TypeOK
  <2>. QED
    BY <2>1, <2>2 DEF NextCycle, CardRows
<1>. QED
  BY <1>1, <1>2

LEMMA PendingIsPresentNext ==
    ASSUME TypeOK, RowHeld, ScanKnows, SerialKnows, OnePendingCode, PendingIsPresent, [Next]_vars
    PROVE  PendingIsPresent'
<1>0. /\ Len(codes) \in Nat /\ Len(codes') \in Nat
      /\ \A k \in 1..Len(codes) : codes[k] \in Codes
  BY TypeNext, LenProperties, ElementOfSeq DEF TypeOK
<1>. SUFFICES ASSUME NEW k \in 1..Len(codes'), codes'[k].status = "pending",
                     NEW c, c = codes'[k].card
              PROVE  codes'[k].cycle = card'[c].cycle
  BY DEF PendingIsPresent
<1>1. k \in Pending(c)'
  BY DEF Pending
<1>2. CASE k \in Pending(c)
  <2>1. /\ k \in 1..Len(codes) /\ codes[k].card = c /\ codes[k].status = "pending"
        /\ c \in Cards
    BY <1>0, <1>2 DEF Pending, Codes
  <2>2. codes'[k].cycle = codes[k].cycle /\ codes[k].cycle = card[c].cycle
    BY <2>1, CodesStep DEF SameIssue, PendingIsPresent
  <2>3. CASE card'[c] = card[c]
    BY <2>2, <2>3
  <2>4. ASSUME NEW s \in Sessions, BankPunch(s), req[s].card = c
        PROVE  card'[c].cycle = card[c].cycle
    BY <2>4, CountStep
  <2>5. ASSUME NEW s \in Sessions, Honour(s), req[s].card = c PROVE FALSE
    <3>1. req[s].code \in Pending(c)
      BY <2>5, HonourStep DEF SerialKnows, ScanKnows, Scanning, Pending
    <3>2. req[s].code = k
      BY <1>2, <2>1, <3>1 DEF OnePendingCode
    <3>. QED
      BY <2>5, <3>2, HonourStep
  <2>. QED
    BY <2>1, <2>2, <2>3, <2>4, <2>5, CardStep
<1>3. CASE k \notin Pending(c)
  <2>1. k = Len(codes) + 1
    BY <1>1, <1>3, PendingStep
  <2>2. k \notin 1..Len(codes)
    BY <1>0, <2>1
  <2>3. PICK s \in Sessions : \/ RetireCodes(s) \/ MintCode(s) \/ LapseCode(s)
                              \/ VoidCode(s) \/ Honour(s)
    BY <2>2, CodesWriters
  <2>4. MintCode(s)
    BY <2>2, <2>3, RetireStep, RefuseStep, HonourWrites
  <2>5. codes'[k].card = req[s].card /\ codes'[k].cycle = req[s].cycle
    BY <2>1, <2>4, MintStep
  <2>6. req[s].cycle = card[req[s].card].cycle /\ card' = card
    BY <2>4 DEF MintCode, RowHeld, Holding
  <2>. QED
    BY <2>5, <2>6
<1>. QED
  BY <1>2, <1>3

LEMMA StampedNext ==
    ASSUME TypeOK, Stamped, [Next]_vars
    PROVE  Stamped'
<1>0. /\ now \in Nat /\ now' \in Nat /\ now' >= now
      /\ \A s \in Sessions : req[s] \in Requests /\ Informed(req[s], Len(codes))
  <2>1. CASE Around
    BY <2>1 DEF Around, Tick, vars, OptIn, UpdateProgram, TypeOK
  <2>2. ASSUME NEW s \in Sessions, Begin(s) \/ Advance(s) \/ Crash(s) PROVE now' = now
    BY <2>2, OwnWrites
  <2>. QED
    BY <2>1, <2>2, StepKinds DEF TypeOK
<1>. SUFFICES ASSUME NEW t \in Sessions
              PROVE  /\ req'[t].step \in {"pending", "retire"} => req'[t].stamp <= now'
                     /\ req'[t].step = "lapse" => codes'[req'[t].code].expires <= now'
  BY DEF Stamped
<1>1. CASE req'[t] = req[t]
  <2>1. req[t].step \in {"pending", "retire"} => req[t].stamp \in Nat /\ req[t].stamp <= now
    BY <1>0 DEF Stamped, Requests
  <2>2. ASSUME req[t].step = "lapse" PROVE codes'[req[t].code].expires <= now'
    <3>1. req[t].code \in 1..Len(codes)
      BY <1>0, <2>2 DEF Informed
    <3>2. codes[req[t].code].expires \in Nat
      <4>1. codes[req[t].code] \in Codes
        BY <3>1, ElementOfSeq DEF TypeOK
      <4>. QED
        BY <4>1 DEF Codes
    <3>3. codes'[req[t].code].expires = codes[req[t].code].expires
      BY <3>1, CodesStep DEF SameIssue
    <3>4. codes[req[t].code].expires <= now
      BY <2>2 DEF Stamped
    <3>. QED
      BY <1>0, <3>2, <3>3, <3>4
  <2>. QED
    BY <1>0, <1>1, <2>1, <2>2
<1>2. ASSUME Begin(t) \/ Advance(t) \/ Crash(t), req'[t].step = "pending"
      PROVE  req'[t].stamp <= now'
  <2>1. Loaded(t, card[req[t].card])
    BY <1>2, StepFrom
  <2>2. req'[t].stamp = now
    BY <1>0, <1>2, <2>1 DEF Loaded, Closed, Bare, TypeOK, Requests
  <2>. QED
    BY <1>0, <2>2
<1>3. ASSUME Begin(t) \/ Advance(t) \/ Crash(t), req'[t].step = "retire"
      PROVE  req'[t].stamp <= now'
  <2>1. ReadPending(t)
    BY <1>3, StepFrom
  <2>2. req[t].step = "pending" /\ req'[t].stamp = req[t].stamp /\ req[t].stamp \in Nat
    BY <1>0, <2>1 DEF ReadPending, TypeOK, Requests
  <2>. QED
    BY <1>0, <2>2 DEF Stamped
<1>4. ASSUME Begin(t) \/ Advance(t) \/ Crash(t), req'[t].step = "lapse"
      PROVE  codes'[req'[t].code].expires <= now'
  <2>1. ASSUME NEW k \in 0..Len(codes), NEW claimed \in Venues \cup {None},
               NEW at \in Venues \cup {None}, BeginScan(t, k, claimed, at)
        PROVE  codes'[req'[t].code].expires <= now'
    <3> DEFINE verdict == ScanVerdict(k, claimed, at)
    <3>1. codes' = codes /\ req'[t].code = k /\ req'[t].step \in {"done", verdict}
      BY <2>1 DEF BeginScan, Closed, Bare, TypeOK
    <3>2. verdict = "lapse"
      BY <1>4, <3>1
    <3>3. k \in 1..Len(codes) => codes[k] \in Codes
      BY ElementOfSeq DEF TypeOK
    <3>4. codes[k].expires <= now
      BY <3>2, <3>3 DEF ScanVerdict, SpentAnswer, Codes, Lapsed
    <3>5. now' = now
      BY <2>1 DEF BeginScan
    <3>. QED
      BY <3>1, <3>4, <3>5
  <2>2. ASSUME MatchCard(t) PROVE FALSE
    <3>1. /\ Finish(t, "wrong_venue") => req'[t].step = "done"
          /\ Goto(t, "void") => req'[t].step = "void"
      BY <1>0 DEF Finish, Closed, Bare, Goto, TypeOK, Requests
    <3>2. ASSUME req' = [req EXCEPT ![t].step = "honour", ![t].cycle = card[req[t].card].cycle,
                                    ![t].count = card[req[t].card].count,
                                    ![t].need = program[VenueOf(req[t].card)].required]
          PROVE  req'[t].step = "honour"
      BY <1>0, <3>2 DEF TypeOK, Requests
    <3>. QED
      BY <1>4, <2>2, <3>1, <3>2 DEF MatchCard
  <2>. QED
    BY <1>4, <2>1, <2>2, ScanStep DEF Scanning
<1>. QED
  BY <1>1, <1>2, <1>3, <1>4, StepKinds, OthersUnchanged, AroundChangesLittle

\* The one pending code of a card is of its present cycle, so what retires it is
\* its deadline: nobody is told of a cycle that has passed.
LEMMA ClosedForCauseNext ==
    ASSUME TypeOK, RowHeld, ScanKnows, SerialKnows, OnePendingCode, PendingIsPresent,
           Stamped, ClosedForCause, [Next]_vars
    PROVE  ClosedForCause'
<1>0. /\ Len(codes) \in Nat /\ now \in Nat /\ MinReusable \in Nat \ {0}
      /\ \A k \in 1..Len(codes) : codes[k] \in Codes
  BY LenProperties, ElementOfSeq, ClockAssumption DEF TypeOK
<1>1. now' \in Nat /\ now' >= now
  <2>1. CASE Around
    BY <1>0, <2>1 DEF Around, Tick, vars, OptIn, UpdateProgram
  <2>2. ASSUME NEW s \in Sessions, Begin(s) \/ Advance(s) \/ Crash(s) PROVE now' = now
    BY <2>2, OwnWrites
  <2>. QED
    BY <1>0, <2>1, <2>2, StepKinds
<1>. SUFFICES ASSUME NEW k \in 1..Len(codes')
              PROVE  \/ codes'[k].status \in {"pending", "redeemed"}
                     \/ /\ codes'[k].status = "expired"
                        /\ codes'[k].expires < now' + MinReusable
  BY DEF ClosedForCause
<1>2. CASE k \notin 1..Len(codes)
  <2>1. PICK s \in Sessions : \/ RetireCodes(s) \/ MintCode(s) \/ LapseCode(s)
                              \/ VoidCode(s) \/ Honour(s)
    BY <1>2, CodesWriters
  <2>2. MintCode(s)
    BY <1>2, <2>1, RetireStep, RefuseStep, HonourWrites
  <2>. QED
    BY <1>0, <1>2, <2>2, MintStep
<1>3. CASE k \in 1..Len(codes)
  <2>0. codes[k].expires \in Nat /\ codes'[k].expires = codes[k].expires
    BY <1>0, <1>3, CodesStep DEF SameIssue, Codes
  <2>1. CASE codes'[k] = codes[k]
    BY <1>0, <1>1, <1>3, <2>0, <2>1 DEF ClosedForCause
  <2>2. CASE codes'[k] # codes[k]
    <3>1. PICK s \in Sessions : \/ RetireCodes(s) \/ MintCode(s) \/ LapseCode(s)
                                \/ VoidCode(s) \/ Honour(s)
      BY <2>2, CodesWriters
    <3>2. CASE RetireCodes(s)
      <4>1. /\ k \in req[s].held /\ k \notin Newest(Reusable(req[s]))
            /\ codes'[k].status = RetiredStatus(req[s], k)
        BY <1>3, <2>2, <3>2, RetireStep
      <4>2. /\ req[s].held = Pending(req[s].card) /\ req[s].card \in Cards
            /\ req[s].cycle = card[req[s].card].cycle
            /\ req[s].stamp \in Nat /\ req[s].stamp <= now
        BY <3>2 DEF RetireCodes, SerialKnows, RowHeld, Holding, TypeOK, Informed, Requests, Stamped
      <4>3. \A j \in Pending(req[s].card) : j = k
        BY <4>1, <4>2 DEF OnePendingCode
      <4>4. k \notin Reusable(req[s])
        BY <1>0, <1>3, <4>1, <4>2, <4>3 DEF Newest, Reusable
      <4>5. codes[k].cycle = req[s].cycle
        BY <1>3, <4>1, <4>2 DEF Pending, PendingIsPresent
      <4>6. codes'[k].status = "expired"
        BY <4>1, <4>4, <4>5 DEF RetiredStatus
      <4>7. ~(codes[k].expires - req[s].stamp >= MinReusable)
        BY <4>1, <4>4, <4>5 DEF Reusable
      <4>. QED
        BY <1>0, <1>1, <2>0, <4>2, <4>6, <4>7
    <3>3. CASE LapseCode(s) \/ VoidCode(s)
      <4>1. LapseCode(s) /\ req[s].step = "lapse"
        BY <3>3 DEF LapseCode, VoidCode, SerialKnows
      <4>2. k = req[s].code /\ req[s].code \in 1..Len(codes)
        BY <1>3, <2>2, <4>1, RefuseStep
      <4>3. codes'[k].status = "expired"
        BY <1>0, <4>1, <4>2 DEF LapseCode, Codes, TypeOK
      <4>4. codes[k].expires <= now
        BY <4>1, <4>2 DEF Stamped
      <4>. QED
        BY <1>0, <1>1, <2>0, <4>3, <4>4
    <3>4. CASE Honour(s)
      BY <1>3, <2>2, <3>4, HonourWrites, HonourStep
    <3>5. CASE MintCode(s)
      BY <1>3, <2>2, <3>5, MintStep
    <3>. QED
      BY <3>1, <3>2, <3>3, <3>4, <3>5
  <2>. QED
    BY <2>1, <2>2
<1>. QED
  BY <1>2, <1>3

LEMMA PricesAskedNext ==
    ASSUME TypeOK, PricesAsked, [Next]_vars
    PROVE  PricesAsked'
<1>1. ASSUME NEW v \in Venues, NEW n \in Thresholds, NEW enabled \in BOOLEAN,
             OptIn(v, n, enabled) \/ UpdateProgram(v, n, enabled)
      PROVE  PricesAsked'
  <2>1. program' = [program EXCEPT ![v] = [status |-> Status(enabled), required |-> n]]
    BY <1>1 DEF OptIn, UpdateProgram
  <2>. QED
    BY <2>1 DEF PricesAsked, TypeOK
<1>2. CASE program' = program
  BY <1>2 DEF PricesAsked
<1>. QED
  BY <1>1, <1>2, StepKinds, OwnWrites DEF Around, Tick, vars

LEMMA CountNotInflatedNext ==
    ASSUME TypeOK, RowHeld, Tallied, CountNotInflated, [Next]_vars
    PROVE  CountNotInflated'
<1>. SUFFICES ASSUME NEW c \in Cards, NEW n, n = card'[c].cycle
              PROVE  card'[c].count <= Cardinality(Earned(c, n)')
  BY DEF CountNotInflated, Earned
<1>0. card[c] \in CardRows /\ card'[c] \in CardRows
  BY TypeNext DEF TypeOK
<1>1. /\ Cardinality(Earned(c, n)) \in Nat /\ Cardinality(Earned(c, n)') \in Nat
      /\ Cardinality(Earned(c, n)) <= Cardinality(Earned(c, n)')
  BY EarnedGrows
<1>2. CASE card'[c] = card[c]
  <2>1. card[c].count <= Cardinality(Earned(c, n)) /\ card[c].count \in Nat
    BY <1>0, <1>2 DEF CountNotInflated, CardRows
  <2>. QED
    BY <1>1, <1>2, <2>1
<1>3. ASSUME NEW s \in Sessions, BankPunch(s), req[s].card = c
      PROVE  card'[c].count <= Cardinality(Earned(c, n)')
  <2>1. card'[c].count = req[s].tally /\ req[s].cycle = n /\ req[s].tally \in Nat
    BY <1>3, CountStep DEF TypeOK, Requests
  <2>2. req[s].tally <= Cardinality(Earned(c, n))
    BY <1>3, <2>1 DEF Tallied, BankPunch
  <2>. QED
    BY <1>1, <2>1, <2>2
<1>4. ASSUME NEW s \in Sessions, Honour(s), req[s].card = c
      PROVE  card'[c].count <= Cardinality(Earned(c, n)')
  BY <1>1, <1>4, CountStep
<1>. QED
  BY <1>2, <1>3, <1>4, CardStep

\* Whatever a redeemed code is doing, no other request takes its status away.
LEMMA RedeemedStaysStep ==
    ASSUME TypeOK, SerialKnows, [Next]_vars, NEW k \in 1..Len(codes),
           codes[k].status = "redeemed"
    PROVE  codes'[k].status = "redeemed"
<1>1. ASSUME codes'[k] # codes[k] PROVE codes'[k].status = "redeemed"
  <2>1. PICK s \in Sessions : \/ RetireCodes(s) \/ MintCode(s) \/ LapseCode(s)
                              \/ VoidCode(s) \/ Honour(s)
    BY <1>1, CodesWriters
  <2>2. CASE RetireCodes(s)
    <3>1. k \in req[s].held
      BY <1>1, <2>2, RetireStep
    <3>2. req[s].held = Pending(req[s].card)
      BY <2>2 DEF RetireCodes, SerialKnows
    <3>. QED
      BY <3>1, <3>2 DEF Pending
  <2>3. CASE LapseCode(s) \/ VoidCode(s)
    <3>1. k = req[s].code
      BY <1>1, <2>3, RefuseStep
    <3>2. codes[req[s].code].status = "pending"
      BY <2>3 DEF LapseCode, VoidCode, SerialKnows, Scanning
    <3>. QED
      BY <3>1, <3>2
  <2>4. CASE MintCode(s)
    BY <1>1, <2>4, MintStep
  <2>5. CASE Honour(s)
    BY <1>1, <2>5, HonourStep, HonourWrites
  <2>. QED
    BY <2>1, <2>2, <2>3, <2>4, <2>5
<1>. QED
  BY <1>1

-----------------------------------------------------------------------------
(* The theorems *)

\* What every state of a serialising host satisfies.
SerialInv ==
    /\ Exclusive /\ RowHeld /\ ScanKnows /\ Tallied
    /\ SerialKnows /\ NothingAhead /\ CodesCovered /\ PendingIsPresent
    /\ PricesAsked /\ CountNotInflated /\ OnePendingCode /\ Stamped /\ ClosedForCause

LEMMA SerialInvInit == Init => SerialInv
<1>. SUFFICES ASSUME Init PROVE SerialInv
  OBVIOUS
<1>1. \A s \in Sessions : req[s].step = "idle" /\ req[s].op = "none"
  BY DEF Init, Idle, Bare
<1>2. Exclusive /\ RowHeld /\ ScanKnows /\ Tallied /\ SerialKnows /\ Stamped
  BY <1>1 DEF Exclusive, Busy, RowHeld, Holding, ScanKnows, Scanning, Tallied, SerialKnows, Stamped
<1>3. /\ NothingAhead /\ CodesCovered /\ PendingIsPresent /\ PricesAsked /\ OnePendingCode
      /\ ClosedForCause
  BY DEF Init, NothingAhead, CodesCovered, PendingIsPresent, PricesAsked, OnePendingCode, Pending,
     ClosedForCause
<1>4. CountNotInflated
  <2>1. ASSUME NEW c \in Cards PROVE 0 <= Cardinality(Earned(c, 1))
    BY EarnedFinite, TypeInit
  <2>. QED
    BY <2>1 DEF Init, CountNotInflated
<1>. QED
  BY <1>2, <1>3, <1>4 DEF SerialInv

LEMMA SerialInvNext ==
    ASSUME HostSerialises, TypeOK, SerialInv, [Next]_vars
    PROVE  SerialInv'
BY ExclusiveNext, RowHeldNext, ScanKnowsNext, TalliedNext, SerialKnowsNext, NothingAheadNext,
   CodesCoveredNext, PendingIsPresentNext, PricesAskedNext, CountNotInflatedNext, OnePendingNext,
   StampedNext, ClosedForCauseNext
   DEF SerialInv

LEMMA SerialInvariant ==
    ASSUME HostSerialises
    PROVE  Spec => [](TypeOK /\ SerialInv)
<1>1. TypeOK /\ SerialInv /\ [Next]_vars => SerialInv'
  BY SerialInvNext
<1>. QED
  BY <1>1, SerialInvInit, TypeCorrect, PTL DEF Spec

\* On such a host a stored count is never more than the card's present cycle
\* has earned, wherever requests die.
THEOREM CountsAreNotInflated ==
    ASSUME HostSerialises
    PROVE  Spec => []CountNotInflated
<1>1. SerialInv => CountNotInflated
  BY DEF SerialInv
<1>. QED
  BY <1>1, SerialInvariant, PTL

\* Every reward was paid for, in its own cycle, with as many verified punches
\* as the program required when its code was minted.
THEOREM RewardsArePaidFor ==
    ASSUME HostSerialises
    PROVE  Spec => []RewardPaidFor
<1>1. SerialInv /\ HonouredAsIssued => RewardPaidFor
  BY DEF SerialInv, CodesCovered, HonouredAsIssued, RewardPaidFor
<1>. QED
  BY <1>1, SerialInvariant, RewardsAreHonouredAsIssued, PTL

\* No card has two pending codes.
THEOREM OneCodePending ==
    ASSUME HostSerialises
    PROVE  Spec => []OnePendingCode
<1>1. SerialInv => OnePendingCode
  BY DEF SerialInv
<1>. QED
  BY <1>1, SerialInvariant, PTL

\* A code is only ever closed by its own redemption or for want of time: another
\* tap, a scan or a new cycle never takes a live one from the customer, and none
\* is ever refused as one of another cycle.
THEOREM CodesCloseForCause ==
    ASSUME HostSerialises
    PROVE  Spec => []ClosedForCause
<1>1. SerialInv => ClosedForCause
  BY DEF SerialInv
<1>. QED
  BY <1>1, SerialInvariant, PTL

\* A redeemed code stays redeemed: no expiry, void or retirement takes it back.
THEOREM RedeemedCodesStay ==
    ASSUME HostSerialises
    PROVE  Spec => RedeemedStays
<1>1. /\ TypeOK /\ SerialInv /\ [Next]_vars
      => [\A k \in 1..Len(codes) :
             codes[k].status = "redeemed" => codes'[k].status = "redeemed"]_vars
  BY RedeemedStaysStep DEF SerialInv
<1>. QED
  BY <1>1, SerialInvariant, PTL DEF Spec, RedeemedStays

-----------------------------------------------------------------------------
(* Exact counts, when requests also run to their end *)

LEMMA TallyExactNext ==
    ASSUME TypeOK, Exclusive, ScanKnows, SerialKnows, TallyExact, [Next]_vars
    PROVE  TallyExact'
<1>. SUFFICES ASSUME NEW t \in Sessions, req'[t].step = "bank",
                     NEW c, c = req'[t].card, NEW n, n = req'[t].cycle
              PROVE  req'[t].tally = Cardinality(Earned(c, n)')
  BY DEF TallyExact, Earned
<1>1. CASE Around
  <2>1. req' = req /\ events' = events
    BY <1>1, AroundChangesLittle
  <2>2. Earned(c, n)' = Earned(c, n)
    BY <2>1 DEF Earned
  <2>. QED
    BY <2>1, <2>2 DEF TallyExact
<1>2. CASE CountPunches(t)
  <2>1. /\ events' = events /\ req'[t].card = req[t].card /\ req'[t].cycle = req[t].cycle
        /\ req'[t].tally = Cardinality(Earned(req[t].card, req[t].cycle))
    BY <1>2 DEF CountPunches, TypeOK, Requests, VerifiedPunchCount
  <2>2. Earned(c, n)' = Earned(c, n)
    BY <2>1 DEF Earned
  <2>. QED
    BY <2>1, <2>2
<1>3. ASSUME NEW s \in Sessions, s # t, Begin(s) \/ Advance(s) \/ Crash(s)
      PROVE  req'[t].tally = Cardinality(Earned(c, n)')
  <2>1. req'[t] = req[t]
    BY <1>3, OthersUnchanged
  <2>2. c \in Cards /\ (Busy(s) => req[s].card # c)
    BY <1>3, <2>1 DEF TypeOK, Informed, Busy, Exclusive
  <2>3. Earned(c, n)' = Earned(c, n)
    BY <1>3, <2>2, OtherCards
  <2>. QED
    BY <2>1, <2>3 DEF TallyExact
<1>. QED
  BY <1>1, <1>2, <1>3, StepFrom, StepKinds

\* A punch that is filed is on its way into the count, and the request that
\* brings it there is not interrupted.
LEMMA CountOwedNext ==
    ASSUME ~MayCrash, TypeOK, Exclusive, RowHeld, ScanKnows, SerialKnows, NothingAhead,
           TallyExact, CountOwed, [Next]_vars
    PROVE  CountOwed'
<1> DEFINE Owed(c) == \E s \in Sessions : req[s].card = c /\ req[s].step \in {"count", "bank"}
<1>. SUFFICES ASSUME NEW c \in Cards, ~Owed(c)', NEW n, n = card'[c].cycle
              PROVE  card'[c].count = Cardinality(Earned(c, n)')
  BY DEF CountOwed, Earned
<1>0. card[c] \in CardRows /\ card'[c] \in CardRows
  BY TypeNext DEF TypeOK
<1>1. CASE Around
  <2>1. req' = req /\ card' = card /\ events' = events
    BY <1>1, AroundChangesLittle
  <2>2. Earned(c, n)' = Earned(c, n)
    BY <2>1 DEF Earned
  <2>. QED
    BY <2>1, <2>2 DEF CountOwed
<1>2. ASSUME NEW s \in Sessions, Begin(s) \/ Advance(s) \/ Crash(s), Busy(s) => req[s].card # c
      PROVE  card'[c].count = Cardinality(Earned(c, n)')
  <2>1. card'[c] = card[c] /\ Earned(c, n)' = Earned(c, n)
    BY <1>2, OtherCards
  <2>2. ~Owed(c)
    <3>1. ASSUME NEW u \in Sessions, req[u].card = c, req[u].step \in {"count", "bank"}
          PROVE  FALSE
      <4>1. u # s
        BY <1>2, <3>1 DEF Busy
      <4>2. req'[u] = req[u]
        BY <1>2, <4>1, OthersUnchanged
      <4>. QED
        BY <3>1, <4>2
    <3>. QED
      BY <3>1
  <2>. QED
    BY <2>1, <2>2 DEF CountOwed
<1>3. ASSUME NEW s \in Sessions, Begin(s) \/ Advance(s) \/ Crash(s), Busy(s), req[s].card = c
      PROVE  card'[c].count = Cardinality(Earned(c, n)')
  <2>1. req[s] \in Requests
    BY DEF TypeOK
  <2>2. ASSUME NEW u \in Sessions, u # s, req[u].card = c PROVE ~Busy(u)
    BY <1>3, <2>2 DEF Exclusive
  <2>3. CASE req[s].step = "count"
    <3>1. CountPunches(s)
      BY <1>3, <2>3 DEF Begin, BeginView, BeginSubmit, BeginRecount, BeginShow, BeginScan,
         Crash, Advance, FindCard, OpenCard, Verify, CheckDuplicate, FileEvent, BankPunch,
         ReadPending, RetireCodes, MintCode, LapseCode, MatchCard, VoidCode, Honour, Respond
    <3>2. req'[s].step = "bank" /\ req'[s].card = c
      BY <1>3, <2>1, <3>1 DEF CountPunches, TypeOK, Requests
    <3>. QED
      BY <3>2
  <2>4. CASE req[s].step = "bank"
    <3>1. BankPunch(s)
      BY <1>3, <2>4 DEF Begin, BeginView, BeginSubmit, BeginRecount, BeginShow, BeginScan,
         Crash, Advance, FindCard, OpenCard, Verify, CheckDuplicate, FileEvent, CountPunches,
         ReadPending, RetireCodes, MintCode, LapseCode, MatchCard, VoidCode, Honour, Respond
    <3>2. card'[c].count = req[s].tally /\ req[s].cycle = n /\ events' = events
      BY <1>3, <3>1, CountStep DEF BankPunch
    <3>3. Earned(c, n)' = Earned(c, n)
      BY <3>2 DEF Earned
    <3>. QED
      BY <1>3, <2>4, <3>2, <3>3 DEF TallyExact
  <2>5. CASE req[s].step \notin {"count", "bank"}
    <3>1. ~Owed(c)
      BY <2>2, <2>5 DEF Busy
    <3>2. card[c].count = Cardinality(Earned(c, card[c].cycle))
      BY <3>1 DEF CountOwed
    <3>3. CASE Honour(s)
      <4>1. card'[c].count = 0 /\ n = card[c].cycle + 1 /\ events' = events
        BY <1>3, <3>3, CountStep DEF Honour
      <4>2. Earned(c, n) = {}
        <5>1. ASSUME NEW i \in 1..Len(events), events[i].card = c, events[i].cycle = n
              PROVE  FALSE
          <6>1. events[i].cycle <= card[c].cycle
            BY <5>1 DEF NothingAhead
          <6>. QED
            BY <1>0, <4>1, <5>1, <6>1 DEF CardRows
        <5>. QED
          BY <5>1 DEF Earned
      <4>3. Earned(c, n)' = {}
        BY <4>1, <4>2 DEF Earned
      <4>. QED
        BY <4>1, <4>3, FS_EmptySet
    <3>4. CASE FileEvent(s) /\ events' # events
      <4>1. events' = Append(events, Filed(req[s])) /\ card' = card
        BY <3>4 DEF FileEvent
      <4>2. req[s].verdict # "verified"
        <5>1. ASSUME Goto(s, "count") PROVE FALSE
          BY <1>3, <2>1, <5>1 DEF Goto, TypeOK, Requests
        <5>. QED
          BY <3>4, <5>1 DEF FileEvent, ToBank
      <4>3. events \in Seq(Events) /\ Len(events) \in Nat
        BY LenProperties DEF TypeOK
      <4>4. /\ Len(events') = Len(events) + 1
            /\ \A i \in 1..Len(events) : events'[i] = events[i]
            /\ events'[Len(events) + 1].status # "verified"
        BY <4>1, <4>2, <4>3 DEF Filed
      <4>5. \A i : i \in 1..Len(events') <=> i \in 1..Len(events) \/ i = Len(events) + 1
        BY <4>3, <4>4
      <4>6. Earned(c, n)' = Earned(c, n)
        BY <4>4, <4>5 DEF Earned
      <4>. QED
        BY <3>2, <4>1, <4>6
    <3>5. CASE events' = events /\ ~Honour(s)
      <4>1. card' = card
        BY <1>3, <2>5, <3>5, OwnWrites DEF BankPunch
      <4>2. Earned(c, n)' = Earned(c, n)
        BY <3>5 DEF Earned
      <4>. QED
        BY <3>2, <4>1, <4>2
    <3>. QED
      BY <1>3, <3>3, <3>4, <3>5, OwnWrites
  <2>. QED
    BY <2>3, <2>4, <2>5
<1>. QED
  BY <1>1, <1>2, <1>3, StepKinds

\* If moreover no request dies half way, the stored count of a card that no
\* request is working on is exactly what its cycle has earned.
THEOREM CountsAreExact ==
    ASSUME HostSerialises, ~MayCrash
    PROVE  Spec => []CountExact
<1>1. Init => TallyExact /\ CountOwed
  <2>. SUFFICES ASSUME Init PROVE TallyExact /\ CountOwed
    OBVIOUS
  <2>1. \A c \in Cards : Earned(c, 1) = {} /\ card[c].cycle = 1 /\ card[c].count = 0
    BY DEF Init, Earned
  <2>2. CountOwed
    BY <2>1, FS_EmptySet DEF CountOwed
  <2>. QED
    BY <2>2 DEF Init, TallyExact, Idle, Bare
<1>2. TypeOK /\ SerialInv /\ TallyExact /\ CountOwed /\ [Next]_vars => TallyExact' /\ CountOwed'
  BY TallyExactNext, CountOwedNext DEF SerialInv
<1>3. TallyExact /\ CountOwed => CountExact
  BY DEF CountOwed, CountExact, Busy
<1>. QED
  BY <1>1, <1>2, <1>3, SerialInvariant, PTL DEF Spec

-----------------------------------------------------------------------------
(* The rules: what the rows stand for in PunchCardRules, card by card *)

EarnedNow(c) == {Fingerprint(c, events[i].receipt) : i \in Earned(c, card[c].cycle)}
OfferNow(c) == IF LiveCodes(c) = {} THEN None
               ELSE codes[CHOOSE k \in LiveCodes(c) : TRUE].need

CycleOf == [c \in Cards |-> card[c].cycle]
EarnedOf == [c \in Cards |-> EarnedNow(c)]
OfferOf == [c \in Cards |-> OfferNow(c)]
ClaimsOf == [c \in Cards |-> Cardinality(Rewards(c))]
MarksOf == Venues \X Receipts \X (Users \cup {None})

\* A card on offer is offered at the price of its one live code.
LEMMA OfferValue ==
    TypeOK /\ OnePendingCode =>
        \A c \in Cards :
            /\ LiveCodes(c) = {} => OfferNow(c) = None
            /\ \A k \in LiveCodes(c) : /\ LiveCodes(c) = {k}
                                       /\ OfferNow(c) = codes[k].need
                                       /\ OfferNow(c) # None
<1>. SUFFICES ASSUME TypeOK, OnePendingCode, NEW c \in Cards, NEW k \in LiveCodes(c)
              PROVE  LiveCodes(c) = {k} /\ OfferNow(c) = codes[k].need /\ OfferNow(c) # None
  BY DEF OfferNow
<1>1. LiveCodes(c) = {k}
  BY DEF OnePendingCode, LiveCodes
<1>2. (CHOOSE j \in LiveCodes(c) : TRUE) = k
  BY <1>1
<1>3. OfferNow(c) = codes[k].need
  BY <1>1, <1>2 DEF OfferNow
<1>4. codes[k] \in Codes
  BY ElementOfSeq DEF TypeOK, LiveCodes, Pending
<1>5. codes[k].need \in Int
  BY <1>4 DEF Codes
<1>. QED
  BY <1>1, <1>3, <1>5, NoneAssumption

LEMMA OfferValueAfter ==
    (TypeOK /\ OnePendingCode =>
        \A c \in Cards :
            /\ LiveCodes(c) = {} => OfferNow(c) = None
            /\ \A k \in LiveCodes(c) : /\ LiveCodes(c) = {k}
                                       /\ OfferNow(c) = codes[k].need
                                       /\ OfferNow(c) # None)'
BY OfferValue, PTL

\* A card has as many marks as punches: single use makes receipts distinct.
LEMMA EarnedCounted ==
    ASSUME TypeOK, SingleUse, NEW c \in Cards
    PROVE  Cardinality(EarnedNow(c)) = Cardinality(Earned(c, card[c].cycle))
<1> DEFINE S == Earned(c, card[c].cycle)
           f == [i \in S |-> Fingerprint(c, events[i].receipt)]
<1>1. \A i, j \in S : f[i] = f[j] => i = j
  BY DEF Earned, SingleUse
<1>2. f \in Bijection(S, EarnedNow(c))
  <2>1. EarnedNow(c) = {f[i] : i \in S}
    BY DEF EarnedNow
  <2>2. f \in [S -> EarnedNow(c)] /\ \A e \in EarnedNow(c) : \E i \in S : f[i] = e
    BY <2>1
  <2>. HIDE DEF S, f
  <2>. QED
    BY <1>1, <2>2 DEF Bijection, Injection, Surjection, IsInjective
<1>3. IsFiniteSet(S)
  BY EarnedFinite
<1>. QED
  BY <1>2, <1>3, FS_Bijection DEF ExistsBijection

\* No punch of a cycle comes before the cycle does.
LEMMA NoEarlyPunch ==
    ASSUME TypeOK, NothingAhead, NEW c \in Cards
    PROVE  Earned(c, card[c].cycle + 1) = {}
<1>1. card[c].cycle \in Nat
  BY DEF TypeOK, CardRows
<1>2. ASSUME NEW i \in 1..Len(events), events[i].card = c, events[i].cycle = card[c].cycle + 1
      PROVE  FALSE
  <2>1. events[i].cycle <= card[c].cycle
    BY <1>2 DEF NothingAhead
  <2>. QED
    BY <1>1, <1>2, <2>1
<1>. QED
  BY <1>2 DEF Earned

-----------------------------------------------------------------------------
(* What each kind of step does to the rules' variables *)

\* A card that keeps its cycle and its events keeps its marks.
LEMMA EarnedNowKept ==
    ASSUME TypeOK, [Next]_vars, NEW c \in Cards, card'[c].cycle = card[c].cycle,
           \A n : Earned(c, n)' = Earned(c, n)
    PROVE  EarnedNow(c)' = EarnedNow(c)
<1>1. \A i \in 1..Len(events) : events'[i] = events[i]
  BY EventsKept
<1>2. \A i \in Earned(c, card[c].cycle) : events'[i] = events[i]
  BY <1>1 DEF Earned
<1>3. EarnedNow(c)' = {Fingerprint(c, events'[i].receipt) : i \in Earned(c, card[c].cycle)}
  BY DEF EarnedNow
<1>. QED
  BY <1>2, <1>3 DEF EarnedNow

\* An offer lasts as long as its live code.
LEMMA OfferKept ==
    ASSUME TypeOK, OnePendingCode, OnePendingCode', [Next]_vars, NEW c \in Cards,
           LiveCodes(c)' = LiveCodes(c)
    PROVE  OfferNow(c)' = OfferNow(c)
<1>0. TypeOK'
  BY TypeNext
<1>1. CASE LiveCodes(c) = {}
  BY <1>0, <1>1, OfferValue, OfferValueAfter
<1>2. ASSUME NEW k \in LiveCodes(c) PROVE OfferNow(c)' = OfferNow(c)
  <2>1. OfferNow(c) = codes[k].need /\ OfferNow(c)' = codes'[k].need
    BY <1>0, <1>2, OfferValue, OfferValueAfter
  <2>2. k \in 1..Len(codes)
    BY DEF LiveCodes, Pending
  <2>. QED
    BY <2>1, <2>2, CodesStep DEF SameIssue
<1>. QED
  BY <1>1, <1>2

\* Nothing a request does shows on another card.
LEMMA OtherCardsKept ==
    ASSUME TypeOK, SerialInv, SerialInv', [Next]_vars,
           NEW s \in Sessions, Begin(s) \/ Advance(s) \/ Crash(s),
           NEW c \in Cards, Busy(s) => req[s].card # c
    PROVE  /\ card'[c].cycle = card[c].cycle
           /\ EarnedNow(c)' = EarnedNow(c)
           /\ OfferNow(c)' = OfferNow(c)
           /\ Rewards(c)' = Rewards(c)
<1>1. /\ card'[c] = card[c] /\ \A n : Earned(c, n)' = Earned(c, n)
      /\ \A k \in 1..Len(codes) : codes[k].card = c => codes'[k] = codes[k]
      /\ Pending(c)' = Pending(c) /\ Rewards(c)' = Rewards(c)
  BY OtherCards DEF SerialInv
<1>2. LiveCodes(c)' = LiveCodes(c)
  <2>1. \A k \in Pending(c) : codes'[k] = codes[k]
    BY <1>1 DEF Pending
  <2>2. LiveCodes(c)' = {k \in Pending(c) : codes'[k].cycle = card[c].cycle}
    BY <1>1 DEF LiveCodes
  <2>. QED
    BY <2>1, <2>2 DEF LiveCodes
<1>. QED
  BY <1>1, <1>2, EarnedNowKept, OfferKept DEF SerialInv

\* Filing a verified event earns a punch with a mark nobody has used, and
\* filing a rejected one changes nothing.
LEMMA FileIsEarn ==
    ASSUME TypeOK, RowHeld, [Next]_vars, NEW s \in Sessions, FileEvent(s),
           NEW c, c = req[s].card, NEW m, m = Fingerprint(c, req[s].receipt)
    PROVE  \/ Spent' = Spent /\ \A d \in Cards : EarnedNow(d)' = EarnedNow(d)
           \/ /\ m \in MarksOf \ Spent
              /\ Spent' = Spent \cup {m}
              /\ EarnedNow(c)' = EarnedNow(c) \cup {m}
<1> DEFINE e == Filed(req[s])
           z == Len(events) + 1
<1>1. /\ req[s] \in Requests /\ c \in Cards /\ req[s].receipt \in Receipts
      /\ req[s].step = "file" /\ req[s].verdict # "none" /\ card' = card
      /\ req[s].cycle = card[c].cycle
  BY DEF FileEvent, TypeOK, Informed, RowHeld, Holding
<1>2. events \in Seq(Events) /\ Len(events) \in Nat
  BY LenProperties DEF TypeOK
<1>3. CASE events' = events
  BY <1>1, <1>3 DEF Spent, EarnedNow, Earned
<1>4. CASE events' = Append(events, e) /\ IndexAdmits(req[s])
  <2>1. /\ e.card = c /\ e.cycle = card[c].cycle /\ e.receipt = req[s].receipt
        /\ e.status = req[s].verdict /\ e.status \in {"verified", "rejected"}
    BY <1>1 DEF Filed, Requests
  <2>. HIDE DEF e
  <2>2. /\ Len(events') = z
        /\ \A i \in 1..Len(events) : events'[i] = events[i]
        /\ events'[z] = e
    BY <1>2, <1>4
  <2>3. /\ \A i : i \in 1..Len(events') <=> i \in 1..Len(events) \/ i = z
        /\ z \notin 1..Len(events)
    BY <1>2, <2>2
  <2>. HIDE DEF z
  <2>4. CASE e.status = "rejected"
    <3>1. \A d, n : Earned(d, n)' = Earned(d, n)
      BY <2>2, <2>3, <2>4 DEF Earned
    <3>2. Spent' = Spent
      BY <2>2, <2>3, <2>4 DEF Spent
    <3>3. \A d \in Cards : EarnedNow(d)' = EarnedNow(d)
      BY <1>1, <3>1, EarnedNowKept
    <3>. QED
      BY <3>2, <3>3
  <2>5. CASE e.status = "verified"
    <3>1. \A n : n = card[c].cycle => Earned(c, n)' = Earned(c, n) \cup {z}
      BY <2>1, <2>2, <2>3, <2>5 DEF Earned
    <3>2. \A i \in Earned(c, card[c].cycle) : events'[i] = events[i]
      BY <2>2 DEF Earned
    <3>3. EarnedNow(c)' = {Fingerprint(c, events'[i].receipt) :
                               i \in Earned(c, card[c].cycle) \cup {z}}
      BY <1>1, <3>1 DEF EarnedNow
    <3>4. Fingerprint(c, events'[z].receipt) = m
      BY <2>1, <2>2
    <3>5. EarnedNow(c)' = EarnedNow(c) \cup {m}
      <4>. QED
        BY <3>2, <3>3, <3>4 DEF EarnedNow
    <3>6. Spent' = Spent \cup {m}
      <4>1. Spent' = {Fingerprint(events'[i].card, events'[i].receipt) :
                         i \in {j \in 1..Len(events) : events[j].status = "verified"} \cup {z}}
        <5>1. {j \in 1..Len(events') : events'[j].status = "verified"}
                = {j \in 1..Len(events) : events[j].status = "verified"} \cup {z}
          BY <2>2, <2>3, <2>5
        <5>. QED
          BY <5>1 DEF Spent
      <4>2. Fingerprint(events'[z].card, events'[z].receipt) = m
        BY <2>1, <2>2
      <4>. QED
        BY <2>2, <4>1, <4>2 DEF Spent
    <3>7. m \notin Spent
      BY <1>4, <2>1, <2>5 DEF IndexAdmits
    <3>8. m \in MarksOf
      <4>1. c \in Users \X Venues
        BY <1>1 DEF Cards
      <4>. QED
        BY <1>1, <4>1 DEF MarksOf, Fingerprint, VenueOf, Owner
    <3>. QED
      BY <3>5, <3>6, <3>7, <3>8
  <2>. QED
    BY <2>1, <2>4, <2>5
<1>. QED
  BY <1>3, <1>4 DEF FileEvent

\* Retiring, lapsing and voiding can only take an offer away.
LEMMA CodesOnlyEnd ==
    ASSUME TypeOK, SerialInv, SerialInv', [Next]_vars, NEW s \in Sessions,
           RetireCodes(s) \/ LapseCode(s) \/ VoidCode(s), NEW c \in Cards
    PROVE  \/ OfferNow(c)' = OfferNow(c)
           \/ OfferNow(c) # None /\ OfferNow(c)' = None
<1>0. TypeOK' /\ Len(codes) \in Nat /\ Len(codes') = Len(codes) /\ card' = card
  BY TypeNext, LenProperties, RetireStep, RefuseStep DEF TypeOK, RetireCodes, LapseCode, VoidCode
<1>1. LiveCodes(c)' \subseteq LiveCodes(c)
  <2>1. ASSUME NEW k \in LiveCodes(c)' PROVE k \in LiveCodes(c)
    <3>1. k \in Pending(c)' /\ codes'[k].cycle = card[c].cycle /\ k \in 1..Len(codes)
      BY <1>0 DEF LiveCodes, Pending
    <3>2. k # Len(codes) + 1
      BY <1>0, <3>1
    <3>3. k \in Pending(c)
      BY <3>1, <3>2, PendingStep DEF SerialInv
    <3>. QED
      BY <3>1, <3>3, CodesStep DEF SameIssue, LiveCodes
  <2>. QED
    BY <2>1
<1>2. CASE LiveCodes(c)' = LiveCodes(c)
  BY <1>2, OfferKept DEF SerialInv
<1>3. CASE LiveCodes(c)' # LiveCodes(c)
  <2>1. PICK k \in LiveCodes(c) : k \notin LiveCodes(c)'
    BY <1>1, <1>3
  <2>2. LiveCodes(c) = {k} /\ OfferNow(c) # None
    BY OfferValue DEF SerialInv
  <2>3. LiveCodes(c)' = {}
    BY <1>1, <2>1, <2>2
  <2>. QED
    BY <1>0, <2>2, <2>3, OfferValueAfter DEF SerialInv
<1>. QED
  BY <1>2, <1>3

\* Minting offers a card's reward, which is not on offer and is earned.
LEMMA MintIsOffer ==
    ASSUME TypeOK, SingleUse, SerialInv, SerialInv', [Next]_vars,
           NEW s \in Sessions, MintCode(s), NEW c, c = req[s].card
    PROVE  /\ req[s].need \in Thresholds
           /\ OfferNow(c) = None /\ OfferNow(c)' = req[s].need
           /\ Cardinality(EarnedNow(c)) >= req[s].need
<1> DEFINE z == Len(codes) + 1
<1>1. /\ req[s] \in Requests /\ c \in Cards /\ req[s].step = "mint" /\ card' = card
      /\ req[s].cycle = card[c].cycle /\ TypeOK'
  BY TypeNext DEF MintCode, TypeOK, Informed, SerialInv, RowHeld, Holding
<1>2. /\ req[s].need \in Thresholds /\ Pending(c) = {}
      /\ req[s].need <= Cardinality(Earned(c, card[c].cycle))
  BY <1>1 DEF SerialInv, SerialKnows
<1>3. OfferNow(c) = None
  <2>1. LiveCodes(c) = {}
    BY <1>2 DEF LiveCodes
  <2>. QED
    BY <1>1, <2>1, OfferValue DEF SerialInv
<1>4. z \in LiveCodes(c)' /\ codes'[z].need = req[s].need
  BY <1>1, MintStep DEF LiveCodes, Pending
<1>5. OfferNow(c)' = req[s].need
  BY <1>1, <1>4, OfferValueAfter DEF SerialInv
<1>6. Cardinality(EarnedNow(c)) >= req[s].need
  <2>1. Cardinality(EarnedNow(c)) = Cardinality(Earned(c, card[c].cycle))
    BY <1>1, EarnedCounted
  <2>2. Cardinality(Earned(c, card[c].cycle)) \in Nat /\ req[s].need \in Int
    BY <1>1, EarnedFinite DEF Requests
  <2>. QED
    BY <1>2, <2>1, <2>2
<1>. QED
  BY <1>2, <1>3, <1>5, <1>6

\* A redemption claims the reward on offer and starts an empty cycle.
LEMMA HonourIsClaim ==
    ASSUME TypeOK, SerialInv, SerialInv', [Next]_vars, NEW s \in Sessions, Honour(s),
           NEW c, c = req[s].card
    PROVE  /\ OfferNow(c) # None /\ OfferNow(c)' = None
           /\ card'[c].cycle = card[c].cycle + 1
           /\ EarnedNow(c)' = {}
           /\ Cardinality(Rewards(c)') = Cardinality(Rewards(c)) + 1
<1> DEFINE k == req[s].code
<1>1. /\ req[s] \in Requests /\ c \in Cards /\ req[s].step = "honour"
      /\ k \in 1..Len(codes) /\ TypeOK' /\ events' = events
  BY HonourStep, TypeNext DEF Honour
<1>2. card[c].cycle \in Nat /\ card'[c].cycle = card[c].cycle + 1
  BY <1>1, CountStep DEF SerialInv, TypeOK, CardRows
<1>3. k \in LiveCodes(c)
  <2>1. codes[k].status = "pending"
    BY <1>1 DEF SerialInv, SerialKnows, Scanning
  <2>2. codes[k].card = c /\ codes[k].cycle = req[s].cycle
    BY <1>1 DEF SerialInv, ScanKnows, Scanning
  <2>3. req[s].cycle = card[c].cycle
    BY <1>1 DEF SerialInv, RowHeld, Holding
  <2>. QED
    BY <1>1, <2>1, <2>2, <2>3 DEF LiveCodes, Pending
<1>4. OfferNow(c) # None
  BY <1>1, <1>3, OfferValue DEF SerialInv
<1>5. LiveCodes(c)' = {}
  <2>1. ASSUME NEW j \in LiveCodes(c)' PROVE FALSE
    <3>1. /\ j \in 1..Len(codes') /\ codes'[j].card = c /\ codes'[j].cycle = card[c].cycle + 1
      BY <1>2 DEF LiveCodes, Pending
    <3>2. j \in 1..Len(codes)
      BY <3>1, HonourWrites
    <3>3. codes[j].card = c /\ codes[j].cycle = card[c].cycle + 1
      BY <3>1, <3>2, CodesStep DEF SameIssue
    <3>4. codes[j].cycle <= card[c].cycle
      BY <3>2, <3>3 DEF SerialInv, NothingAhead
    <3>. QED
      BY <1>2, <3>3, <3>4
  <2>. QED
    BY <2>1
<1>6. OfferNow(c)' = None
  BY <1>1, <1>5, OfferValueAfter DEF SerialInv
<1>7. EarnedNow(c)' = {}
  <2>1. Earned(c, card[c].cycle + 1) = {}
    BY <1>1, NoEarlyPunch DEF SerialInv
  <2>2. \A n : Earned(c, n)' = Earned(c, n)
    BY <1>1 DEF Earned
  <2>3. EarnedNow(c)' = {Fingerprint(c, events'[i].receipt) : i \in Earned(c, card[c].cycle + 1)}
    BY <1>2, <2>2 DEF EarnedNow
  <2>. QED
    BY <2>1, <2>3
<1>8. Cardinality(Rewards(c)') = Cardinality(Rewards(c)) + 1
  <2> DEFINE z == Len(redemptions) + 1
  <2>1. /\ Len(redemptions) \in Nat /\ Len(redemptions') = z
        /\ \A i \in 1..Len(redemptions) : redemptions'[i] = redemptions[i]
        /\ redemptions'[z].card = c
    BY <1>1, HonourWrites
  <2>2. /\ \A i : i \in 1..Len(redemptions') <=> i \in 1..Len(redemptions) \/ i = z
        /\ z \notin 1..Len(redemptions)
    BY <2>1
  <2>. HIDE DEF z
  <2>3. Rewards(c)' = Rewards(c) \cup {z} /\ z \notin Rewards(c)
    BY <2>1, <2>2 DEF Rewards
  <2>4. IsFiniteSet(Rewards(c))
    <3>1. IsFiniteSet(1..Len(redemptions)) /\ Rewards(c) \subseteq 1..Len(redemptions)
      BY <2>1, FS_Interval DEF Rewards
    <3>. QED
      BY <3>1, FS_Subset
  <2>. QED
    BY <2>3, <2>4, FS_AddElement
<1>. QED
  BY <1>2, <1>4, <1>6, <1>7, <1>8

-----------------------------------------------------------------------------
(* The refinement *)

\* Every step of the service is a step of the rules, on one card, or is not
\* seen by them.
LEMMA RulesStep ==
    ASSUME TypeOK, SingleUse, SerialInv, SerialInv', [Next]_vars
    PROVE  \/ UNCHANGED <<CycleOf, EarnedOf, OfferOf, ClaimsOf, Spent>>
           \/ \E c \in Cards :
                \/ \E m \in MarksOf :
                      /\ m \notin Spent /\ Spent' = Spent \cup {m}
                      /\ EarnedOf' = [EarnedOf EXCEPT ![c] = @ \cup {m}]
                      /\ UNCHANGED <<CycleOf, OfferOf, ClaimsOf>>
                \/ \E p \in Thresholds :
                      /\ OfferOf[c] = None /\ Cardinality(EarnedOf[c]) >= p
                      /\ OfferOf' = [OfferOf EXCEPT ![c] = p]
                      /\ UNCHANGED <<CycleOf, EarnedOf, ClaimsOf, Spent>>
                \/ /\ OfferOf[c] # None
                   /\ OfferOf' = [OfferOf EXCEPT ![c] = None]
                   /\ UNCHANGED <<CycleOf, EarnedOf, ClaimsOf, Spent>>
                \/ /\ OfferOf[c] # None
                   /\ ClaimsOf' = [ClaimsOf EXCEPT ![c] = @ + 1]
                   /\ CycleOf' = [CycleOf EXCEPT ![c] = @ + 1]
                   /\ EarnedOf' = [EarnedOf EXCEPT ![c] = {}]
                   /\ OfferOf' = [OfferOf EXCEPT ![c] = None]
                   /\ UNCHANGED Spent
<1> DEFINE Stutter == UNCHANGED <<CycleOf, EarnedOf, OfferOf, ClaimsOf, Spent>>
<1>1. CASE Around
  <2>1. card' = card /\ events' = events /\ codes' = codes /\ redemptions' = redemptions
    BY <1>1, AroundChangesLittle
  <2>2. Spent' = Spent /\ ClaimsOf' = ClaimsOf /\ CycleOf' = CycleOf
    BY <2>1 DEF Spent, ClaimsOf, CycleOf, Rewards
  <2>3. \A c \in Cards : EarnedNow(c)' = EarnedNow(c) /\ OfferNow(c)' = OfferNow(c)
    <3>1. \A c, n : Earned(c, n)' = Earned(c, n)
      BY <2>1 DEF Earned
    <3>2. \A c : LiveCodes(c)' = LiveCodes(c)
      BY <2>1 DEF LiveCodes, Pending
    <3>. QED
      BY <2>1, <3>1, <3>2, EarnedNowKept, OfferKept DEF SerialInv
  <2>4. EarnedOf' = EarnedOf /\ OfferOf' = OfferOf
    BY <2>3 DEF EarnedOf, OfferOf
  <2>. QED
    BY <2>2, <2>4
<1>2. ASSUME NEW s \in Sessions, Begin(s) \/ Advance(s) \/ Crash(s),
             ~\E c \in Cards : Busy(s) /\ req[s].card = c
      PROVE  Stutter
  <2>1. ~Busy(s)
    BY <1>2 DEF TypeOK, Informed, Busy
  <2>2. events' = events
    BY <1>2, <2>1, OwnWrites, WritersAreBusy
  <2>3. \A c \in Cards : /\ card'[c].cycle = card[c].cycle /\ EarnedNow(c)' = EarnedNow(c)
                         /\ OfferNow(c)' = OfferNow(c) /\ Rewards(c)' = Rewards(c)
    BY <1>2, <2>1, OtherCardsKept
  <2>. QED
    BY <2>2, <2>3 DEF Spent, CycleOf, EarnedOf, OfferOf, ClaimsOf
<1>3. ASSUME NEW s \in Sessions, Begin(s) \/ Advance(s) \/ Crash(s),
             NEW c \in Cards, Busy(s), req[s].card = c
      PROVE  \/ Stutter
             \/ \E m \in MarksOf :
                   /\ m \notin Spent /\ Spent' = Spent \cup {m}
                   /\ EarnedOf' = [EarnedOf EXCEPT ![c] = @ \cup {m}]
                   /\ UNCHANGED <<CycleOf, OfferOf, ClaimsOf>>
             \/ \E p \in Thresholds :
                   /\ OfferOf[c] = None /\ Cardinality(EarnedOf[c]) >= p
                   /\ OfferOf' = [OfferOf EXCEPT ![c] = p]
                   /\ UNCHANGED <<CycleOf, EarnedOf, ClaimsOf, Spent>>
             \/ /\ OfferOf[c] # None
                /\ OfferOf' = [OfferOf EXCEPT ![c] = None]
                /\ UNCHANGED <<CycleOf, EarnedOf, ClaimsOf, Spent>>
             \/ /\ OfferOf[c] # None
                /\ ClaimsOf' = [ClaimsOf EXCEPT ![c] = @ + 1]
                /\ CycleOf' = [CycleOf EXCEPT ![c] = @ + 1]
                /\ EarnedOf' = [EarnedOf EXCEPT ![c] = {}]
                /\ OfferOf' = [OfferOf EXCEPT ![c] = None]
                /\ UNCHANGED Spent
  <2>1. \A d \in Cards : d # c =>
           /\ card'[d].cycle = card[d].cycle /\ EarnedNow(d)' = EarnedNow(d)
           /\ OfferNow(d)' = OfferNow(d) /\ Rewards(d)' = Rewards(d)
    BY <1>3, OtherCardsKept
  <2>2. ASSUME NEW x, card'[c].cycle = x
        PROVE  CycleOf' = [CycleOf EXCEPT ![c] = x]
    BY <2>1, <2>2 DEF CycleOf
  <2>3. ASSUME NEW x, EarnedNow(c)' = x
        PROVE  EarnedOf' = [EarnedOf EXCEPT ![c] = x]
    BY <2>1, <2>3 DEF EarnedOf
  <2>4. ASSUME NEW x, OfferNow(c)' = x
        PROVE  OfferOf' = [OfferOf EXCEPT ![c] = x]
    BY <2>1, <2>4 DEF OfferOf
  <2>5. ASSUME NEW x, Cardinality(Rewards(c)') = x
        PROVE  ClaimsOf' = [ClaimsOf EXCEPT ![c] = x]
    BY <2>1, <2>5 DEF ClaimsOf
  <2>6. /\ CycleOf[c] = card[c].cycle /\ EarnedOf[c] = EarnedNow(c)
        /\ OfferOf[c] = OfferNow(c) /\ ClaimsOf[c] = Cardinality(Rewards(c))
        /\ [CycleOf EXCEPT ![c] = CycleOf[c]] = CycleOf
        /\ [EarnedOf EXCEPT ![c] = EarnedOf[c]] = EarnedOf
        /\ [OfferOf EXCEPT ![c] = OfferOf[c]] = OfferOf
        /\ [ClaimsOf EXCEPT ![c] = ClaimsOf[c]] = ClaimsOf
    BY DEF CycleOf, EarnedOf, OfferOf, ClaimsOf
  <2>7. ~Honour(s) => card'[c].cycle = card[c].cycle
    <3>1. BankPunch(s) => card'[c].cycle = card[c].cycle
      BY <1>3, CountStep DEF SerialInv
    <3>. QED
      BY <1>3, <3>1, OwnWrites
  <2>8. ~FileEvent(s) /\ ~Honour(s) => EarnedNow(c)' = EarnedNow(c) /\ Spent' = Spent
    <3>. SUFFICES ASSUME ~FileEvent(s), ~Honour(s)
                  PROVE  EarnedNow(c)' = EarnedNow(c) /\ Spent' = Spent
      OBVIOUS
    <3>1. events' = events
      BY <1>3, OwnWrites
    <3>2. \A n : Earned(c, n)' = Earned(c, n)
      BY <3>1 DEF Earned
    <3>. QED
      BY <2>7, <3>1, <3>2, EarnedNowKept DEF Spent
  <2>9. ~Honour(s) => Rewards(c)' = Rewards(c)
    BY <1>3, OwnWrites DEF Rewards
  <2>10. ASSUME codes' = codes, ~Honour(s) PROVE OfferNow(c)' = OfferNow(c)
    <3>1. LiveCodes(c)' = LiveCodes(c)
      BY <2>7, <2>10 DEF LiveCodes, Pending
    <3>. QED
      BY <3>1, OfferKept DEF SerialInv
  <2>11. CASE Honour(s)
    <3>1. /\ OfferNow(c) # None /\ OfferNow(c)' = None
          /\ card'[c].cycle = card[c].cycle + 1
          /\ EarnedNow(c)' = {}
          /\ Cardinality(Rewards(c)') = Cardinality(Rewards(c)) + 1
      BY <1>3, <2>11, HonourIsClaim
    <3>2. events' = events
      BY <2>11 DEF Honour
    <3>3. /\ CycleOf' = [CycleOf EXCEPT ![c] = CycleOf[c] + 1]
          /\ ClaimsOf' = [ClaimsOf EXCEPT ![c] = ClaimsOf[c] + 1]
          /\ EarnedOf' = [EarnedOf EXCEPT ![c] = {}]
          /\ OfferOf' = [OfferOf EXCEPT ![c] = None]
      BY <2>2, <2>3, <2>4, <2>5, <2>6, <3>1
    <3>. QED
      BY <2>6, <3>1, <3>2, <3>3 DEF Spent
  <2>12. CASE FileEvent(s)
    <3>1. codes' = codes /\ ~Honour(s)
      BY <2>12 DEF FileEvent, Honour
    <3>2. UNCHANGED <<CycleOf, OfferOf, ClaimsOf>>
      BY <2>2, <2>4, <2>5, <2>6, <2>7, <2>9, <2>10, <3>1
    <3>3. PICK m : m = Fingerprint(c, req[s].receipt)
      OBVIOUS
    <3>4. CASE Spent' = Spent /\ \A d \in Cards : EarnedNow(d)' = EarnedNow(d)
      <4>1. EarnedOf' = EarnedOf
        BY <3>4 DEF EarnedOf
      <4>. QED
        BY <3>2, <3>4, <4>1
    <3>5. CASE /\ m \in MarksOf \ Spent
               /\ Spent' = Spent \cup {m}
               /\ EarnedNow(c)' = EarnedNow(c) \cup {m}
      <4>1. EarnedOf' = [EarnedOf EXCEPT ![c] = EarnedOf[c] \cup {m}]
        BY <2>3, <2>6, <3>5
      <4>. QED
        BY <3>2, <3>5, <4>1
    <3>. QED
      BY <1>3, <2>12, <3>3, <3>4, <3>5, FileIsEarn DEF SerialInv
  <2>13. CASE MintCode(s)
    <3>1. ~FileEvent(s) /\ ~Honour(s)
      BY <2>13 DEF FileEvent, Honour, MintCode
    <3>2. UNCHANGED <<CycleOf, EarnedOf, ClaimsOf, Spent>>
      BY <2>2, <2>3, <2>5, <2>6, <2>7, <2>8, <2>9, <3>1
    <3>3. /\ req[s].need \in Thresholds /\ OfferNow(c) = None /\ OfferNow(c)' = req[s].need
          /\ Cardinality(EarnedNow(c)) >= req[s].need
      BY <1>3, <2>13, MintIsOffer
    <3>. QED
      BY <2>4, <2>6, <3>2, <3>3
  <2>14. CASE RetireCodes(s) \/ LapseCode(s) \/ VoidCode(s)
    <3>1. ~FileEvent(s) /\ ~Honour(s)
      BY <2>14 DEF FileEvent, Honour, RetireCodes, LapseCode, VoidCode
    <3>2. UNCHANGED <<CycleOf, EarnedOf, ClaimsOf, Spent>>
      BY <2>2, <2>3, <2>5, <2>6, <2>7, <2>8, <2>9, <3>1
    <3>3. \/ OfferNow(c)' = OfferNow(c)
          \/ OfferNow(c) # None /\ OfferNow(c)' = None
      BY <2>14, CodesOnlyEnd
    <3>. QED
      BY <2>4, <2>6, <3>2, <3>3
  <2>15. CASE codes' = codes /\ ~FileEvent(s) /\ ~Honour(s)
    BY <2>2, <2>3, <2>4, <2>5, <2>6, <2>7, <2>8, <2>9, <2>10, <2>15
  <2>. QED
    BY <1>3, <2>11, <2>12, <2>13, <2>14, <2>15, OwnWrites
<1>. HIDE DEF Stutter
<1>4. ASSUME NEW s \in Sessions, Begin(s) \/ Advance(s) \/ Crash(s), ~Stutter
      PROVE  \E c \in Cards : Busy(s) /\ req[s].card = c
  BY <1>2, <1>4
<1>. QED
  BY <1>1, <1>3, <1>4, StepKinds DEF Stutter

\* On a host that runs one request per card at a time the service keeps the
\* rules of a punch card: a receipt is one punch, an offer is covered by the
\* punches of its cycle, a claim takes an offer and closes the cycle; and no
\* crash, expiry, retry or reissue is seen by them but as an offer withdrawn.
THEOREM ServiceKeepsTheRules ==
    ASSUME HostSerialises
    PROVE  Spec => ImplementsRules
<1>1. Init => Rules!Init
  <2>. SUFFICES ASSUME Init PROVE Rules!Init
    OBVIOUS
  <2>1. \A c \in Cards : /\ card[c].cycle = 1 /\ EarnedNow(c) = {} /\ OfferNow(c) = None
                         /\ Cardinality(Rewards(c)) = 0
    <3>1. \A c \in Cards : Earned(c, card[c].cycle) = {} /\ LiveCodes(c) = {} /\ Rewards(c) = {}
      BY DEF Init, Earned, LiveCodes, Pending, Rewards
    <3>. QED
      BY <3>1, FS_EmptySet DEF Init, EarnedNow, OfferNow
  <2>2. Spent = {}
    BY DEF Init, Spent
  <2>. QED
    BY <2>1, <2>2 DEF Rules!Init, EarnedNow, OfferNow
<1>2. TypeOK /\ SingleUse /\ SerialInv /\ SerialInv' /\ [Next]_vars => [Rules!Next]_Rules!vars
  <2>. SUFFICES ASSUME TypeOK, SingleUse, SerialInv, SerialInv', [Next]_vars
                PROVE  [Rules!Next]_Rules!vars
    OBVIOUS
  <2>. USE DEF CycleOf, EarnedOf, OfferOf, ClaimsOf, MarksOf, EarnedNow, OfferNow
  <2>1. ASSUME UNCHANGED <<CycleOf, EarnedOf, OfferOf, ClaimsOf, Spent>>
        PROVE  UNCHANGED Rules!vars
    BY <2>1 DEF Rules!vars
  <2>2. ASSUME NEW c \in Cards, NEW m \in MarksOf, m \notin Spent, Spent' = Spent \cup {m},
               EarnedOf' = [EarnedOf EXCEPT ![c] = @ \cup {m}],
               UNCHANGED <<CycleOf, OfferOf, ClaimsOf>>
        PROVE  Rules!Earn(c, m)
    BY <2>2 DEF Rules!Earn
  <2>3. ASSUME NEW c \in Cards, NEW p \in Thresholds, OfferOf[c] = None,
               Cardinality(EarnedOf[c]) >= p, OfferOf' = [OfferOf EXCEPT ![c] = p],
               UNCHANGED <<CycleOf, EarnedOf, ClaimsOf, Spent>>
        PROVE  Rules!Offer(c, p)
    <3>1. \A S : Rules!Cardinality(S) = Cardinality(S)
      BY Zenon DEF Rules!Cardinality, Cardinality
    <3>. QED
      BY <2>3, <3>1 DEF Rules!Offer
  <2>4. ASSUME NEW c \in Cards, OfferOf[c] # None, OfferOf' = [OfferOf EXCEPT ![c] = None],
               UNCHANGED <<CycleOf, EarnedOf, ClaimsOf, Spent>>
        PROVE  Rules!Withdraw(c)
    BY <2>4 DEF Rules!Withdraw
  <2>5. ASSUME NEW c \in Cards, OfferOf[c] # None,
               ClaimsOf' = [ClaimsOf EXCEPT ![c] = @ + 1],
               CycleOf' = [CycleOf EXCEPT ![c] = @ + 1],
               EarnedOf' = [EarnedOf EXCEPT ![c] = {}],
               OfferOf' = [OfferOf EXCEPT ![c] = None], UNCHANGED Spent
        PROVE  Rules!Claim(c)
    BY <2>5 DEF Rules!Claim
  <2>. HIDE DEF CycleOf, EarnedOf, OfferOf, ClaimsOf, EarnedNow, OfferNow
  <2>6. ASSUME NEW c \in Cards,
               \/ \E m \in MarksOf : Rules!Earn(c, m)
               \/ \E p \in Thresholds : Rules!Offer(c, p)
               \/ Rules!Withdraw(c)
               \/ Rules!Claim(c)
        PROVE  Rules!Next
    BY <2>6 DEF Rules!Next
  <2>7. UNCHANGED <<CycleOf, EarnedOf, OfferOf, ClaimsOf, Spent>> \/ Rules!Next
    BY <2>2, <2>3, <2>4, <2>5, <2>6, RulesStep
  <2>. QED
    BY <2>1, <2>7
<1>. QED
  BY <1>1, <1>2, SerialInvariant, ReceiptsAreSingleUse, PTL
  DEF Spec, ImplementsRules, Rules!Spec
=============================================================================
