---------------------------- MODULE RedemptionProofs ----------------------------
(***************************************************************************)
(* What RewardService guarantees of redemptions: with any interleaving, a  *)
(* reward is given only for the card, cycle, venue and time its code was   *)
(* issued for, leaves its mark on that code, and a scan is told that a     *)
(* code was redeemed only if it was.                                       *)
(***************************************************************************)
EXTENDS RewardServiceProofs

Scanning == {"lapse", "match", "void", "honour"}

\* What a scan in flight has established, and no other request can undo.
ScanKnows ==
    \A s \in Sessions :
        LET r == req[s] IN
        /\ r.step \in Scanning => codes[r.code].card = r.card
        /\ r.step \in {"match", "void", "honour"} => r.stamp < codes[r.code].expires
        /\ r.step = "honour" => /\ codes[r.code].cycle = r.cycle
                                /\ r.at \in {None, VenueOf(r.card)}

-----------------------------------------------------------------------------
(* Codes *)

\* Two states of one code: what it was issued for does not change.
SameIssue(a, b) ==
    a.card = b.card /\ a.cycle = b.cycle /\ a.expires = b.expires /\ a.need = b.need

LEMMA RedeemedOnly ==
    ASSUME NEW code \in Codes, NEW r
    PROVE  /\ SameIssue(Redeemed(r, code), code)
           /\ Redeemed(r, code).redeemedAt = r.stamp
           /\ Redeemed(r, code).status = "redeemed"
BY DEF SameIssue, Codes, Redeemed

\* No code disappears, and redeemed_at is only ever written by a redemption.
LEMMA CodesStep ==
    ASSUME TypeOK, [Next]_vars
    PROVE  /\ Len(codes) \in Nat /\ Len(codes') \in Nat /\ Len(codes') >= Len(codes)
           /\ \A k \in 1..Len(codes) :
                /\ SameIssue(codes'[k], codes[k])
                /\ \/ codes'[k].redeemedAt = codes[k].redeemedAt
                   \/ \E s \in Sessions : Honour(s) /\ req[s].code = k
<1> DEFINE Kept == /\ Len(codes') >= Len(codes)
                   /\ \A k \in 1..Len(codes) :
                        /\ SameIssue(codes'[k], codes[k])
                        /\ \/ codes'[k].redeemedAt = codes[k].redeemedAt
                           \/ \E s \in Sessions : Honour(s) /\ req[s].code = k
<1>1. codes \in Seq(Codes) /\ Len(codes) \in Nat /\ Len(codes') \in Nat
  <2>1. TypeOK'
    BY TypeNext
  <2>. QED
    BY <2>1, LenProperties DEF TypeOK
<1>2. \A k \in 1..Len(codes) : codes[k] \in Codes
  BY <1>1, ElementOfSeq
<1>3. CASE codes' = codes
  BY <1>1, <1>3 DEF SameIssue
<1>4. CASE Around
  BY <1>3, <1>4, AroundChangesLittle
<1>5. ASSUME NEW s \in Sessions, Begin(s) \/ Crash(s) PROVE codes' = codes
  BY <1>5 DEF Begin, BeginView, BeginSubmit, BeginRecount, BeginShow, BeginScan, Crash
<1>6. ASSUME NEW s \in Sessions, RetireCodes(s) PROVE Kept
  <2> DEFINE changed == req[s].held \ Newest(Reusable(req[s]))
  <2>1. codes' = [k \in 1..Len(codes) |->
                    IF k \in changed
                    THEN [codes[k] EXCEPT !.status = RetiredStatus(req[s], k)]
                    ELSE codes[k]]
    BY <1>6 DEF RetireCodes
  <2>. HIDE DEF changed
  <2>2. Len(codes') = Len(codes)
    BY <1>1, <2>1
  <2>3. ASSUME NEW k \in 1..Len(codes)
        PROVE  codes'[k] = codes[k] \/
               codes'[k] = [codes[k] EXCEPT !.status = RetiredStatus(req[s], k)]
    BY <2>1
  <2>4. ASSUME NEW k \in 1..Len(codes)
        PROVE  SameIssue(codes'[k], codes[k]) /\ codes'[k].redeemedAt = codes[k].redeemedAt
    <3>1. CASE codes'[k] = codes[k]
      BY <3>1 DEF SameIssue
    <3>2. CASE codes'[k] = [codes[k] EXCEPT !.status = RetiredStatus(req[s], k)]
      BY <1>2, <3>2 DEF SameIssue, Codes
    <3>. QED
      BY <2>3, <3>1, <3>2
  <2>. QED
    BY <1>1, <2>2, <2>4
<1>7. ASSUME NEW s \in Sessions, MintCode(s) PROVE Kept
  <2>1. PICK e : codes' = Append(codes, e)
    BY <1>7 DEF MintCode
  <2>2. Len(codes') = Len(codes) + 1 /\ \A k \in 1..Len(codes) : codes'[k] = codes[k]
    BY <1>1, <2>1
  <2>. QED
    BY <1>1, <2>2 DEF SameIssue
<1>8. ASSUME NEW s \in Sessions, NEW status, codes' = [codes EXCEPT ![req[s].code].status = status]
      PROVE  Kept
  <2>1. Len(codes') = Len(codes)
    BY <1>1, <1>8
  <2>2. ASSUME NEW k \in 1..Len(codes)
        PROVE  codes'[k] = codes[k] \/ codes'[k] = [codes[k] EXCEPT !.status = status]
    BY <1>1, <1>8
  <2>3. ASSUME NEW k \in 1..Len(codes)
        PROVE  SameIssue(codes'[k], codes[k]) /\ codes'[k].redeemedAt = codes[k].redeemedAt
    <3>1. CASE codes'[k] = codes[k]
      BY <3>1 DEF SameIssue
    <3>2. CASE codes'[k] = [codes[k] EXCEPT !.status = status]
      BY <1>2, <3>2 DEF SameIssue, Codes
    <3>. QED
      BY <2>2, <3>1, <3>2
  <2>. QED
    BY <1>1, <2>1, <2>3
<1>9. ASSUME NEW s \in Sessions, Honour(s) PROVE Kept
  <2>1. codes' = [codes EXCEPT ![req[s].code] = Redeemed(req[s], codes[req[s].code])]
    BY <1>1, <1>9 DEF Honour
  <2>2. Len(codes') = Len(codes)
    BY <1>1, <2>1
  <2>3. ASSUME NEW k \in 1..Len(codes)
        PROVE  codes'[k] = codes[k] \/ (k = req[s].code /\ codes'[k] = Redeemed(req[s], codes[k]))
    BY <1>1, <2>1
  <2>4. ASSUME NEW k \in 1..Len(codes)
        PROVE  /\ SameIssue(codes'[k], codes[k])
               /\ codes'[k].redeemedAt = codes[k].redeemedAt \/ req[s].code = k
    <3>1. CASE codes'[k] = codes[k]
      BY <3>1 DEF SameIssue
    <3>2. CASE req[s].code = k /\ codes'[k] = Redeemed(req[s], codes[k])
      BY <1>2, <3>2, RedeemedOnly
    <3>. QED
      BY <2>3, <3>1, <3>2
  <2>. QED
    BY <1>1, <1>9, <2>2, <2>4
<1>10. ASSUME NEW s \in Sessions, Advance(s) PROVE Kept
  <2>1. CASE RetireCodes(s) \/ MintCode(s) \/ Honour(s)
    BY <1>6, <1>7, <1>9, <2>1
  <2>2. CASE LapseCode(s) \/ VoidCode(s)
    BY <1>8, <2>2 DEF LapseCode, VoidCode
  <2>3. CASE ~(RetireCodes(s) \/ MintCode(s) \/ Honour(s) \/ LapseCode(s) \/ VoidCode(s))
    <3>1. codes' = codes
      BY <1>10, <2>3 DEF Advance, FindCard, OpenCard, Verify, CheckDuplicate, FileEvent,
         CountPunches, BankPunch, ReadPending, MatchCard, Respond
    <3>. QED
      BY <1>3, <3>1
  <2>. QED
    BY <2>1, <2>2, <2>3
<1>. QED
  BY <1>1, <1>3, <1>4, <1>5, <1>10, StepKinds

-----------------------------------------------------------------------------
(* Scans in flight *)

\* Only a scan's own steps bring a request to where it works on a code.
LEMMA ScanStep ==
    ASSUME TypeOK, NEW s \in Sessions, Begin(s) \/ Advance(s) \/ Crash(s),
           req'[s].step \in Scanning
    PROVE  \/ \E k \in 0..Len(codes), claimed, at \in Venues \cup {None} :
                BeginScan(s, k, claimed, at)
           \/ MatchCard(s)
<1>. USE DEF TypeOK, Scanning
<1>1. ASSUME NEW step, step \notin Scanning, Goto(s, step) PROVE FALSE
  BY <1>1 DEF Goto, Requests
<1>2. ASSUME NEW r, NEW a, req' = [req EXCEPT ![s] = Closed(r, a)] PROVE FALSE
  BY <1>2 DEF Closed, Bare
<1>3. CASE Begin(s)
  <2>1. ASSUME NEW c \in Cards, BeginView(s, c) \/ BeginRecount(s, c) \/ BeginShow(s, c)
        PROVE  FALSE
    <3>1. CASE BeginView(s, c)
      BY <3>1 DEF BeginView, Bare
    <3>2. CASE BeginRecount(s, c)
      BY <3>2 DEF BeginRecount, Bare
    <3>3. CASE BeginShow(s, c)
      BY <3>3 DEF BeginShow, Closed, Bare
    <3>. QED
      BY <2>1, <3>1, <3>2, <3>3
  <2>2. ASSUME NEW c \in Cards, NEW r \in Receipts, BeginSubmit(s, c, r)
        PROVE  FALSE
    BY <2>2 DEF BeginSubmit, Closed, Bare
  <2>. QED
    BY <1>3, <2>1, <2>2 DEF Begin
<1>4. CASE FindCard(s) \/ OpenCard(s)
  <2>1. Loaded(s, card[req[s].card]) \/ Goto(s, "insert") \/ Finish(s, "failed")
    BY <1>4 DEF FindCard, OpenCard
  <2>2. ASSUME Loaded(s, card[req[s].card]) PROVE FALSE
    BY <2>2 DEF Loaded, Closed, Bare, Requests
  <2>. QED
    BY <1>1, <1>2, <2>1, <2>2 DEF Finish
<1>5. CASE Verify(s)
  <2>1. ASSUME NEW v, req' = [req EXCEPT ![s].step = "dedupe", ![s].verdict = v]
        PROVE  FALSE
    BY <2>1 DEF Requests
  <2>. QED
    BY <1>2, <1>5, <2>1 DEF Verify, Finish
<1>6. CASE CheckDuplicate(s) \/ FileEvent(s)
  BY <1>1, <1>2, <1>6 DEF CheckDuplicate, FileEvent, Finish
<1>7. CASE CountPunches(s) \/ ReadPending(s)
  BY <1>7 DEF CountPunches, ReadPending, Requests
<1>8. CASE BankPunch(s) \/ LapseCode(s) \/ VoidCode(s) \/ Honour(s)
  BY <1>2, <1>8 DEF BankPunch, LapseCode, VoidCode, Honour, Finish
<1>9. CASE RetireCodes(s) \/ MintCode(s)
  BY <1>1, <1>2, <1>9 DEF RetireCodes, MintCode
<1>10. CASE Respond(s) \/ Crash(s)
  BY <1>10 DEF Respond, Crash, Idle, Bare
<1>. QED
  BY <1>3, <1>4, <1>5, <1>6, <1>7, <1>8, <1>9, <1>10 DEF Advance

LEMMA ScanKnowsInit == Init => ScanKnows
BY DEF Init, ScanKnows, Scanning, Idle, Bare

LEMMA ScanKnowsNext ==
    ASSUME TypeOK, ScanKnows, [Next]_vars
    PROVE  ScanKnows'
<1> DEFINE Knows(r, C) ==
             /\ r.step \in Scanning => C[r.code].card = r.card
             /\ r.step \in {"match", "void", "honour"} => r.stamp < C[r.code].expires
             /\ r.step = "honour" => /\ C[r.code].cycle = r.cycle
                                     /\ r.at \in {None, VenueOf(r.card)}
<1>. SUFFICES ASSUME NEW t \in Sessions PROVE Knows(req'[t], codes')
  BY DEF ScanKnows
<1>1. /\ req[t] \in Requests /\ Informed(req[t], Len(codes)) /\ Knows(req[t], codes)
  BY DEF TypeOK, ScanKnows
<1>2. CASE req'[t] = req[t]
  <2>1. CASE req[t].step \in Scanning
    <3>1. req[t].code \in 1..Len(codes)
      BY <1>1, <2>1 DEF Informed, Scanning
    <3>2. SameIssue(codes'[req[t].code], codes[req[t].code])
      BY <3>1, CodesStep
    <3>. QED
      BY <1>1, <1>2, <3>2 DEF SameIssue
  <2>2. CASE req[t].step \notin Scanning
    BY <1>2, <2>2 DEF Scanning
  <2>. QED
    BY <2>1, <2>2
<1>3. CASE req'[t].step \notin Scanning
  BY <1>3 DEF Scanning
<1>4. ASSUME NEW k \in 0..Len(codes), NEW claimed \in Venues \cup {None},
             NEW at \in Venues \cup {None}, BeginScan(t, k, claimed, at),
             req'[t].step \in Scanning
      PROVE  Knows(req'[t], codes')
  <2> DEFINE verdict == ScanVerdict(k, claimed, at)
             c == IF k \in 1..Len(codes) THEN codes[k].card ELSE None
             b == Bare("scan", verdict, "none", c, None, k)
             q == [b EXCEPT !.stamp = now, !.at = at]
  <2>1. codes' = codes
    BY <1>4 DEF BeginScan
  <2>2. req'[t] = q \/ req'[t] = Closed(b, verdict)
    BY <1>4 DEF BeginScan, TypeOK
  <2>3. req'[t] # Closed(b, verdict)
    BY <1>4 DEF Closed, Bare, Scanning
  <2>4. q.step = verdict /\ q.card = c /\ q.code = k /\ q.stamp = now
    BY DEF Bare
  <2>5. verdict \in {"lapse", "match"}
    <3>1. k \in 1..Len(codes) => codes[k] \in Codes
      BY ElementOfSeq DEF TypeOK
    <3>2. verdict \in Scanning
      BY <1>4, <2>2, <2>3, <2>4
    <3>. HIDE DEF q, b, c
    <3>. QED
      BY <3>1, <3>2 DEF ScanVerdict, SpentAnswer, Scanning, Codes
  <2>6. k \in 1..Len(codes) /\ (verdict = "match" => ~Lapsed(k))
    <3>1. k \in 1..Len(codes) => codes[k] \in Codes
      BY ElementOfSeq DEF TypeOK
    <3>. HIDE DEF q, b, c
    <3>. QED
      BY <2>5, <3>1 DEF ScanVerdict, SpentAnswer, Codes
  <2>7. codes[k] \in Codes
    BY <2>6, ElementOfSeq DEF TypeOK
  <2>8. verdict = "match" => now < codes[k].expires
    BY <2>6, <2>7 DEF Lapsed, Codes, TypeOK
  <2>9. req'[t] = q /\ c = codes[k].card
    BY <2>2, <2>3, <2>6
  <2>. HIDE DEF q, c, verdict
  <2>. QED
    BY <2>1, <2>4, <2>5, <2>8, <2>9
<1>5. ASSUME MatchCard(t) PROVE Knows(req'[t], codes')
  <2>1. /\ codes' = codes /\ req[t].step = "match"
        /\ codes[req[t].code].card = req[t].card
        /\ req[t].stamp < codes[req[t].code].expires
    BY <1>1, <1>5 DEF MatchCard, Scanning
  <2>2. CASE Finish(t, "wrong_venue")
    BY <2>2 DEF Finish, Closed, Bare, TypeOK, Scanning
  <2>3. CASE Goto(t, "void")
    BY <1>1, <2>1, <2>3 DEF Goto, TypeOK, Requests
  <2>4. CASE /\ ~WrongVenue(req[t])
             /\ codes[req[t].code].cycle = card[req[t].card].cycle
             /\ req' = [req EXCEPT ![t].step = "honour", ![t].cycle = card[req[t].card].cycle,
                                   ![t].count = card[req[t].card].count,
                                   ![t].need = program[VenueOf(req[t].card)].required]
    <3>1. /\ req'[t].cycle = codes[req[t].code].cycle /\ req'[t].code = req[t].code
          /\ req'[t].card = req[t].card /\ req'[t].stamp = req[t].stamp
          /\ req'[t].at = req[t].at
      BY <1>1, <2>4 DEF TypeOK, Requests
    <3>2. req[t].at \in {None, VenueOf(req[t].card)}
      BY <2>4 DEF WrongVenue
    <3>. QED
      BY <2>1, <3>1, <3>2
  <2>. QED
    BY <1>5, <2>2, <2>3, <2>4 DEF MatchCard
<1>6. CASE Around
  BY <1>2, <1>6, AroundChangesLittle
<1>7. ASSUME NEW s \in Sessions, Begin(s) \/ Advance(s) \/ Crash(s)
      PROVE  Knows(req'[t], codes')
  <2>1. CASE t # s
    BY <1>2, <1>7, <2>1, OthersUnchanged
  <2>2. CASE t = s
    BY <1>3, <1>4, <1>5, <1>7, <2>2, ScanStep
  <2>. QED
    BY <2>1, <2>2
<1>. QED
  BY <1>6, <1>7, StepKinds

-----------------------------------------------------------------------------
(* Redemptions *)

\* reward_redemptions only grows, by one row per redemption.
LEMMA RedemptionsStep ==
    ASSUME TypeOK, [Next]_vars
    PROVE  \/ redemptions' = redemptions
           \/ \E s \in Sessions :
                /\ Honour(s)
                /\ redemptions' = Append(redemptions,
                       [card |-> req[s].card, code |-> req[s].code, cycle |-> req[s].cycle,
                        required |-> req[s].need, at |-> req[s].at])
<1>1. CASE Around
  BY <1>1, AroundChangesLittle
<1>2. ASSUME NEW s \in Sessions, Begin(s) \/ Crash(s) PROVE redemptions' = redemptions
  BY <1>2 DEF Begin, BeginView, BeginSubmit, BeginRecount, BeginShow, BeginScan, Crash
<1>3. ASSUME NEW s \in Sessions, Advance(s), ~Honour(s) PROVE redemptions' = redemptions
  BY <1>3 DEF Advance, FindCard, OpenCard, Verify, CheckDuplicate, FileEvent, CountPunches,
     BankPunch, ReadPending, RetireCodes, MintCode, LapseCode, MatchCard, VoidCode, Respond
<1>4. ASSUME NEW s \in Sessions, Honour(s)
      PROVE  redemptions' = Append(redemptions,
                 [card |-> req[s].card, code |-> req[s].code, cycle |-> req[s].cycle,
                  required |-> req[s].need, at |-> req[s].at])
  BY <1>4 DEF Honour
<1>. QED
  BY <1>1, <1>2, <1>3, <1>4, StepKinds

\* What a redemption commits, in terms of the rows it touches.
LEMMA HonourStep ==
    ASSUME TypeOK, NEW s \in Sessions, Honour(s)
    PROVE  /\ req[s] \in Requests /\ req[s].step = "honour"
           /\ req[s].card \in Cards /\ req[s].code \in 1..Len(codes)
           /\ codes'[req[s].code].redeemedAt = req[s].stamp
           /\ codes'[req[s].code].status = "redeemed"
<1>1. /\ req[s] \in Requests /\ req[s].step = "honour"
      /\ req[s].card \in Cards /\ req[s].code \in 1..Len(codes)
  BY DEF Honour, TypeOK, Informed
<1>2. codes \in Seq(Codes) /\ codes[req[s].code] \in Codes
  BY <1>1, ElementOfSeq DEF TypeOK
<1>3. codes'[req[s].code] = Redeemed(req[s], codes[req[s].code])
  BY <1>1, <1>2 DEF Honour
<1>. QED
  BY <1>1, <1>2, <1>3, RedeemedOnly

LEMMA HonouredNext ==
    ASSUME TypeOK, ScanKnows, HonouredAsIssued, [Next]_vars
    PROVE  HonouredAsIssued'
<1> DEFINE AsIssued(r, C) ==
             /\ r.code \in 1..Len(C)
             /\ C[r.code].card = r.card
             /\ C[r.code].cycle = r.cycle
             /\ C[r.code].redeemedAt < C[r.code].expires
             /\ r.at \in {None, VenueOf(r.card)}
<1>1. redemptions \in Seq(Redemptions) /\ Len(redemptions) \in Nat
  BY LenProperties DEF TypeOK
<1>2. ASSUME NEW i \in 1..Len(redemptions)
      PROVE  AsIssued(redemptions[i], codes')
  <2> DEFINE k == redemptions[i].code
  <2>1. AsIssued(redemptions[i], codes)
    BY DEF HonouredAsIssued
  <2>2. /\ k \in 1..Len(codes')
        /\ SameIssue(codes'[k], codes[k])
        /\ \/ codes'[k].redeemedAt = codes[k].redeemedAt
           \/ \E s \in Sessions : Honour(s) /\ req[s].code = k
    BY <2>1, CodesStep
  <2>3. ASSUME NEW s \in Sessions, Honour(s), req[s].code = k
        PROVE  codes'[k].redeemedAt < codes[k].expires
    BY <2>3, HonourStep DEF ScanKnows
  <2>. QED
    BY <2>1, <2>2, <2>3 DEF SameIssue
<1>3. CASE redemptions' = redemptions
  BY <1>2, <1>3 DEF HonouredAsIssued
<1>4. ASSUME NEW s \in Sessions, Honour(s),
             NEW e, e = [card |-> req[s].card, code |-> req[s].code, cycle |-> req[s].cycle,
                         required |-> req[s].need, at |-> req[s].at],
             redemptions' = Append(redemptions, e)
      PROVE  HonouredAsIssued'
  <2>1. /\ Len(redemptions') = Len(redemptions) + 1
        /\ \A i \in 1..Len(redemptions) : redemptions'[i] = redemptions[i]
        /\ redemptions'[Len(redemptions) + 1] = e
    BY <1>1, <1>4
  <2>2. AsIssued(e, codes')
    <3> DEFINE k == req[s].code
    <3>1. /\ k \in 1..Len(codes) /\ codes'[k].redeemedAt = req[s].stamp
          /\ req[s].step = "honour"
      BY <1>4, HonourStep
    <3>2. /\ codes[k].card = req[s].card /\ codes[k].cycle = req[s].cycle
          /\ req[s].stamp < codes[k].expires /\ req[s].at \in {None, VenueOf(req[s].card)}
      BY <3>1 DEF ScanKnows, Scanning
    <3>3. k \in 1..Len(codes') /\ SameIssue(codes'[k], codes[k])
      BY <3>1, CodesStep
    <3>. QED
      BY <1>4, <3>1, <3>2, <3>3 DEF SameIssue
  <2>3. \A i \in 1..Len(redemptions') : i \in 1..Len(redemptions) \/ i = Len(redemptions) + 1
    BY <1>1, <2>1
  <2>. QED
    BY <1>2, <2>1, <2>2, <2>3 DEF HonouredAsIssued
<1>. QED
  BY <1>3, <1>4, RedemptionsStep

\* Whatever else is in flight, a reward is handed over for a code of that card
\* and cycle, before its deadline and at the card's own venue.
THEOREM RewardsAreHonouredAsIssued == Spec => []HonouredAsIssued
<1>1. Init => ScanKnows /\ HonouredAsIssued
  BY ScanKnowsInit DEF Init, HonouredAsIssued
<1>2. TypeOK /\ ScanKnows /\ HonouredAsIssued /\ [Next]_vars => ScanKnows' /\ HonouredAsIssued'
  BY ScanKnowsNext, HonouredNext
<1>. QED
  BY <1>1, <1>2, TypeCorrect, PTL DEF Spec
-----------------------------------------------------------------------------
(* Codes and the redemptions that used them *)

\* The requests that write reward_redemption_codes.
LEMMA CodesWriters ==
    ASSUME [Next]_vars
    PROVE  \/ codes' = codes
           \/ \E s \in Sessions : \/ RetireCodes(s) \/ MintCode(s) \/ LapseCode(s)
                                  \/ VoidCode(s) \/ Honour(s)
<1>1. CASE Around
  BY <1>1, AroundChangesLittle
<1>2. ASSUME NEW s \in Sessions, Begin(s) \/ Crash(s) PROVE codes' = codes
  BY <1>2 DEF Begin, BeginView, BeginSubmit, BeginRecount, BeginShow, BeginScan, Crash
<1>3. ASSUME NEW s \in Sessions, Advance(s)
      PROVE  \/ codes' = codes
             \/ RetireCodes(s) \/ MintCode(s) \/ LapseCode(s) \/ VoidCode(s) \/ Honour(s)
  BY <1>3 DEF Advance, FindCard, OpenCard, Verify, CheckDuplicate, FileEvent, CountPunches,
     BankPunch, ReadPending, MatchCard, Respond
<1>. QED
  BY <1>1, <1>2, <1>3, StepKinds

\* What retiring writes: another status than redeemed, on the codes it selected
\* and does not keep.
LEMMA RetireStep ==
    ASSUME TypeOK, NEW s \in Sessions, RetireCodes(s)
    PROVE  /\ Len(codes') = Len(codes)
           /\ \A k \in 1..Len(codes) :
                IF k \in req[s].held \ Newest(Reusable(req[s]))
                THEN /\ codes'[k] = [codes[k] EXCEPT !.status = RetiredStatus(req[s], k)]
                     /\ codes'[k].status = RetiredStatus(req[s], k)
                     /\ codes'[k].redeemedAt = codes[k].redeemedAt
                ELSE codes'[k] = codes[k]
<1>1. codes \in Seq(Codes) /\ Len(codes) \in Nat /\ \A k \in 1..Len(codes) : codes[k] \in Codes
  BY LenProperties, ElementOfSeq DEF TypeOK
<1> DEFINE changed == req[s].held \ Newest(Reusable(req[s]))
<1>2. codes' = [k \in 1..Len(codes) |->
                  IF k \in changed
                  THEN [codes[k] EXCEPT !.status = RetiredStatus(req[s], k)]
                  ELSE codes[k]]
  BY DEF RetireCodes
<1>. HIDE DEF changed
<1>3. Len(codes') = Len(codes)
  BY <1>1, <1>2
<1>4. ASSUME NEW k \in 1..Len(codes), NEW status
      PROVE  /\ [codes[k] EXCEPT !.status = status].status = status
             /\ [codes[k] EXCEPT !.status = status].redeemedAt = codes[k].redeemedAt
  BY <1>1 DEF Codes
<1>5. \A k \in 1..Len(codes) :
          IF k \in changed
          THEN /\ codes'[k] = [codes[k] EXCEPT !.status = RetiredStatus(req[s], k)]
               /\ codes'[k].status = RetiredStatus(req[s], k)
               /\ codes'[k].redeemedAt = codes[k].redeemedAt
          ELSE codes'[k] = codes[k]
  BY <1>2, <1>4
<1>. QED
  BY <1>3, <1>5 DEF changed

\* What a scan writes on a code it refuses.
LEMMA RefuseStep ==
    ASSUME TypeOK, NEW s \in Sessions, LapseCode(s) \/ VoidCode(s)
    PROVE  /\ Len(codes') = Len(codes) /\ req[s].code \in 1..Len(codes)
           /\ codes'[req[s].code].status = IF LapseCode(s) THEN "expired" ELSE "invalidated"
           /\ codes'[req[s].code].redeemedAt = codes[req[s].code].redeemedAt
           /\ \A k \in 1..Len(codes) : k # req[s].code => codes'[k] = codes[k]
<1>1. codes \in Seq(Codes) /\ Len(codes) \in Nat /\ \A k \in 1..Len(codes) : codes[k] \in Codes
  BY LenProperties, ElementOfSeq DEF TypeOK
<1>2. req[s].code \in 1..Len(codes)
  BY DEF LapseCode, VoidCode, TypeOK, Informed
<1>3. ASSUME NEW status, codes' = [codes EXCEPT ![req[s].code].status = status]
      PROVE  /\ Len(codes') = Len(codes)
             /\ codes'[req[s].code].status = status
             /\ codes'[req[s].code].redeemedAt = codes[req[s].code].redeemedAt
             /\ \A k \in 1..Len(codes) : k # req[s].code => codes'[k] = codes[k]
  <2>1. Len(codes') = Len(codes)
    BY <1>1, <1>3
  <2>2. codes[req[s].code] \in Codes
    BY <1>1, <1>2
  <2>3. codes'[req[s].code] = [codes[req[s].code] EXCEPT !.status = status]
    BY <1>1, <1>2, <1>3
  <2>4. \A k \in 1..Len(codes) : k # req[s].code => codes'[k] = codes[k]
    BY <1>1, <1>3
  <2>. QED
    BY <2>1, <2>2, <2>3, <2>4 DEF Codes
<1>4. CASE LapseCode(s)
  BY <1>2, <1>3, <1>4 DEF LapseCode
<1>5. CASE ~LapseCode(s)
  BY <1>2, <1>3, <1>5 DEF VoidCode, VoidStatus
<1>. QED
  BY <1>4, <1>5

\* What minting writes.
LEMMA MintStep ==
    ASSUME TypeOK, NEW s \in Sessions, MintCode(s)
    PROVE  /\ Len(codes) \in Nat /\ Len(codes') = Len(codes) + 1
           /\ \A k \in 1..Len(codes) : codes'[k] = codes[k]
           /\ LET new == codes'[Len(codes) + 1]
              IN  /\ new.card = req[s].card /\ new.cycle = req[s].cycle
                  /\ new.need = req[s].need /\ new.status = "pending"
                  /\ new.redeemedAt = None
<1> DEFINE e == [card |-> req[s].card, cycle |-> req[s].cycle, need |-> req[s].need,
                 expires |-> req[s].stamp + TTL, status |-> "pending", redeemedAt |-> None]
<1>1. codes \in Seq(Codes) /\ Len(codes) \in Nat
  BY LenProperties DEF TypeOK
<1>2. codes' = Append(codes, e)
  BY DEF MintCode
<1>3. /\ e.card = req[s].card /\ e.cycle = req[s].cycle /\ e.need = req[s].need
      /\ e.status = "pending" /\ e.redeemedAt = None
  OBVIOUS
<1>. HIDE DEF e
<1>4. /\ Len(codes') = Len(codes) + 1
      /\ \A k \in 1..Len(codes) : codes'[k] = codes[k]
      /\ codes'[Len(codes) + 1] = e
  BY <1>1, <1>2
<1>. QED
  BY <1>1, <1>3, <1>4

\* What a redemption writes on codes other than its own, and in the history.
LEMMA HonourWrites ==
    ASSUME TypeOK, NEW s \in Sessions, Honour(s)
    PROVE  /\ Len(codes') = Len(codes)
           /\ \A k \in 1..Len(codes) : k # req[s].code => codes'[k] = codes[k]
           /\ Len(redemptions) \in Nat /\ Len(redemptions') = Len(redemptions) + 1
           /\ \A i \in 1..Len(redemptions) : redemptions'[i] = redemptions[i]
           /\ LET new == redemptions'[Len(redemptions) + 1]
              IN  new.card = req[s].card /\ new.code = req[s].code /\ new.cycle = req[s].cycle
<1> DEFINE e == [card |-> req[s].card, code |-> req[s].code, cycle |-> req[s].cycle,
                 required |-> req[s].need, at |-> req[s].at]
<1>1. /\ codes \in Seq(Codes) /\ redemptions \in Seq(Redemptions)
      /\ Len(codes) \in Nat /\ Len(redemptions) \in Nat
  BY LenProperties DEF TypeOK
<1>2. Len(codes') = Len(codes) /\ \A k \in 1..Len(codes) : k # req[s].code => codes'[k] = codes[k]
  BY <1>1 DEF Honour
<1>3. redemptions' = Append(redemptions, e)
  BY DEF Honour
<1>4. e.card = req[s].card /\ e.code = req[s].code /\ e.cycle = req[s].cycle
  OBVIOUS
<1>. HIDE DEF e
<1>5. /\ Len(redemptions') = Len(redemptions) + 1
      /\ \A i \in 1..Len(redemptions) : redemptions'[i] = redemptions[i]
      /\ redemptions'[Len(redemptions) + 1] = e
  BY <1>1, <1>3
<1>. QED
  BY <1>1, <1>2, <1>4, <1>5

\* A row of the history and the mark on its code are written together or not
\* at all.
LEMMA MarksNext ==
    ASSUME TypeOK, HonouredAsIssued, RedemptionMarksCode, [Next]_vars
    PROVE  RedemptionMarksCode'
<1> DEFINE Marked(k) == codes[k].redeemedAt # None
           Named(k) == \E i \in 1..Len(redemptions) : redemptions[i].code = k
<1>0. Len(codes) \in Nat /\ Len(redemptions) \in Nat
  BY LenProperties DEF TypeOK
<1>. SUFFICES ASSUME NEW k \in 1..Len(codes')
              PROVE  Marked(k)' <=> Named(k)'
  BY DEF RedemptionMarksCode
<1>1. k \in 1..Len(codes) => (Marked(k) <=> Named(k))
  BY DEF RedemptionMarksCode
<1>2. Named(k) => k \in 1..Len(codes)
  BY DEF HonouredAsIssued
<1>3. ASSUME NEW s \in Sessions, Honour(s) PROVE Marked(k)' <=> Named(k)'
  <2>1. Named(k)' <=> Named(k) \/ k = req[s].code
    <3> DEFINE n == Len(redemptions)
    <3>1. \A i : i \in 1..(n + 1) <=> i \in 1..n \/ i = n + 1
      BY <1>0
    <3>2. /\ Len(redemptions') = n + 1
          /\ \A i \in 1..n : redemptions'[i] = redemptions[i]
          /\ redemptions'[n + 1].code = req[s].code
      BY <1>3, HonourWrites
    <3>. HIDE DEF n
    <3>3. \A i \in 1..(n + 1) : redemptions'[i].code = k
             <=> (i \in 1..n /\ redemptions[i].code = k) \/ (i = n + 1 /\ req[s].code = k)
      BY <3>1, <3>2, <1>0 DEF n
    <3>. QED
      BY <3>1, <3>2, <3>3 DEF n
  <2>2. CASE k = req[s].code
    <3>1. req[s].stamp \in Nat /\ codes'[k].redeemedAt = req[s].stamp
      BY <1>3, <2>2, HonourStep DEF Requests
    <3>. QED
      BY <2>1, <2>2, <3>1, NoneAssumption
  <2>3. CASE k # req[s].code
    BY <1>1, <1>3, <2>1, <2>3, HonourWrites
  <2>. QED
    BY <2>2, <2>3
<1>4. CASE ~\E s \in Sessions : Honour(s)
  <2>1. redemptions' = redemptions
    BY <1>4, RedemptionsStep
  <2>2. CASE k \in 1..Len(codes)
    BY <1>1, <1>4, <2>1, <2>2, CodesStep
  <2>3. CASE k \notin 1..Len(codes)
    <3>1. codes' # codes
      BY <2>3
    <3>2. PICK s \in Sessions : RetireCodes(s) \/ MintCode(s) \/ LapseCode(s) \/ VoidCode(s)
      BY <1>4, <3>1, CodesWriters
    <3>3. MintCode(s)
      BY <2>3, <3>2, RetireStep, RefuseStep
    <3>4. codes'[k].redeemedAt = None
      <4>1. k = Len(codes) + 1
        BY <1>0, <2>3, <3>3, MintStep
      <4>. QED
        BY <3>3, <4>1, MintStep
    <3>. QED
      BY <1>2, <2>1, <2>3, <3>4
  <2>. QED
    BY <2>2, <2>3
<1>. QED
  BY <1>3, <1>4

\* However requests interleave and wherever they die, redeemed_at is on exactly
\* the codes the history names: no redemption is half written.
THEOREM RedemptionsMarkTheirCodes == Spec => []RedemptionMarksCode
<1>1. Init => RedemptionMarksCode
  BY DEF Init, RedemptionMarksCode
<1>2. TypeOK /\ HonouredAsIssued /\ RedemptionMarksCode /\ [Next]_vars => RedemptionMarksCode'
  BY MarksNext
<1>. QED
  BY <1>1, <1>2, TypeCorrect, RewardsAreHonouredAsIssued, PTL DEF Spec

-----------------------------------------------------------------------------
(* What a refused scan is told *)

\* A code in the state redeemed carries the time it was redeemed.
RedeemedHasTime ==
    \A k \in 1..Len(codes) : codes[k].status = "redeemed" => codes[k].redeemedAt # None

\* A code becomes redeemed by a redemption, and by nothing else.
LEMMA RedeemedHasTimeNext ==
    ASSUME TypeOK, RedeemedHasTime, [Next]_vars
    PROVE  RedeemedHasTime'
<1>0. Len(codes) \in Nat
  BY LenProperties DEF TypeOK
<1>. SUFFICES ASSUME NEW k \in 1..Len(codes'), codes'[k].status = "redeemed"
              PROVE  codes'[k].redeemedAt # None
  BY DEF RedeemedHasTime
<1>1. CASE codes' = codes
  BY <1>1 DEF RedeemedHasTime
<1>2. ASSUME NEW s \in Sessions, RetireCodes(s) PROVE codes'[k].redeemedAt # None
  <2>1. RetiredStatus(req[s], k) # "redeemed"
    BY DEF RetiredStatus
  <2>2. codes'[k] = codes[k] /\ k \in 1..Len(codes)
    BY <1>2, <2>1, RetireStep
  <2>. QED
    BY <2>2 DEF RedeemedHasTime
<1>3. ASSUME NEW s \in Sessions, MintCode(s) PROVE codes'[k].redeemedAt # None
  <2>1. k \in 1..Len(codes) \/ k = Len(codes) + 1
    BY <1>0, <1>3, MintStep
  <2>. QED
    BY <1>3, <2>1, MintStep DEF RedeemedHasTime
<1>4. ASSUME NEW s \in Sessions, LapseCode(s) \/ VoidCode(s) PROVE codes'[k].redeemedAt # None
  BY <1>4, RefuseStep DEF RedeemedHasTime
<1>5. ASSUME NEW s \in Sessions, Honour(s) PROVE codes'[k].redeemedAt # None
  <2>1. CASE k = req[s].code
    <3>1. codes'[k].redeemedAt \in Nat
      BY <1>5, <2>1, HonourStep DEF Requests
    <3>. QED
      BY <3>1, NoneAssumption
  <2>2. CASE k # req[s].code
    BY <1>5, <2>2, HonourWrites DEF RedeemedHasTime
  <2>. QED
    BY <2>1, <2>2
<1>. QED
  BY <1>1, <1>2, <1>3, <1>4, <1>5, CodesWriters

\* Where a refusal for what a code has become comes from: the request had it
\* already, or has just read the code's status, or has just voided the code.
LEMMA RefusalStep ==
    ASSUME TypeOK, NEW s \in Sessions, Begin(s) \/ Advance(s) \/ Crash(s),
           req'[s].answer \in {"already_redeemed", "stale_cycle"}
    PROVE  \/ req'[s].answer = req[s].answer /\ req'[s].code = req[s].code
           \/ /\ codes' = codes /\ card' = card
              /\ req'[s].code \in 1..Len(codes)
              /\ req'[s].answer = SpentAnswer[codes[req'[s].code].status]
              /\ codes[req'[s].code].status \in {"redeemed", "expired", "invalidated"}
           \/ VoidCode(s) /\ req'[s].answer = "stale_cycle" /\ req'[s].code = req[s].code
<1>. USE DEF TypeOK
<1> DEFINE Refusals == {"already_redeemed", "stale_cycle"}
<1>1. ASSUME NEW step, Goto(s, step)
      PROVE  req'[s].answer = req[s].answer /\ req'[s].code = req[s].code
  BY <1>1 DEF Goto, Requests
<1>2. ASSUME NEW a, NEW r, req' = [req EXCEPT ![s] = Closed(r, a)]
      PROVE  req'[s].answer = a
  BY <1>2 DEF Closed, Bare
<1>3. CASE Begin(s)
  <2>1. ASSUME NEW c \in Cards, BeginView(s, c) PROVE FALSE
    BY <2>1 DEF BeginView, Bare
  <2>2. ASSUME NEW c \in Cards, NEW r \in Receipts, BeginSubmit(s, c, r) PROVE FALSE
    BY <2>2 DEF BeginSubmit, Closed, Bare
  <2>3. ASSUME NEW c \in Cards, BeginRecount(s, c) PROVE FALSE
    BY <2>3 DEF BeginRecount, Bare
  <2>4. ASSUME NEW c \in Cards, BeginShow(s, c) PROVE FALSE
    BY <2>4 DEF BeginShow, Closed, Bare
  <2>5. ASSUME NEW k \in 0..Len(codes), NEW claimed \in Venues \cup {None},
               NEW at \in Venues \cup {None}, BeginScan(s, k, claimed, at)
        PROVE  /\ codes' = codes /\ card' = card
               /\ req'[s].code \in 1..Len(codes)
               /\ req'[s].answer = SpentAnswer[codes[req'[s].code].status]
               /\ codes[req'[s].code].status \in {"redeemed", "expired", "invalidated"}
    <3> DEFINE verdict == ScanVerdict(k, claimed, at)
    <3>1. codes' = codes /\ card' = card /\ req'[s].code = k /\ req'[s].answer \in {"none", verdict}
      BY <2>5 DEF BeginScan, Closed, Bare
    <3>2. verdict = req'[s].answer
      BY <3>1
    <3>3. verdict \in Refusals
      BY <3>2
    <3>4. k \in 1..Len(codes) => codes[k] \in Codes
      BY ElementOfSeq
    <3>5. k \in 1..Len(codes) /\ codes[k].status # "pending" /\ verdict = SpentAnswer[codes[k].status]
      BY <3>3 DEF ScanVerdict
    <3>6. codes[k].status \in {"redeemed", "expired", "invalidated"}
      BY <3>4, <3>5 DEF Codes
    <3>. HIDE DEF verdict
    <3>. QED
      BY <3>1, <3>2, <3>5, <3>6
  <2>. QED
    BY <1>3, <2>1, <2>2, <2>3, <2>4, <2>5 DEF Begin
<1>4. CASE FindCard(s) \/ OpenCard(s)
  <2>1. Loaded(s, card[req[s].card]) \/ Goto(s, "insert") \/ Finish(s, "failed")
    BY <1>4 DEF FindCard, OpenCard
  <2>2. ASSUME Loaded(s, card[req[s].card])
        PROVE  req'[s].answer = req[s].answer /\ req'[s].code = req[s].code
    BY <2>2 DEF Loaded, Closed, Bare, Requests
  <2>. QED
    BY <1>1, <1>2, <2>1, <2>2 DEF Finish
<1>5. CASE Verify(s)
  <2>1. ASSUME NEW v, req' = [req EXCEPT ![s].step = "dedupe", ![s].verdict = v]
        PROVE  req'[s].answer = req[s].answer /\ req'[s].code = req[s].code
    BY <2>1 DEF Requests
  <2>. QED
    BY <1>2, <1>5, <2>1 DEF Verify, Finish
<1>6. CASE CheckDuplicate(s) \/ FileEvent(s)
  BY <1>1, <1>2, <1>6 DEF CheckDuplicate, FileEvent, Finish
<1>7. CASE CountPunches(s) \/ ReadPending(s)
  BY <1>7 DEF CountPunches, ReadPending, Requests
<1>8. CASE BankPunch(s) \/ LapseCode(s) \/ Honour(s)
  BY <1>2, <1>8 DEF BankPunch, LapseCode, Honour, Finish
<1>9. CASE VoidCode(s)
  <2>1. req'[s] = Closed(req[s], "stale_cycle")
    BY <1>9 DEF VoidCode, Finish
  <2>. QED
    BY <1>9, <2>1 DEF Closed, Bare
<1>10. CASE RetireCodes(s) \/ MintCode(s)
  BY <1>1, <1>2, <1>10 DEF RetireCodes, MintCode
<1>11. CASE MatchCard(s)
  <2>1. CASE req' = [req EXCEPT ![s].step = "honour", ![s].cycle = card[req[s].card].cycle,
                                ![s].count = card[req[s].card].count,
                                ![s].need = program[VenueOf(req[s].card)].required]
    BY <2>1 DEF Requests
  <2>. QED
    BY <1>1, <1>2, <1>11, <2>1 DEF MatchCard, Finish
<1>12. CASE Respond(s) \/ Crash(s)
  BY <1>12 DEF Respond, Crash, Idle, Bare
<1>. QED
  BY <1>3, <1>4, <1>5, <1>6, <1>7, <1>8, <1>9, <1>10, <1>11, <1>12 DEF Advance

LEMMA AlreadyRedeemedNext ==
    ASSUME TypeOK, RedemptionMarksCode, RedeemedHasTime, AlreadyRedeemedIsTrue, [Next]_vars
    PROVE  AlreadyRedeemedIsTrue'
<1> DEFINE Named(k) == \E i \in 1..Len(redemptions) : redemptions[i].code = k
           NamedNow(k) == \E i \in 1..Len(redemptions') : redemptions'[i].code = k
<1>1. ASSUME NEW k, Named(k) PROVE NamedNow(k)
  <2>1. CASE redemptions' = redemptions
    BY <1>1, <2>1
  <2>2. ASSUME NEW s \in Sessions, Honour(s) PROVE NamedNow(k)
    <3>1. PICK i \in 1..Len(redemptions) : redemptions[i].code = k
      BY <1>1
    <3>2. i \in 1..Len(redemptions') /\ redemptions'[i].code = k
      BY <2>2, <3>1, HonourWrites
    <3>. QED
      BY <3>2
  <2>. QED
    BY <2>1, <2>2, RedemptionsStep
<1>2. ASSUME NEW k \in 1..Len(codes), codes[k].status = "redeemed" PROVE Named(k)
  BY <1>2 DEF RedeemedHasTime, RedemptionMarksCode
<1>. SUFFICES ASSUME NEW t \in Sessions, req'[t].answer = "already_redeemed"
              PROVE  NamedNow(req'[t].code)
  BY DEF AlreadyRedeemedIsTrue
<1>3. CASE req'[t].answer = req[t].answer /\ req'[t].code = req[t].code
  <2>1. Named(req[t].code)
    BY <1>3 DEF AlreadyRedeemedIsTrue
  <2>. HIDE DEF Named, NamedNow
  <2>. QED
    BY <1>1, <1>3, <2>1
<1>4. CASE Around
  BY <1>3, <1>4, AroundChangesLittle
<1>5. ASSUME NEW s \in Sessions, Begin(s) \/ Advance(s) \/ Crash(s)
      PROVE  NamedNow(req'[t].code)
  <2>1. CASE t # s
    BY <1>3, <1>5, <2>1, OthersUnchanged
  <2>2. CASE t = s /\ ~(req'[t].answer = req[t].answer /\ req'[t].code = req[t].code)
    <3>1. /\ req'[t].code \in 1..Len(codes)
          /\ "already_redeemed" = SpentAnswer[codes[req'[t].code].status]
          /\ codes[req'[t].code].status \in {"redeemed", "expired", "invalidated"}
      BY <1>5, <2>2, RefusalStep
    <3>2. codes[req'[t].code].status = "redeemed"
      BY <3>1 DEF SpentAnswer
    <3>3. Named(req'[t].code)
      BY <1>2, <3>1, <3>2
    <3>. HIDE DEF Named, NamedNow
    <3>. QED
      BY <1>1, <3>3
  <2>. QED
    BY <1>3, <2>1, <2>2
<1>. QED
  BY <1>4, <1>5, StepKinds

\* A scanner told "already redeemed" is told so of a code that did redeem,
\* whatever has been written on that code since.
THEOREM AlreadyRedeemedIsToldTruly == Spec => []AlreadyRedeemedIsTrue
<1>1. Init => RedeemedHasTime /\ AlreadyRedeemedIsTrue
  BY DEF Init, RedeemedHasTime, AlreadyRedeemedIsTrue, Idle, Bare
<1>2. /\ TypeOK /\ RedemptionMarksCode /\ RedeemedHasTime /\ AlreadyRedeemedIsTrue
      /\ [Next]_vars
      => RedeemedHasTime' /\ AlreadyRedeemedIsTrue'
  BY RedeemedHasTimeNext, AlreadyRedeemedNext
<1>. QED
  BY <1>1, <1>2, TypeCorrect, RedemptionsMarkTheirCodes, PTL DEF Spec
=============================================================================
