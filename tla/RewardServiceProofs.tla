-------------------------- MODULE RewardServiceProofs --------------------------
(***************************************************************************)
(* What RewardService guarantees of receipts and counts by itself: with    *)
(* any interleaving and any crash a receipt earns one punch at a venue, a  *)
(* refusal as a duplicate is true as long as no picture is deleted under   *)
(* its submission, and no count is of punches nobody earned.               *)
(***************************************************************************)
EXTENDS RewardService, SequenceTheorems, FiniteSetTheorems, TLAPS

-----------------------------------------------------------------------------
(* Requests *)

LEMMA BareIsRequest ==
    ASSUME NEW op \in Ops, NEW step \in Steps, NEW a \in Answers,
           NEW c \in Cards \cup {None}, NEW r \in Receipts \cup {None}, NEW k \in Nat
    PROVE  /\ Bare(op, step, a, c, r, k) \in Requests
           /\ Bare(op, step, a, c, r, k).op = op
           /\ Bare(op, step, a, c, r, k).step = step
           /\ Bare(op, step, a, c, r, k).answer = a
           /\ Bare(op, step, a, c, r, k).card = c
           /\ Bare(op, step, a, c, r, k).receipt = r
           /\ Bare(op, step, a, c, r, k).code = k
BY DEF Bare, Requests

LEMMA IdleIsRequest == Idle \in Requests /\ Idle.step = "idle" /\ Idle.op = "none"
BY DEF Idle, Bare, Requests, Ops, Steps, Answers

\* A handler that returns leaves a well-formed request behind.
LEMMA ClosedIsRequest ==
    ASSUME NEW r \in Requests, NEW a \in Answers
    PROVE  /\ Closed(r, a) \in Requests
           /\ Closed(r, a).step = "done"
           /\ Closed(r, a).op = r.op
           /\ Closed(r, a).answer = a
           /\ Closed(r, a).card = r.card
           /\ Closed(r, a).receipt = r.receipt
           /\ Closed(r, a).code = r.code
<1>1. /\ r.op \in Ops /\ r.card \in Cards \cup {None}
      /\ r.receipt \in Receipts \cup {None} /\ r.code \in Nat
  BY DEF Requests
<1>2. "done" \in Steps
  BY DEF Steps
<1>. QED
  BY <1>1, <1>2 DEF Closed, Bare, Requests

\* The punches counted for a card and cycle are a finite set.
LEMMA EarnedFinite ==
    ASSUME TypeOK, NEW c, NEW n
    PROVE  /\ IsFiniteSet(Earned(c, n))
           /\ Cardinality(Earned(c, n)) \in Nat
<1>1. Len(events) \in Nat
  BY LenProperties DEF TypeOK
<1>2. IsFiniteSet(1..Len(events))
  BY <1>1, FS_Interval
<1>3. Earned(c, n) \subseteq 1..Len(events)
  BY DEF Earned
<1>. QED
  BY <1>2, <1>3, FS_Subset, FS_CardinalityType

\* Replacing one session's request by a well-formed one keeps them all so, as
\* long as no code disappears.
LEMMA RequestStep ==
    ASSUME TypeOK, NEW s \in Sessions, NEW q \in Requests,
           codes' \in Seq(Codes), Len(codes') >= Len(codes),
           Informed(q, Len(codes')),
           req' = [req EXCEPT ![s] = q]
    PROVE  /\ req' \in [Sessions -> Requests]
           /\ \A t \in Sessions : Informed(req'[t], Len(codes'))
<1>1. req' \in [Sessions -> Requests]
  BY DEF TypeOK
<1>2. ASSUME NEW t \in Sessions PROVE Informed(req'[t], Len(codes'))
  <2>1. Len(codes) \in Nat /\ Len(codes') \in Nat
    BY LenProperties DEF TypeOK
  <2>2. CASE t = s
    BY <2>2 DEF TypeOK
  <2>3. CASE t # s
    <3>1. req'[t] = req[t] /\ Informed(req[t], Len(codes))
      BY <2>3 DEF TypeOK
    <3>. QED
      BY <2>1, <3>1 DEF Informed
  <2>. QED
    BY <2>2, <2>3
<1>. QED
  BY <1>1, <1>2

\* A request that has ended knows enough, whatever it was.
LEMMA ClosedIsInformed ==
    ASSUME NEW r \in Requests, NEW a \in Answers, NEW n \in Nat,
           r.op = "submit" => r.card \in Cards /\ r.receipt \in Receipts
    PROVE  Informed(Closed(r, a), n)
BY ClosedIsRequest DEF Informed

\* The card row has been loaded: whichever way the handler goes on from there.
LEMMA LoadedStep ==
    ASSUME TypeOK, NEW s \in Sessions, req[s].card \in Cards,
           Loaded(s, card[req[s].card]), UNCHANGED codes
    PROVE  /\ req' \in [Sessions -> Requests]
           /\ \A t \in Sessions : Informed(req'[t], Len(codes'))
<1> DEFINE row == card[req[s].card]
           r == [req[s] EXCEPT !.cycle = row.cycle, !.count = row.count]
           q == CASE r.op = "submit" -> [r EXCEPT !.step = "verify"]
                  [] r.op = "show" /\ Reached(row, r.need) -> [r EXCEPT !.step = "pending", !.stamp = now]
                  [] r.op = "show" /\ ~Reached(row, r.need) -> Closed(r, "not_earned")
                  [] OTHER -> Closed(r, "viewed")
<1>1. req[s] \in Requests /\ row \in CardRows /\ Informed(req[s], Len(codes))
  BY DEF TypeOK
<1>2. /\ r \in Requests
      /\ r.op = req[s].op /\ r.card = req[s].card /\ r.receipt = req[s].receipt
  BY <1>1 DEF Requests, CardRows
<1>3. codes' \in Seq(Codes) /\ Len(codes') = Len(codes) /\ Len(codes) \in Nat
  BY LenProperties DEF TypeOK
<1>5. req' = [req EXCEPT ![s] = q]
  BY DEF Loaded
<1>. HIDE DEF r, row
<1>4. q \in Requests /\ Informed(q, Len(codes'))
  <2>1. CASE r.op = "submit"
    <3>1. q = [r EXCEPT !.step = "verify"]
      BY <2>1
    <3>2. q \in Requests
      BY <3>1, <1>2 DEF Requests, Steps
    <3>3. /\ q.step = "verify" /\ q.op = "submit"
          /\ q.card \in Cards /\ q.receipt \in Receipts
      BY <3>1, <2>1, <1>1, <1>2 DEF Requests, Informed
    <3>. QED
      BY <3>2, <3>3 DEF Informed
  <2>2. CASE r.op = "show" /\ Reached(row, r.need)
    <3>1. q = [r EXCEPT !.step = "pending", !.stamp = now] /\ now \in Nat
      BY <2>2 DEF TypeOK
    <3>2. q \in Requests
      BY <3>1, <1>2 DEF Requests, Steps
    <3>3. q.step = "pending" /\ q.op = "show" /\ q.card \in Cards
      BY <3>1, <2>2, <1>2 DEF Requests
    <3>. QED
      BY <3>2, <3>3 DEF Informed
  <2>3. CASE r.op # "submit" /\ ~(r.op = "show" /\ Reached(row, r.need))
    <3>1. q = Closed(r, "not_earned") \/ q = Closed(r, "viewed")
      BY <2>3
    <3>2. "not_earned" \in Answers /\ "viewed" \in Answers
      BY DEF Answers
    <3>. QED
      BY <3>1, <3>2, <2>3, <1>2, <1>3, ClosedIsRequest, ClosedIsInformed
  <2>. QED
    BY <2>1, <2>2, <2>3
<1>6. Len(codes') >= Len(codes)
  BY <1>3
<1>. HIDE DEF q
<1>. QED
  BY <1>3, <1>4, <1>5, <1>6, RequestStep, Zenon

\* Returning from a handler.
LEMMA FinishStep ==
    ASSUME TypeOK, NEW s \in Sessions, NEW a \in Answers, Finish(s, a),
           codes' \in Seq(Codes), Len(codes') >= Len(codes)
    PROVE  /\ req' \in [Sessions -> Requests]
           /\ \A t \in Sessions : Informed(req'[t], Len(codes'))
<1>1. req[s] \in Requests /\ Informed(req[s], Len(codes)) /\ Len(codes') \in Nat
  BY LenProperties DEF TypeOK
<1>2. Closed(req[s], a) \in Requests /\ Informed(Closed(req[s], a), Len(codes'))
  BY <1>1, ClosedIsRequest, ClosedIsInformed DEF Informed
<1>. QED
  BY <1>2, RequestStep DEF Finish

\* Moving on to a step that presupposes no more than the present one.
LEMMA GotoStep ==
    ASSUME TypeOK, NEW s \in Sessions, NEW step \in Steps, Goto(s, step),
           codes' \in Seq(Codes), Len(codes') >= Len(codes),
           req[s].step \notin {"idle", "done"},
           step \in {"verify", "dedupe", "file"} => req[s].step \in {"verify", "dedupe", "file"},
           step \in {"dedupe", "file"} => req[s].step \in {"dedupe", "file"},
           step \in {"lapse", "match", "void", "honour"}
               => req[s].step \in {"lapse", "match", "void", "honour"}
    PROVE  /\ req' \in [Sessions -> Requests]
           /\ \A t \in Sessions : Informed(req'[t], Len(codes'))
<1> DEFINE q == [req[s] EXCEPT !.step = step]
<1>1. req[s] \in Requests /\ Informed(req[s], Len(codes))
  BY DEF TypeOK
<1>2. Len(codes) \in Nat /\ Len(codes') \in Nat
  BY LenProperties DEF TypeOK
<1>3. /\ q \in Requests /\ q.step = step
      /\ q.op = req[s].op /\ q.card = req[s].card /\ q.receipt = req[s].receipt
      /\ q.verdict = req[s].verdict /\ q.code = req[s].code
  BY <1>1 DEF Requests
<1>4. req' = [req EXCEPT ![s] = q]
  BY DEF Goto
<1>. HIDE DEF q
<1>5. Informed(q, Len(codes'))
  BY <1>1, <1>2, <1>3 DEF Informed
<1>. QED
  BY <1>3, <1>4, <1>5, RequestStep

-----------------------------------------------------------------------------
(* Type correctness *)

LEMMA TypeInit == Init => TypeOK
<1>. SUFFICES ASSUME Init PROVE TypeOK
  OBVIOUS
<1>1. program \in [Venues -> Programs]
  BY DEF Init, Programs
<1>2. card \in [Cards -> CardRows]
  BY DEF Init, CardRows
<1>3. events \in Seq(Events) /\ codes \in Seq(Codes) /\ redemptions \in Seq(Redemptions)
  BY EmptySeq DEF Init
<1>4. req \in [Sessions -> Requests] /\ \A s \in Sessions : Informed(req[s], Len(codes))
  <2>1. Informed(Idle, Len(codes))
    BY IdleIsRequest DEF Informed
  <2>. QED
    BY <2>1, IdleIsRequest DEF Init
<1>. QED
  BY <1>1, <1>2, <1>3, <1>4 DEF TypeOK, Init

\* A step that only moves a request on.
LEMMA RequestsOnly ==
    ASSUME TypeOK, UNCHANGED <<program, opened, card, events, codes, redemptions, now>>,
           req' \in [Sessions -> Requests],
           \A t \in Sessions : Informed(req'[t], Len(codes'))
    PROVE  TypeOK'
BY DEF TypeOK

LEMMA TypeNext == TypeOK /\ [Next]_vars => TypeOK'
<1>. SUFFICES ASSUME TypeOK, [Next]_vars PROVE TypeOK'
  OBVIOUS
<1>a. Len(codes) \in Nat /\ Len(events) \in Nat
  BY LenProperties DEF TypeOK
<1>b. codes' = codes => codes' \in Seq(Codes) /\ Len(codes') >= Len(codes)
  BY <1>a DEF TypeOK
<1>1. CASE UNCHANGED vars
  BY <1>1 DEF TypeOK, vars
<1>2. ASSUME NEW v \in Venues, NEW n \in Thresholds, NEW enabled \in BOOLEAN,
             OptIn(v, n, enabled) \/ UpdateProgram(v, n, enabled)
      PROVE  TypeOK'
  <2>1. [status |-> Status(enabled), required |-> n] \in Programs
    BY ThresholdsAssumption DEF Programs, Status
  <2>2. program' \in [Venues -> Programs]
    BY <1>2, <2>1 DEF OptIn, UpdateProgram, TypeOK
  <2>. QED
    BY <1>2, <2>2 DEF OptIn, UpdateProgram, TypeOK
<1>3. ASSUME NEW s \in Sessions, FindCard(s) PROVE TypeOK'
  <2>1. req[s].card \in Cards
    BY <1>3 DEF FindCard, TypeOK, Informed
  <2>2. /\ req' \in [Sessions -> Requests]
        /\ \A t \in Sessions : Informed(req'[t], Len(codes'))
    <3>1. CASE Loaded(s, card[req[s].card])
      BY <1>3, <2>1, <3>1, LoadedStep DEF FindCard
    <3>2. CASE Goto(s, "insert")
      BY <1>3, <1>b, <3>2, GotoStep DEF FindCard, Steps
    <3>. QED
      BY <1>3, <3>1, <3>2 DEF FindCard
  <2>3. UNCHANGED <<program, opened, card, events, codes, redemptions, now>>
    BY <1>3 DEF FindCard
  <2>. QED
    BY <2>2, <2>3, RequestsOnly
<1>4. ASSUME NEW s \in Sessions, OpenCard(s) PROVE TypeOK'
  <2>1. req[s].card \in Cards
    BY <1>4 DEF OpenCard, TypeOK, Informed
  <2>2. opened' \subseteq Cards
    BY <1>4, <2>1 DEF OpenCard, TypeOK
  <2>3. /\ req' \in [Sessions -> Requests]
        /\ \A t \in Sessions : Informed(req'[t], Len(codes'))
    <3>1. CASE Loaded(s, card[req[s].card])
      BY <1>4, <2>1, <3>1, LoadedStep DEF OpenCard
    <3>2. CASE Finish(s, "failed")
      BY <1>4, <1>b, <3>2, FinishStep DEF OpenCard, Answers
    <3>. QED
      BY <1>4, <3>1, <3>2 DEF OpenCard
  <2>4. UNCHANGED <<program, card, events, codes, redemptions, now>>
    BY <1>4 DEF OpenCard
  <2>. QED
    BY <2>2, <2>3, <2>4 DEF TypeOK
<1>5. ASSUME NEW s \in Sessions, NEW c \in Cards, BeginView(s, c) PROVE TypeOK'
  <2> DEFINE q == Bare("view", "card", "none", c, None, 0)
  <2>1. q \in Requests /\ q.step = "card" /\ q.op = "view" /\ q.card = c
    BY DEF Bare, Requests, Ops, Steps, Answers
  <2>2. req' = [req EXCEPT ![s] = q]
    BY <1>5 DEF BeginView
  <2>3. UNCHANGED <<program, opened, card, events, codes, redemptions, now>>
    BY <1>5 DEF BeginView
  <2>. HIDE DEF q
  <2>4. Informed(q, Len(codes'))
    BY <2>1 DEF Informed
  <2>. QED
    BY <1>b, <2>1, <2>2, <2>3, <2>4, RequestStep, RequestsOnly
<1>6. ASSUME NEW s \in Sessions, NEW c \in Cards, NEW r \in Receipts, BeginSubmit(s, c, r)
      PROVE  TypeOK'
  <2> DEFINE q == Bare("submit", "card", "none", c, r, 0)
  <2>1. /\ q \in Requests /\ q.step = "card" /\ q.op = "submit"
        /\ q.card = c /\ q.receipt = r
    BY DEF Bare, Requests, Ops, Steps, Answers
  <2>2. req' = [req EXCEPT ![s] = q] \/ req' = [req EXCEPT ![s] = Closed(q, "refused")]
    BY <1>6 DEF BeginSubmit
  <2>3. UNCHANGED <<program, opened, card, events, codes, redemptions, now>>
    BY <1>6 DEF BeginSubmit
  <2>. HIDE DEF q
  <2>4. Informed(q, Len(codes'))
    BY <2>1 DEF Informed
  <2>5. Closed(q, "refused") \in Requests /\ Informed(Closed(q, "refused"), Len(codes'))
    <3>1. "refused" \in Answers
      BY DEF Answers
    <3>. QED
      BY <1>a, <2>1, <2>3, <3>1, ClosedIsRequest, ClosedIsInformed
  <2>. QED
    BY <1>b, <2>1, <2>2, <2>3, <2>4, <2>5, RequestStep, RequestsOnly
<1>7. ASSUME NEW s \in Sessions, Verify(s) PROVE TypeOK'
  <2>1. req[s] \in Requests /\ Informed(req[s], Len(codes)) /\ req[s].step = "verify"
    BY <1>7 DEF Verify, TypeOK
  <2>2. UNCHANGED <<program, opened, card, events, codes, redemptions, now>>
    BY <1>7 DEF Verify
  <2>3. CASE Finish(s, "unavailable")
    BY <1>b, <2>2, <2>3, FinishStep, RequestsOnly DEF Answers
  <2>4. ASSUME NEW v \in {"verified", "rejected"},
               req' = [req EXCEPT ![s].step = "dedupe", ![s].verdict = v]
        PROVE  TypeOK'
    <3> DEFINE q == [req[s] EXCEPT !.step = "dedupe", !.verdict = v]
    <3>1. /\ q \in Requests /\ q.step = "dedupe" /\ q.verdict = v
          /\ q.op = req[s].op /\ q.card = req[s].card /\ q.receipt = req[s].receipt
      BY <2>1 DEF Requests, Steps
    <3>2. req' = [req EXCEPT ![s] = q]
      BY <2>4
    <3>. HIDE DEF q
    <3>3. Informed(q, Len(codes'))
      BY <2>1, <3>1 DEF Informed
    <3>. QED
      BY <1>b, <2>2, <3>1, <3>2, <3>3, RequestStep, RequestsOnly
  <2>. QED
    BY <1>7, <2>3, <2>4 DEF Verify
<1>8. ASSUME NEW s \in Sessions, CheckDuplicate(s) PROVE TypeOK'
  <2>1. UNCHANGED <<program, opened, card, events, codes, redemptions, now>>
    BY <1>8 DEF CheckDuplicate
  <2>2. CASE Finish(s, "duplicate")
    BY <1>b, <2>1, <2>2, FinishStep, RequestsOnly DEF Answers
  <2>3. CASE Goto(s, "file")
    BY <1>8, <1>b, <2>1, <2>3, GotoStep, RequestsOnly DEF CheckDuplicate, Steps
  <2>. QED
    BY <1>8, <2>2, <2>3 DEF CheckDuplicate
<1>9. ASSUME NEW s \in Sessions, FileEvent(s) PROVE TypeOK'
  <2>1. /\ req[s] \in Requests /\ req[s].step = "file"
        /\ req[s].card \in Cards /\ req[s].receipt \in Receipts /\ req[s].verdict # "none"
    BY <1>9 DEF FileEvent, TypeOK, Informed
  <2>2. UNCHANGED <<program, opened, card, codes, redemptions, now>>
    BY <1>9 DEF FileEvent
  <2>3. events' \in Seq(Events)
    <3>1. Filed(req[s]) \in Events
      BY <2>1 DEF Filed, Events, Requests
    <3>2. events' = events \/ events' = Append(events, Filed(req[s]))
      BY <1>9 DEF FileEvent
    <3>3. events \in Seq(Events)
      BY DEF TypeOK
    <3>4. Append(events, Filed(req[s])) \in Seq(Events)
      BY <3>1, <3>3, AppendProperties
    <3>. QED
      BY <3>2, <3>3, <3>4
  <2>4. /\ req' \in [Sessions -> Requests]
        /\ \A t \in Sessions : Informed(req'[t], Len(codes'))
    <3>1. Goto(s, "count") \/ Finish(s, "rejected") \/ Finish(s, "duplicate")
      BY <1>9 DEF FileEvent
    <3>2. CASE Goto(s, "count")
      BY <1>b, <2>1, <2>2, <3>2, GotoStep DEF Steps
    <3>3. CASE Finish(s, "rejected")
      BY <1>b, <2>2, <3>3, FinishStep DEF Answers
    <3>4. CASE Finish(s, "duplicate")
      BY <1>b, <2>2, <3>4, FinishStep DEF Answers
    <3>. QED
      BY <3>1, <3>2, <3>3, <3>4
  <2>. QED
    BY <2>2, <2>3, <2>4 DEF TypeOK
<1>10. ASSUME NEW s \in Sessions, CountPunches(s) PROVE TypeOK'
  <2> DEFINE q == [req[s] EXCEPT !.step = "bank", !.tally = VerifiedPunchCount(req[s])]
  <2>1. req[s] \in Requests /\ Informed(req[s], Len(codes)) /\ req[s].step = "count"
    BY <1>10 DEF CountPunches, TypeOK
  <2>2. VerifiedPunchCount(req[s]) \in Nat
    BY EarnedFinite DEF VerifiedPunchCount
  <2>3. /\ q \in Requests /\ q.step = "bank"
        /\ q.op = req[s].op /\ q.card = req[s].card /\ q.receipt = req[s].receipt
    BY <2>1, <2>2 DEF Requests, Steps
  <2>4. req' = [req EXCEPT ![s] = q]
    BY <1>10 DEF CountPunches
  <2>5. UNCHANGED <<program, opened, card, events, codes, redemptions, now>>
    BY <1>10 DEF CountPunches
  <2>. HIDE DEF q
  <2>6. Informed(q, Len(codes'))
    BY <2>1, <2>3 DEF Informed
  <2>. QED
    BY <1>b, <2>3, <2>4, <2>5, <2>6, RequestStep, RequestsOnly
<1>11. ASSUME NEW s \in Sessions, BankPunch(s) PROVE TypeOK'
  <2>1. req[s] \in Requests /\ req[s].card \in Cards
    BY <1>11 DEF BankPunch, TypeOK, Informed
  <2>2. Banked(req[s], card[req[s].card]) \in CardRows
    <3>1. card[req[s].card] \in CardRows /\ req[s].tally \in Nat
      BY <2>1 DEF TypeOK, Requests
    <3>2. [card[req[s].card] EXCEPT !.count = req[s].tally] \in CardRows
      BY <3>1 DEF CardRows
    <3>. QED
      BY <3>1, <3>2 DEF Banked
  <2>3. card' \in [Cards -> CardRows]
    BY <1>11, <2>1, <2>2 DEF BankPunch, TypeOK
  <2>4. UNCHANGED <<program, opened, events, codes, redemptions, now>>
    BY <1>11 DEF BankPunch
  <2>5. Finish(s, "approved") \/ Finish(s, "recounted")
    BY <1>11 DEF BankPunch
  <2>6. /\ req' \in [Sessions -> Requests]
        /\ \A t \in Sessions : Informed(req'[t], Len(codes'))
    BY <1>b, <2>4, <2>5, FinishStep DEF Answers
  <2>. QED
    BY <2>3, <2>4, <2>6 DEF TypeOK
<1>12. ASSUME NEW s \in Sessions, NEW c \in Cards, BeginRecount(s, c) PROVE TypeOK'
  <2> DEFINE b == Bare("recount", "count", "none", c, None, 0)
             q == [b EXCEPT !.cycle = card[c].cycle, !.count = card[c].count]
  <2>1. b \in Requests /\ b.step = "count" /\ b.op = "recount" /\ b.card = c
    BY DEF Bare, Requests, Ops, Steps, Answers
  <2>2. req' = [req EXCEPT ![s] = q]
    BY <1>12 DEF BeginRecount
  <2>3. UNCHANGED <<program, opened, card, events, codes, redemptions, now>>
    BY <1>12 DEF BeginRecount
  <2>. HIDE DEF b
  <2>4. q \in Requests /\ q.step = "count" /\ q.op = "recount" /\ q.card = c
    BY <2>1 DEF TypeOK, CardRows, Requests
  <2>. HIDE DEF q
  <2>5. Informed(q, Len(codes'))
    BY <2>4 DEF Informed
  <2>. QED
    BY <1>b, <2>2, <2>3, <2>4, <2>5, RequestStep, RequestsOnly
<1>13. ASSUME NEW s \in Sessions, NEW c \in Cards, BeginShow(s, c) PROVE TypeOK'
  <2> DEFINE b == Bare("show", "card", "none", c, None, 0)
             q == [b EXCEPT !.need = program[VenueOf(c)].required]
  <2>1. b \in Requests /\ b.step = "card" /\ b.op = "show" /\ b.card = c
    BY DEF Bare, Requests, Ops, Steps, Answers
  <2>2. req' = [req EXCEPT ![s] = Closed(b, "refused")] \/ req' = [req EXCEPT ![s] = q]
    BY <1>13 DEF BeginShow
  <2>3. UNCHANGED <<program, opened, card, events, codes, redemptions, now>>
    BY <1>13 DEF BeginShow
  <2>. HIDE DEF b
  <2>4. q \in Requests /\ q.step = "card" /\ q.op = "show" /\ q.card = c
    BY <2>1 DEF TypeOK, Programs, Requests, Cards, VenueOf
  <2>5. "refused" \in Answers
    BY DEF Answers
  <2>6. Closed(b, "refused") \in Requests /\ Informed(Closed(b, "refused"), Len(codes'))
    BY <1>a, <2>1, <2>3, <2>5, ClosedIsRequest, ClosedIsInformed
  <2>. HIDE DEF q
  <2>7. Informed(q, Len(codes'))
    BY <2>4 DEF Informed
  <2>. QED
    BY <1>b, <2>2, <2>3, <2>4, <2>6, <2>7, RequestStep, RequestsOnly
<1>14. ASSUME NEW s \in Sessions, ReadPending(s) PROVE TypeOK'
  <2> DEFINE q == [req[s] EXCEPT !.step = "retire", !.held = Pending(req[s].card)]
  <2>1. req[s] \in Requests /\ Informed(req[s], Len(codes)) /\ req[s].step = "pending"
    BY <1>14 DEF ReadPending, TypeOK
  <2>2. Pending(req[s].card) \in SUBSET Nat
    BY <1>a DEF Pending
  <2>3. /\ q \in Requests /\ q.step = "retire"
        /\ q.op = req[s].op /\ q.card = req[s].card /\ q.receipt = req[s].receipt
    BY <2>1, <2>2 DEF Requests, Steps, TypeOK
  <2>4. req' = [req EXCEPT ![s] = q]
    BY <1>14 DEF ReadPending
  <2>5. UNCHANGED <<program, opened, card, events, codes, redemptions, now>>
    BY <1>14 DEF ReadPending
  <2>. HIDE DEF q
  <2>6. Informed(q, Len(codes'))
    BY <2>1, <2>3 DEF Informed
  <2>. QED
    BY <1>b, <2>3, <2>4, <2>5, <2>6, RequestStep, RequestsOnly
<1>15. ASSUME NEW s \in Sessions, RetireCodes(s) PROVE TypeOK'
  <2> DEFINE live == Newest(Reusable(req[s]))
  <2>1. req[s] \in Requests /\ Informed(req[s], Len(codes)) /\ req[s].step = "retire"
    BY <1>15 DEF RetireCodes, TypeOK
  <2>2. codes' = [k \in 1..Len(codes) |->
                    IF k \in req[s].held \ live
                    THEN [codes[k] EXCEPT !.status = RetiredStatus(req[s], k)]
                    ELSE codes[k]]
    BY <1>15 DEF RetireCodes
  <2>3. codes' \in [1..Len(codes) -> Codes]
    <3>1. ASSUME NEW k \in 1..Len(codes)
          PROVE  /\ codes[k] \in Codes
                 /\ [codes[k] EXCEPT !.status = RetiredStatus(req[s], k)] \in Codes
      <4>1. codes[k] \in Codes
        BY ElementOfSeq DEF TypeOK
      <4>2. RetiredStatus(req[s], k) \in {"invalidated", "expired"}
        BY DEF RetiredStatus
      <4>. QED
        BY <4>1, <4>2 DEF Codes
    <3>. QED
      BY <2>2, <3>1
  <2>4. codes' \in Seq(Codes) /\ Len(codes') = Len(codes)
    BY <1>a, <2>3, SeqDef
  <2>5. UNCHANGED <<program, opened, card, events, redemptions, now>>
    BY <1>15 DEF RetireCodes
  <2>6. /\ req' \in [Sessions -> Requests]
        /\ \A t \in Sessions : Informed(req'[t], Len(codes'))
    <3>1. CASE Goto(s, "mint")
      BY <1>a, <2>1, <2>4, <3>1, GotoStep DEF Steps
    <3>2. ASSUME NEW k \in live,
                 req' = [req EXCEPT ![s] = Closed([req[s] EXCEPT !.code = k], "shown")]
          PROVE  /\ req' \in [Sessions -> Requests]
                 /\ \A t \in Sessions : Informed(req'[t], Len(codes'))
      <4> DEFINE r == [req[s] EXCEPT !.code = k]
      <4>1. k \in Nat
        BY <2>1 DEF Newest, Reusable, Requests
      <4>2. /\ r \in Requests
            /\ r.op = req[s].op /\ r.card = req[s].card /\ r.receipt = req[s].receipt
        BY <2>1, <4>1 DEF Requests
      <4>3. "shown" \in Answers
        BY DEF Answers
      <4>. HIDE DEF r
      <4>4. Closed(r, "shown") \in Requests /\ Informed(Closed(r, "shown"), Len(codes'))
        BY <1>a, <2>1, <2>4, <4>2, <4>3, ClosedIsRequest, ClosedIsInformed DEF Informed
      <4>5. req' = [req EXCEPT ![s] = Closed(r, "shown")]
        BY <3>2 DEF r
      <4>6. Len(codes') >= Len(codes)
        BY <1>a, <2>4
      <4>. QED
        BY <2>4, <4>4, <4>5, <4>6, RequestStep
    <3>. QED
      BY <1>15, <3>1, <3>2 DEF RetireCodes
  <2>. QED
    BY <2>4, <2>5, <2>6 DEF TypeOK
<1>16. ASSUME NEW s \in Sessions, MintCode(s) PROVE TypeOK'
  <2> DEFINE r == req[s]
             code == [card |-> r.card, cycle |-> r.cycle, need |-> r.need,
                      expires |-> r.stamp + TTL, status |-> "pending", redeemedAt |-> None]
             q == [r EXCEPT !.code = Len(codes) + 1]
  <2>1. r \in Requests /\ Informed(r, Len(codes)) /\ r.card \in Cards
    BY <1>16 DEF MintCode, TypeOK, Informed
  <2>2. code \in Codes
    BY <2>1, ClockAssumption DEF Codes, Requests
  <2>3. codes' = Append(codes, code) /\ req' = [req EXCEPT ![s] = Closed(q, "shown")]
    BY <1>16 DEF MintCode
  <2>4. /\ q \in Requests
        /\ q.op = r.op /\ q.card = r.card /\ q.receipt = r.receipt
    <3>1. Len(codes) + 1 \in Nat
      BY <1>a
    <3>. QED
      BY <2>1, <3>1 DEF Requests
  <2>5. UNCHANGED <<program, opened, card, events, redemptions, now>>
    BY <1>16 DEF MintCode
  <2>. HIDE DEF code, q
  <2>6. codes' \in Seq(Codes) /\ Len(codes') = Len(codes) + 1
    BY <2>2, <2>3, AppendProperties DEF TypeOK
  <2>7. "shown" \in Answers
    BY DEF Answers
  <2>8. Closed(q, "shown") \in Requests /\ Informed(Closed(q, "shown"), Len(codes'))
    BY <1>a, <2>1, <2>4, <2>6, <2>7, ClosedIsRequest, ClosedIsInformed DEF Informed
  <2>9. Len(codes') >= Len(codes)
    BY <1>a, <2>6
  <2>. QED
    BY <2>3, <2>5, <2>6, <2>8, <2>9, RequestStep DEF TypeOK
<1>17. ASSUME NEW s \in Sessions, NEW k \in 0..Len(codes),
              NEW claimed \in Venues \cup {None}, NEW at \in Venues \cup {None},
              BeginScan(s, k, claimed, at)
       PROVE  TypeOK'
  <2> DEFINE c == IF k \in 1..Len(codes) THEN codes[k].card ELSE None
             verdict == ScanVerdict(k, claimed, at)
             b == Bare("scan", verdict, "none", c, None, k)
             q == [b EXCEPT !.stamp = now, !.at = at]
  <2>1. c \in Cards \cup {None} /\ (k \in 1..Len(codes) => c \in Cards)
    <3>1. k \in 1..Len(codes) => codes[k] \in Codes
      BY ElementOfSeq DEF TypeOK
    <3>. QED
      BY <3>1 DEF Codes
  <2>2. UNCHANGED <<program, opened, card, events, codes, redemptions, now>>
    BY <1>17 DEF BeginScan
  <2>3. k \in Nat
    BY <1>a
  <2>4. CASE verdict \in {"lapse", "match"}
    <3>1. k \in 1..Len(codes)
      BY <2>4 DEF ScanVerdict
    <3>2. req' = [req EXCEPT ![s] = q]
      BY <1>17, <2>4 DEF BeginScan
    <3>. HIDE DEF c, verdict
    <3>3. b \in Requests /\ b.step = verdict /\ b.op = "scan" /\ b.card = c /\ b.code = k
      BY <2>1, <2>3, <2>4 DEF Bare, Requests, Ops, Steps, Answers
    <3>. HIDE DEF b
    <3>4. q \in Requests /\ q.step = verdict /\ q.op = "scan" /\ q.card = c /\ q.code = k
      BY <3>3 DEF TypeOK, Requests
    <3>. HIDE DEF q
    <3>5. Informed(q, Len(codes'))
      BY <2>1, <2>2, <2>4, <3>1, <3>4 DEF Informed
    <3>. QED
      BY <1>b, <2>2, <3>2, <3>4, <3>5, RequestStep, RequestsOnly
  <2>5. CASE verdict \notin {"lapse", "match"}
    <3>1. req' = [req EXCEPT ![s] = Closed(b, verdict)]
      BY <1>17, <2>5 DEF BeginScan
    <3>2. verdict \in Answers
      <4>1. k \in 1..Len(codes) =>
              codes[k].status \in {"pending", "redeemed", "expired", "invalidated"}
        <5>1. k \in 1..Len(codes) => codes[k] \in Codes
          BY ElementOfSeq DEF TypeOK
        <5>. QED
          BY <5>1 DEF Codes
      <4>2. verdict \in {"wrong_venue", "code_not_found", "already_redeemed",
                        "code_expired", "stale_cycle"}
        BY <2>5, <4>1 DEF ScanVerdict, SpentAnswer
      <4>. QED
        BY <4>2 DEF Answers
    <3>3. Closed(b, verdict) = Bare("scan", "done", verdict, c, None, k)
      BY DEF Closed, Bare
    <3> DEFINE d == Closed(b, verdict)
    <3>. HIDE DEF c, verdict
    <3>4. d \in Requests /\ d.step = "done" /\ d.op = "scan"
      <4>1. "scan" \in Ops /\ "done" \in Steps /\ None \in Receipts \cup {None}
        BY DEF Ops, Steps
      <4>2. d = Bare("scan", "done", verdict, c, None, k)
        BY <3>3
      <4>. HIDE DEF d
      <4>. QED
        BY <2>1, <2>3, <3>2, <4>1, <4>2 DEF Bare, Requests
    <3>. HIDE DEF d
    <3>5. Informed(d, Len(codes'))
      BY <3>4 DEF Informed
    <3>6. req' = [req EXCEPT ![s] = d]
      BY <3>1 DEF d
    <3>. QED
      BY <1>b, <2>2, <3>4, <3>5, <3>6, RequestStep, RequestsOnly
  <2>. QED
    BY <2>4, <2>5
<1>18. ASSUME NEW s \in Sessions, NEW status \in {"expired", "invalidated"},
              NEW answer \in Answers,
              req[s].step \in {"lapse", "void"},
              codes' = [codes EXCEPT ![req[s].code].status = status],
              Finish(s, answer),
              UNCHANGED <<program, opened, card, events, redemptions, now>>
       PROVE  TypeOK'
  <2>1. req[s].code \in 1..Len(codes)
    BY <1>18 DEF TypeOK, Informed
  <2>2. [codes[req[s].code] EXCEPT !.status = status] \in Codes
    <3>1. codes[req[s].code] \in Codes
      BY <2>1, ElementOfSeq DEF TypeOK
    <3>. QED
      BY <3>1 DEF Codes
  <2>3. codes' \in Seq(Codes) /\ Len(codes') = Len(codes)
    BY <1>18, <2>1, <2>2, ExceptSeq DEF TypeOK
  <2>4. Len(codes') >= Len(codes)
    BY <1>a, <2>3
  <2>5. /\ req' \in [Sessions -> Requests]
        /\ \A t \in Sessions : Informed(req'[t], Len(codes'))
    BY <1>18, <2>3, <2>4, FinishStep
  <2>. QED
    BY <1>18, <2>3, <2>5 DEF TypeOK
<1>19. ASSUME NEW s \in Sessions, LapseCode(s) PROVE TypeOK'
  BY <1>18, <1>19 DEF LapseCode, Answers
<1>20. ASSUME NEW s \in Sessions, VoidCode(s) PROVE TypeOK'
  BY <1>18, <1>20 DEF VoidCode, VoidStatus, Answers
<1>21. ASSUME NEW s \in Sessions, MatchCard(s) PROVE TypeOK'
  <2> DEFINE row == card[req[s].card]
             q == [req[s] EXCEPT !.step = "honour", !.cycle = row.cycle, !.count = row.count,
                                 !.need = program[VenueOf(req[s].card)].required]
  <2>1. /\ req[s] \in Requests /\ Informed(req[s], Len(codes)) /\ req[s].step = "match"
        /\ req[s].card \in Cards
    BY <1>21 DEF MatchCard, TypeOK, Informed
  <2>2. UNCHANGED <<program, opened, card, events, codes, redemptions, now>>
    BY <1>21 DEF MatchCard
  <2>3. CASE Finish(s, "wrong_venue")
    BY <1>b, <2>2, <2>3, FinishStep, RequestsOnly DEF Answers
  <2>4. CASE Goto(s, "void")
    BY <1>b, <2>1, <2>2, <2>4, GotoStep, RequestsOnly DEF Steps
  <2>5. CASE req' = [req EXCEPT ![s] = q]
    <3>1. row \in CardRows /\ program[VenueOf(req[s].card)] \in Programs
      BY <2>1 DEF TypeOK, Cards, VenueOf
    <3>2. /\ row.cycle \in Nat /\ row.count \in Nat
          /\ program[VenueOf(req[s].card)].required \in Int
      BY <3>1 DEF CardRows, Programs
    <3>3. /\ q \in Requests /\ q.step = "honour"
          /\ q.op = req[s].op /\ q.card = req[s].card /\ q.receipt = req[s].receipt
          /\ q.code = req[s].code
      BY <2>1, <3>2 DEF Requests, Steps
    <3>. HIDE DEF q
    <3>4. Informed(q, Len(codes'))
      BY <2>1, <2>2, <3>3 DEF Informed
    <3>. QED
      BY <1>b, <2>2, <2>5, <3>3, <3>4, RequestStep, RequestsOnly
  <2>. QED
    BY <1>21, <2>3, <2>4, <2>5 DEF MatchCard
<1>22. ASSUME NEW s \in Sessions, Honour(s) PROVE TypeOK'
  <2> DEFINE r == req[s]
             k == r.code
             entry == [card |-> r.card, code |-> k, cycle |-> r.cycle,
                       required |-> r.need, at |-> r.at]
  <2>1. r \in Requests /\ r.card \in Cards /\ k \in 1..Len(codes)
    BY <1>22 DEF Honour, TypeOK, Informed
  <2>2. redemptions' \in Seq(Redemptions)
    <3>1. entry \in Redemptions
      BY <2>1 DEF Redemptions, Requests
    <3>2. redemptions' = Append(redemptions, entry)
      BY <1>22 DEF Honour
    <3>. QED
      BY <3>1, <3>2, AppendProperties DEF TypeOK
  <2>3. codes' \in Seq(Codes) /\ Len(codes') = Len(codes)
    <3>1. codes[k] \in Codes
      BY <2>1, ElementOfSeq DEF TypeOK
    <3>2. Redeemed(r, codes[k]) \in Codes
      BY <2>1, <3>1 DEF Redeemed, Codes, Requests
    <3>3. codes' = [codes EXCEPT ![k] = Redeemed(r, codes[k])]
      BY <1>22, <2>1 DEF Honour
    <3>. QED
      BY <2>1, <3>2, <3>3, ExceptSeq DEF TypeOK
  <2>4. card' \in [Cards -> CardRows]
    <3>1. card[r.card] \in CardRows /\ r.cycle + 1 \in Nat
      BY <2>1 DEF TypeOK, Requests
    <3>2. NextCycle(r, card[r.card]) \in CardRows
      BY <3>1 DEF NextCycle, CardRows
    <3>3. card' = [card EXCEPT ![r.card] = NextCycle(r, card[r.card])]
      BY <1>22 DEF Honour
    <3>. QED
      BY <2>1, <3>2, <3>3 DEF TypeOK
  <2>5. UNCHANGED <<program, opened, events, now>>
    BY <1>22 DEF Honour
  <2>6. Len(codes') >= Len(codes)
    BY <1>a, <2>3
  <2>7. /\ req' \in [Sessions -> Requests]
        /\ \A t \in Sessions : Informed(req'[t], Len(codes'))
    BY <1>22, <2>3, <2>6, FinishStep DEF Honour, Answers
  <2>. QED
    BY <2>2, <2>3, <2>4, <2>5, <2>7 DEF TypeOK
<1>23. ASSUME NEW s \in Sessions, Respond(s) \/ Crash(s) PROVE TypeOK'
  <2>1. /\ req' = [req EXCEPT ![s] = Idle]
        /\ UNCHANGED <<program, opened, card, events, codes, redemptions, now>>
    BY <1>23 DEF Respond, Crash
  <2>2. Informed(Idle, Len(codes'))
    BY IdleIsRequest DEF Informed
  <2>. QED
    BY <1>b, <2>1, <2>2, IdleIsRequest, RequestStep, RequestsOnly
<1>24. CASE Tick
  BY <1>24 DEF Tick, TypeOK
<1>25. ASSUME NEW s \in Sessions, Begin(s) PROVE TypeOK'
  BY <1>5, <1>6, <1>12, <1>13, <1>17, <1>25 DEF Begin
<1>26. ASSUME NEW s \in Sessions, Advance(s) PROVE TypeOK'
  BY <1>3, <1>4, <1>7, <1>8, <1>9, <1>10, <1>11, <1>14, <1>15, <1>16,
     <1>19, <1>20, <1>21, <1>22, <1>23, <1>26 DEF Advance
<1>. QED
  BY <1>1, <1>2, <1>23, <1>24, <1>25, <1>26 DEF Next

\* The rows and the requests keep their shape, and a suspended request always
\* has the card, receipt, verdict and code its next step works on.
THEOREM TypeCorrect == Spec => []TypeOK
  BY TypeInit, TypeNext, PTL DEF Spec

-----------------------------------------------------------------------------
(* Receipts *)

\* punch_events only ever grows, by one row the unique index admits.
LEMMA EventsStep ==
    ASSUME TypeOK, [Next]_vars
    PROVE  \/ events' = events
           \/ \E s \in Sessions :
                /\ IndexAdmits(req[s])
                /\ Filed(req[s]) \in Events
                /\ events' = Append(events, Filed(req[s]))
<1>1. CASE UNCHANGED vars
  BY <1>1 DEF vars
<1>2. ASSUME NEW v \in Venues, NEW n \in Thresholds, NEW enabled \in BOOLEAN,
             OptIn(v, n, enabled) \/ UpdateProgram(v, n, enabled)
      PROVE  events' = events
  BY <1>2 DEF OptIn, UpdateProgram
<1>3. ASSUME NEW s \in Sessions, Begin(s) PROVE events' = events
  BY <1>3 DEF Begin, BeginView, BeginSubmit, BeginRecount, BeginShow, BeginScan
<1>4. ASSUME NEW s \in Sessions, FileEvent(s)
      PROVE  \/ events' = events
             \/ /\ IndexAdmits(req[s])
                /\ Filed(req[s]) \in Events
                /\ events' = Append(events, Filed(req[s]))
  <2>1. /\ req[s] \in Requests /\ req[s].card \in Cards
        /\ req[s].receipt \in Receipts /\ req[s].verdict # "none"
    BY <1>4 DEF FileEvent, TypeOK, Informed
  <2>2. Filed(req[s]) \in Events
    BY <2>1 DEF Filed, Events, Requests
  <2>. QED
    BY <1>4, <2>2 DEF FileEvent
<1>5. ASSUME NEW s \in Sessions, Advance(s), ~FileEvent(s) PROVE events' = events
  BY <1>5 DEF Advance, FindCard, OpenCard, Verify, CheckDuplicate, CountPunches, BankPunch,
     ReadPending, RetireCodes, MintCode, LapseCode, MatchCard, VoidCode, Honour, Respond
<1>6. ASSUME NEW s \in Sessions, Crash(s) PROVE events' = events
  BY <1>6 DEF Crash
<1>7. CASE Tick
  BY <1>7 DEF Tick
<1>. QED
  BY <1>1, <1>2, <1>3, <1>4, <1>5, <1>6, <1>7 DEF Next

LEMMA SpentGrows ==
    ASSUME TypeOK, [Next]_vars
    PROVE  Spent \subseteq Spent'
<1>1. events \in Seq(Events) /\ Len(events) \in Nat
  BY LenProperties DEF TypeOK
<1>2. CASE events' = events
  BY <1>2 DEF Spent
<1>3. ASSUME NEW e \in Events, events' = Append(events, e)
      PROVE  Spent \subseteq Spent'
  <2>1. /\ Len(events') = Len(events) + 1
        /\ \A i \in 1..Len(events) : events'[i] = events[i]
    BY <1>1, <1>3, AppendProperties
  <2>2. \A i \in 1..Len(events) : i \in 1..Len(events')
    BY <1>1, <2>1
  <2>. QED
    BY <2>1, <2>2 DEF Spent
<1>. QED
  BY <1>2, <1>3, EventsStep

\* An event, once filed, stays as it is.
LEMMA EventsKept ==
    ASSUME TypeOK, [Next]_vars, NEW i \in 1..Len(events)
    PROVE  i \in 1..Len(events') /\ events'[i] = events[i]
<1>1. events \in Seq(Events) /\ Len(events) \in Nat
  BY LenProperties DEF TypeOK
<1>2. ASSUME NEW e \in Events, events' = Append(events, e)
      PROVE  i \in 1..Len(events') /\ events'[i] = events[i]
  <2>1. Len(events') = Len(events) + 1 /\ events'[i] = events[i]
    BY <1>1, <1>2, AppendProperties
  <2>. QED
    BY <1>1, <2>1
<1>. QED
  BY <1>2, EventsStep

\* A verified punch, once filed, counts for its card and cycle for good.
LEMMA EarnedGrows ==
    ASSUME TypeOK, [Next]_vars, NEW c, NEW n
    PROVE  /\ Earned(c, n) \subseteq Earned(c, n)'
           /\ IsFiniteSet(Earned(c, n)')
           /\ Cardinality(Earned(c, n)) \in Nat /\ Cardinality(Earned(c, n)') \in Nat
           /\ Cardinality(Earned(c, n)) <= Cardinality(Earned(c, n)')
<1>1. events \in Seq(Events) /\ Len(events) \in Nat
  BY LenProperties DEF TypeOK
<1>2. Earned(c, n) \subseteq Earned(c, n)'
  <2>1. CASE events' = events
    BY <2>1 DEF Earned
  <2>2. ASSUME NEW e \in Events, events' = Append(events, e)
        PROVE  Earned(c, n) \subseteq Earned(c, n)'
    <3>1. /\ Len(events') = Len(events) + 1
          /\ \A i \in 1..Len(events) : events'[i] = events[i]
      BY <1>1, <2>2, AppendProperties
    <3>2. \A i \in 1..Len(events) : i \in 1..Len(events')
      BY <1>1, <3>1
    <3>. QED
      BY <3>1, <3>2 DEF Earned
  <2>. QED
    BY <2>1, <2>2, EventsStep
<1>3. IsFiniteSet(Earned(c, n)')
  <2>1. Len(events') \in Nat
    BY TypeNext, LenProperties DEF TypeOK
  <2>2. IsFiniteSet(1..Len(events'))
    BY <2>1, FS_Interval
  <2>3. Earned(c, n)' \subseteq 1..Len(events')
    BY DEF Earned
  <2>. QED
    BY <2>2, <2>3, FS_Subset
<1>. QED
  BY <1>2, <1>3, EarnedFinite, FS_Subset, FS_CardinalityType

LEMMA SingleUseInit == Init => SingleUse
BY DEF Init, SingleUse

LEMMA SingleUseNext ==
    ASSUME TypeOK, SingleUse, [Next]_vars
    PROVE  SingleUse'
<1>1. events \in Seq(Events) /\ Len(events) \in Nat
  BY LenProperties DEF TypeOK
<1>2. CASE events' = events
  BY <1>2 DEF SingleUse
<1>3. ASSUME NEW s \in Sessions, IndexAdmits(req[s]), Filed(req[s]) \in Events,
             events' = Append(events, Filed(req[s]))
      PROVE  SingleUse'
  <2> DEFINE e == Filed(req[s])
             n == Len(events) + 1
  <2>1. /\ Len(events') = n
        /\ \A i \in 1..Len(events) : events'[i] = events[i]
        /\ events'[n] = e
    BY <1>1, <1>3, AppendProperties
  <2>2. ASSUME e.status = "verified", NEW i \in 1..Len(events),
               events[i].status = "verified",
               Fingerprint(events[i].card, events[i].receipt) = Fingerprint(e.card, e.receipt)
        PROVE  FALSE
    <3>1. Fingerprint(e.card, e.receipt) \in Spent
      BY <2>2 DEF Spent
    <3>2. req[s].verdict = "verified" /\ e.card = req[s].card /\ e.receipt = req[s].receipt
      BY <2>2 DEF Filed
    <3>. QED
      BY <1>3, <3>1, <3>2 DEF IndexAdmits
  <2>. HIDE DEF e
  <2>3. \A i \in 1..Len(events') : i = n \/ i \in 1..Len(events)
    BY <1>1, <2>1
  <2>. SUFFICES ASSUME NEW i \in 1..Len(events'), NEW j \in 1..Len(events'),
                       events'[i].status = "verified", events'[j].status = "verified",
                       Fingerprint(events'[i].card, events'[i].receipt)
                           = Fingerprint(events'[j].card, events'[j].receipt)
                PROVE  i = j
    BY DEF SingleUse
  <2>4. CASE i = n /\ j = n
    BY <2>4
  <2>5. CASE i = n /\ j \in 1..Len(events)
    BY <2>1, <2>2, <2>5
  <2>6. CASE i \in 1..Len(events) /\ j = n
    BY <2>1, <2>2, <2>6
  <2>7. CASE i \in 1..Len(events) /\ j \in 1..Len(events)
    BY <2>1, <2>7 DEF SingleUse
  <2>. QED
    BY <2>3, <2>4, <2>5, <2>6, <2>7
<1>. QED
  BY <1>2, <1>3, EventsStep

\* However submissions race, crash and retry, and on whatever cards they are
\* made, no receipt earns a second punch within its scope.
THEOREM ReceiptsAreSingleUse == Spec => []SingleUse
<1>1. TypeOK /\ SingleUse /\ [Next]_vars => SingleUse'
  BY SingleUseNext
<1>. QED
  BY <1>1, SingleUseInit, TypeCorrect, PTL DEF Spec

\* A request's step changes no other request.
LEMMA OthersUnchanged ==
    ASSUME TypeOK, NEW s \in Sessions, Begin(s) \/ Advance(s) \/ Crash(s),
           NEW t \in Sessions, t # s
    PROVE  req'[t] = req[t]
<1>1. CASE Begin(s)
  BY <1>1 DEF Begin, BeginView, BeginSubmit, BeginRecount, BeginShow, BeginScan, TypeOK
<1>2. CASE Advance(s)
  BY <1>2 DEF Advance, FindCard, OpenCard, Loaded, Verify, CheckDuplicate, FileEvent,
     CountPunches, BankPunch, ReadPending, RetireCodes, MintCode, LapseCode, MatchCard,
     VoidCode, Honour, Respond, Goto, Finish, TypeOK
<1>3. CASE Crash(s)
  BY <1>3 DEF Crash, TypeOK
<1>. QED
  BY <1>1, <1>2, <1>3

\* The steps that are not a request's own.
Around ==
    \/ UNCHANGED vars
    \/ \E v \in Venues, n \in Thresholds, enabled \in BOOLEAN :
          OptIn(v, n, enabled) \/ UpdateProgram(v, n, enabled)
    \/ Tick

LEMMA AroundChangesLittle ==
    ASSUME Around
    PROVE  UNCHANGED <<opened, card, events, codes, redemptions, req>>
BY DEF Around, vars, OptIn, UpdateProgram, Tick

LEMMA StepKinds ==
    ASSUME [Next]_vars
    PROVE  Around \/ \E s \in Sessions : Begin(s) \/ Advance(s) \/ Crash(s)
BY DEF Next, Around

\* Which action brings a request to which step.
LEMMA StepFrom ==
    ASSUME TypeOK, NEW s \in Sessions, Begin(s) \/ Advance(s) \/ Crash(s)
    PROVE  /\ req'[s].step = "card" =>
                \E c \in Cards : \/ BeginView(s, c) \/ BeginShow(s, c)
                                \/ \E r \in Receipts : BeginSubmit(s, c, r)
           /\ req'[s].step = "insert" => FindCard(s) /\ Goto(s, "insert")
           /\ req'[s].step = "count" =>
                (FileEvent(s) /\ Goto(s, "count")) \/ \E c \in Cards : BeginRecount(s, c)
           /\ req'[s].step = "bank" => CountPunches(s)
           /\ req'[s].step = "pending" =>
                (FindCard(s) \/ OpenCard(s)) /\ Loaded(s, card[req[s].card])
           /\ req'[s].step = "retire" => ReadPending(s)
           /\ req'[s].step = "mint" => RetireCodes(s) /\ Goto(s, "mint")
<1>. USE DEF TypeOK
<1>1. ASSUME NEW step, Goto(s, step) PROVE req'[s].step = step
  BY <1>1 DEF Goto, Requests
<1>2. ASSUME NEW r, NEW a, req' = [req EXCEPT ![s] = Closed(r, a)]
      PROVE  req'[s].step = "done"
  BY <1>2 DEF Closed, Bare
<1>3. CASE Begin(s)
  <2>1. ASSUME NEW c \in Cards, BeginView(s, c) PROVE req'[s].step = "card"
    BY <2>1 DEF BeginView, Bare
  <2>2. ASSUME NEW c \in Cards, NEW r \in Receipts, BeginSubmit(s, c, r)
        PROVE  req'[s].step \in {"card", "done"}
    BY <2>2 DEF BeginSubmit, Closed, Bare
  <2>3. ASSUME NEW c \in Cards, BeginRecount(s, c) PROVE req'[s].step = "count"
    BY <2>3 DEF BeginRecount, Bare
  <2>4. ASSUME NEW c \in Cards, BeginShow(s, c) PROVE req'[s].step \in {"card", "done"}
    BY <2>4 DEF BeginShow, Closed, Bare
  <2>5. ASSUME NEW k \in 0..Len(codes), NEW claimed \in Venues \cup {None},
               NEW at \in Venues \cup {None}, BeginScan(s, k, claimed, at)
        PROVE  req'[s].step \in {"lapse", "match", "done"}
    BY <2>5 DEF BeginScan, Closed, Bare
  <2>. QED
    BY <1>3, <2>1, <2>2, <2>3, <2>4, <2>5 DEF Begin
<1>4. CASE FindCard(s) \/ OpenCard(s)
  <2>1. \/ Loaded(s, card[req[s].card])
        \/ FindCard(s) /\ Goto(s, "insert")
        \/ Finish(s, "failed")
    BY <1>4 DEF FindCard, OpenCard
  <2>2. ASSUME Loaded(s, card[req[s].card])
        PROVE  req'[s].step \in {"verify", "pending", "done"}
    BY <2>2 DEF Loaded, Closed, Bare, Requests
  <2>. QED
    BY <1>1, <1>2, <1>4, <2>1, <2>2 DEF Finish
<1>5. CASE Verify(s)
  <2>1. ASSUME NEW v, req' = [req EXCEPT ![s].step = "dedupe", ![s].verdict = v]
        PROVE  req'[s].step = "dedupe"
    BY <2>1 DEF Requests
  <2>. QED
    BY <1>2, <1>5, <2>1 DEF Verify, Finish
<1>6. CASE CheckDuplicate(s)
  BY <1>1, <1>2, <1>6 DEF CheckDuplicate, Finish
<1>7. CASE FileEvent(s)
  BY <1>1, <1>2, <1>7 DEF FileEvent, Finish
<1>8. CASE CountPunches(s) \/ ReadPending(s)
  <2>1. CountPunches(s) => req'[s].step = "bank"
    BY DEF CountPunches, Requests
  <2>2. ReadPending(s) => req'[s].step = "retire"
    BY DEF ReadPending, Requests
  <2>. QED
    BY <1>8, <2>1, <2>2
<1>9. CASE BankPunch(s) \/ LapseCode(s) \/ VoidCode(s) \/ Honour(s)
  BY <1>2, <1>9 DEF BankPunch, LapseCode, VoidCode, Honour, Finish
<1>10. CASE RetireCodes(s)
  BY <1>1, <1>2, <1>10 DEF RetireCodes
<1>11. CASE MintCode(s)
  BY <1>2, <1>11 DEF MintCode
<1>12. CASE MatchCard(s)
  <2>1. CASE req' = [req EXCEPT ![s].step = "honour", ![s].cycle = card[req[s].card].cycle,
                                ![s].count = card[req[s].card].count,
                                ![s].need = program[VenueOf(req[s].card)].required]
    BY <2>1 DEF Requests
  <2>. QED
    BY <1>1, <1>2, <1>12, <2>1 DEF MatchCard, Finish
<1>13. CASE Respond(s) \/ Crash(s)
  BY <1>13 DEF Respond, Crash, Idle, Bare
<1>. QED
  BY <1>3, <1>4, <1>5, <1>6, <1>7, <1>8, <1>9, <1>10, <1>11, <1>12, <1>13 DEF Advance

\* How a request's own step may change its answer.
LEMMA AnswerStep ==
    ASSUME TypeOK, NEW s \in Sessions, Begin(s) \/ Advance(s) \/ Crash(s)
    PROVE  \/ /\ req'[s].answer = req[s].answer
              /\ req'[s].card = req[s].card
              /\ req'[s].receipt = req[s].receipt
           \/ req'[s].answer # "duplicate"
           \/ /\ CheckDuplicate(s) \/ FileEvent(s)
              /\ Finish(s, "duplicate")
<1>. USE DEF TypeOK
<1>1. ASSUME NEW step, Goto(s, step)
      PROVE  /\ req'[s].answer = req[s].answer
             /\ req'[s].card = req[s].card
             /\ req'[s].receipt = req[s].receipt
  BY <1>1 DEF Goto, Requests
<1>2. ASSUME NEW a, NEW r, a # "duplicate", req' = [req EXCEPT ![s] = Closed(r, a)]
      PROVE  req'[s].answer # "duplicate"
  BY <1>2 DEF Closed, Bare
<1>3. CASE Begin(s)
  <2>1. ASSUME NEW c \in Cards, BeginView(s, c) PROVE req'[s].answer # "duplicate"
    BY <2>1 DEF BeginView, Bare
  <2>2. ASSUME NEW c \in Cards, NEW r \in Receipts, BeginSubmit(s, c, r)
        PROVE  req'[s].answer # "duplicate"
    BY <2>2 DEF BeginSubmit, Closed, Bare
  <2>3. ASSUME NEW c \in Cards, BeginRecount(s, c) PROVE req'[s].answer # "duplicate"
    BY <2>3 DEF BeginRecount, Bare
  <2>4. ASSUME NEW c \in Cards, BeginShow(s, c) PROVE req'[s].answer # "duplicate"
    BY <2>4 DEF BeginShow, Closed, Bare
  <2>5. ASSUME NEW k \in 0..Len(codes), NEW claimed \in Venues \cup {None},
               NEW at \in Venues \cup {None}, BeginScan(s, k, claimed, at)
        PROVE  req'[s].answer # "duplicate"
    <3>1. k \in 1..Len(codes) => codes[k] \in Codes
      BY ElementOfSeq
    <3>2. ScanVerdict(k, claimed, at) # "duplicate"
      BY <3>1 DEF ScanVerdict, SpentAnswer, Codes
    <3>. QED
      BY <2>5, <3>2 DEF BeginScan, Closed, Bare
  <2>. QED
    BY <1>3, <2>1, <2>2, <2>3, <2>4, <2>5 DEF Begin
<1>4. CASE FindCard(s) \/ OpenCard(s)
  <2>1. Loaded(s, card[req[s].card]) \/ Goto(s, "insert") \/ Finish(s, "failed")
    BY <1>4 DEF FindCard, OpenCard
  <2>2. ASSUME Loaded(s, card[req[s].card])
        PROVE  \/ /\ req'[s].answer = req[s].answer
                  /\ req'[s].card = req[s].card
                  /\ req'[s].receipt = req[s].receipt
               \/ req'[s].answer # "duplicate"
    BY <2>2 DEF Loaded, Closed, Bare, Requests
  <2>. QED
    BY <1>1, <1>2, <2>1, <2>2 DEF Finish
<1>5. CASE Verify(s)
  <2>1. CASE Finish(s, "unavailable")
    BY <1>2, <2>1 DEF Finish
  <2>2. ASSUME NEW v \in {"verified", "rejected"},
               req' = [req EXCEPT ![s].step = "dedupe", ![s].verdict = v]
        PROVE  /\ req'[s].answer = req[s].answer
               /\ req'[s].card = req[s].card
               /\ req'[s].receipt = req[s].receipt
    BY <2>2 DEF Requests
  <2>. QED
    BY <1>5, <2>1, <2>2 DEF Verify
<1>6. CASE CheckDuplicate(s) \/ FileEvent(s)
  BY <1>1, <1>2, <1>6 DEF CheckDuplicate, FileEvent, Finish
<1>7. CASE CountPunches(s) \/ ReadPending(s)
  BY <1>7 DEF CountPunches, ReadPending, Requests
<1>8. CASE BankPunch(s) \/ LapseCode(s) \/ VoidCode(s) \/ Honour(s)
  BY <1>2, <1>8 DEF BankPunch, LapseCode, VoidCode, Honour, Finish
<1>9. CASE RetireCodes(s) \/ MintCode(s)
  BY <1>1, <1>2, <1>9 DEF RetireCodes, MintCode
<1>10. CASE MatchCard(s)
  BY <1>1, <1>2, <1>10 DEF MatchCard, Finish, Requests
<1>11. CASE Respond(s) \/ Crash(s)
  BY <1>11 DEF Respond, Crash, Idle, Bare
<1>. QED
  BY <1>3, <1>4, <1>5, <1>6, <1>7, <1>8, <1>9, <1>10, <1>11 DEF Advance

LEMMA DuplicateNext ==
    ASSUME ~ImagesVanish, TypeOK, DuplicateMeansEarned, [Next]_vars
    PROVE  DuplicateMeansEarned'
<1>1. Spent \subseteq Spent'
  BY SpentGrows
<1>. SUFFICES ASSUME NEW t \in Sessions, req'[t].answer = "duplicate"
              PROVE  Fingerprint(req'[t].card, req'[t].receipt) \in Spent'
  BY DEF DuplicateMeansEarned
<1>2. CASE req'[t].answer = req[t].answer /\ req'[t].card = req[t].card
                                         /\ req'[t].receipt = req[t].receipt
  BY <1>1, <1>2 DEF DuplicateMeansEarned
<1>3. ASSUME CheckDuplicate(t) \/ FileEvent(t), Finish(t, "duplicate")
      PROVE  Fingerprint(req'[t].card, req'[t].receipt) \in Spent'
  <2>1. req[t] \in Requests /\ req'[t] = Closed(req[t], "duplicate")
    BY <1>3 DEF Finish, TypeOK
  <2>2. req'[t].card = req[t].card /\ req'[t].receipt = req[t].receipt
    BY <2>1 DEF Closed, Bare
  <2>3. "duplicate" # "rejected"
    OBVIOUS
  <2>4. CASE CheckDuplicate(t)
    <3>1. CASE AlreadyEarned(req[t])
      BY <1>1, <2>2, <3>1 DEF AlreadyEarned
    <3>2. CASE Goto(t, "file")
      <4>1. req'[t].step = "file"
        BY <3>2 DEF Goto, TypeOK, Requests
      <4>. QED
        BY <2>1, <4>1 DEF Closed, Bare
    <3>. QED
      BY <2>4, <3>1, <3>2 DEF CheckDuplicate
  <2>5. CASE FileEvent(t)
    <3>1. CASE ~IndexAdmits(req[t])
      BY <1>1, <2>2, <3>1 DEF IndexAdmits
    <3>2. CASE Goto(t, "count")
      <4>1. req'[t].step = "count"
        BY <3>2 DEF Goto, TypeOK, Requests
      <4>. QED
        BY <2>1, <4>1 DEF Closed, Bare
    <3>3. CASE Finish(t, "rejected")
      <4>1. req'[t].answer = "rejected"
        BY <3>3 DEF Finish, TypeOK, Closed, Bare
      <4>. QED
        BY <4>1
    <3>. QED
      BY <2>5, <3>1, <3>2, <3>3 DEF FileEvent
  <2>. QED
    BY <1>3, <2>4, <2>5
<1>4. CASE Around
  BY <1>2, <1>4, AroundChangesLittle
<1>5. ASSUME NEW s \in Sessions, Begin(s) \/ Advance(s) \/ Crash(s)
      PROVE  Fingerprint(req'[t].card, req'[t].receipt) \in Spent'
  <2>1. CASE t # s
    BY <1>2, <1>5, <2>1, OthersUnchanged
  <2>2. CASE t = s
    BY <1>2, <1>3, <1>5, <2>2, AnswerStep
  <2>. QED
    BY <2>1, <2>2
<1>. QED
  BY <1>4, <1>5, StepKinds

\* As long as the picture of a receipt is kept until the receipt is judged, a
\* customer is told "duplicate" only of a receipt that earned a punch: under any
\* race and any crash every other integrity error has been ruled out by then.
THEOREM DuplicatesAreTrue ==
    ASSUME ~ImagesVanish
    PROVE  Spec => []DuplicateMeansEarned
<1>1. Init => DuplicateMeansEarned
  BY DEF Init, DuplicateMeansEarned, Idle, Bare
<1>2. TypeOK /\ DuplicateMeansEarned /\ [Next]_vars => DuplicateMeansEarned'
  BY DuplicateNext
<1>. QED
  BY <1>1, <1>2, TypeCorrect, PTL DEF Spec

-----------------------------------------------------------------------------
(* Punch counts *)

\* A card's row is written by a request about that card that was in flight.
LEMMA CardStep ==
    ASSUME TypeOK, [Next]_vars
    PROVE  \/ card' = card
           \/ \E s \in Sessions :
                /\ BankPunch(s) \/ Honour(s)
                /\ Busy(s)
                /\ \A c \in Cards : c # req[s].card => card'[c] = card[c]
<1>1. CASE Around
  BY <1>1, AroundChangesLittle
<1>2. ASSUME NEW s \in Sessions, Begin(s) \/ Crash(s) PROVE card' = card
  BY <1>2 DEF Begin, BeginView, BeginSubmit, BeginRecount, BeginShow, BeginScan, Crash
<1>3. ASSUME NEW s \in Sessions, Advance(s), ~BankPunch(s), ~Honour(s) PROVE card' = card
  BY <1>3 DEF Advance, FindCard, OpenCard, Verify, CheckDuplicate, FileEvent, CountPunches,
     ReadPending, RetireCodes, MintCode, LapseCode, MatchCard, VoidCode, Respond
<1>4. ASSUME NEW s \in Sessions, BankPunch(s) \/ Honour(s)
      PROVE  Busy(s) /\ \A c \in Cards : c # req[s].card => card'[c] = card[c]
  BY <1>4 DEF BankPunch, Honour, Busy, TypeOK
<1>. QED
  BY <1>1, <1>2, <1>3, <1>4, StepKinds

\* A tally about to be banked counts no punch that was not earned.
Tallied ==
    \A s \in Sessions :
        req[s].step = "bank" => req[s].tally <= Cardinality(Earned(req[s].card, req[s].cycle))

LEMMA TalliedNext ==
    ASSUME TypeOK, Tallied, [Next]_vars
    PROVE  Tallied'
<1>. SUFFICES ASSUME NEW t \in Sessions, req'[t].step = "bank",
                     NEW c, c = req'[t].card, NEW n, n = req'[t].cycle
              PROVE  req'[t].tally <= Cardinality(Earned(c, n)')
  BY DEF Tallied, Earned
<1>1. CASE req'[t] = req[t]
  <2>1. req[t].tally <= Cardinality(Earned(c, n)) /\ req[t].tally \in Nat
    BY <1>1 DEF Tallied, TypeOK, Requests
  <2>2. Cardinality(Earned(c, n)) \in Nat /\ Cardinality(Earned(c, n)') \in Nat
    BY EarnedGrows
  <2>3. Cardinality(Earned(c, n)) <= Cardinality(Earned(c, n)')
    BY EarnedGrows
  <2>. QED
    BY <1>1, <2>1, <2>2, <2>3
<1>2. CASE CountPunches(t)
  <2>1. /\ events' = events /\ req[t] \in Requests
        /\ req'[t] = [req[t] EXCEPT !.step = "bank", !.tally = VerifiedPunchCount(req[t])]
    BY <1>2 DEF CountPunches, TypeOK
  <2>2. /\ req'[t].tally = Cardinality(Earned(req[t].card, req[t].cycle))
        /\ req'[t].card = req[t].card /\ req'[t].cycle = req[t].cycle
    BY <2>1 DEF Requests, VerifiedPunchCount
  <2>3. Earned(c, n)' = Earned(c, n)
    BY <2>1 DEF Earned
  <2>4. req'[t].tally = Cardinality(Earned(c, n)) /\ Cardinality(Earned(c, n)) \in Nat
    BY <2>2, EarnedGrows
  <2>. QED
    BY <2>3, <2>4
<1>3. CASE Around
  BY <1>1, <1>3, AroundChangesLittle
<1>4. ASSUME NEW s \in Sessions, Begin(s) \/ Advance(s) \/ Crash(s)
      PROVE  req'[t].tally <= Cardinality(Earned(c, n)')
  BY <1>1, <1>2, <1>4, StepFrom, OthersUnchanged
<1>. QED
  BY <1>3, <1>4, StepKinds

LEMMA CountWasEarnedNext ==
    ASSUME TypeOK, Tallied, CountWasEarned, [Next]_vars
    PROVE  CountWasEarned'
<1> DEFINE Earning(c, k) == \E i \in 1..Len(events) :
                               /\ events[i].card = c
                               /\ k <= Cardinality(Earned(c, events[i].cycle))
<1>. SUFFICES ASSUME NEW c \in Cards, card'[c].count # 0,
                     NEW k, k = card'[c].count
              PROVE  Earning(c, k)'
  BY DEF CountWasEarned
<1>1. card[c] \in CardRows /\ card'[c] \in CardRows
  BY TypeNext DEF TypeOK
<1>2. k \in Nat
  BY <1>1 DEF CardRows
<1>3. ASSUME Earning(c, k) PROVE Earning(c, k)'
  <2>1. PICK i \in 1..Len(events) : events[i].card = c
                                    /\ k <= Cardinality(Earned(c, events[i].cycle))
    BY <1>3
  <2>2. i \in 1..Len(events') /\ events'[i] = events[i]
    BY EventsKept
  <2>3. \A n : /\ Cardinality(Earned(c, n)) \in Nat /\ Cardinality(Earned(c, n)') \in Nat
               /\ Cardinality(Earned(c, n)) <= Cardinality(Earned(c, n)')
    BY EarnedGrows
  <2>4. \A n : k <= Cardinality(Earned(c, n)) => k <= Cardinality(Earned(c, n)')
    BY <1>2, <2>3
  <2>5. k <= Cardinality({j \in 1..Len(events') : /\ events'[j].status = "verified"
                                                  /\ events'[j].card = c
                                                  /\ events'[j].cycle = events'[i].cycle})
    BY <2>1, <2>2, <2>4 DEF Earned
  <2>. QED
    BY <2>1, <2>2, <2>5 DEF Earned
<1>4. card[c].count = k => Earning(c, k)
  BY DEF CountWasEarned
<1>5. CASE card'[c] = card[c]
  BY <1>3, <1>4, <1>5
<1>6. ASSUME NEW s \in Sessions, BankPunch(s), c = req[s].card, card'[c] # card[c]
      PROVE  Earning(c, k)
  <2>1. card'[c] = Banked(req[s], card[c])
    BY <1>6 DEF BankPunch, TypeOK
  <2>2. k = req[s].tally
    BY <1>1, <1>6, <2>1 DEF Banked, CardRows
  <2>3. k <= Cardinality(Earned(c, req[s].cycle))
    BY <1>6, <2>2 DEF BankPunch, Tallied
  <2>4. Earned(c, req[s].cycle) # {}
    BY <1>2, <2>3, FS_EmptySet
  <2>5. PICK i \in 1..Len(events) : events[i].card = c /\ events[i].cycle = req[s].cycle
    BY <2>4 DEF Earned
  <2>. QED
    BY <2>3, <2>5
<1>7. ASSUME NEW s \in Sessions, Honour(s), c = req[s].card
      PROVE  card[c].count = k
  <2>1. card'[c] = NextCycle(req[s], card[c])
    BY <1>7 DEF Honour, TypeOK
  <2>. QED
    BY <1>1, <2>1 DEF NextCycle, CardRows
<1>. QED
  BY <1>3, <1>4, <1>5, <1>6, <1>7, CardStep

\* However requests interleave and die, a stored count is one that some cycle
\* of that very card earned: recounting cannot invent punches.
THEOREM CountsWereEarned == Spec => []CountWasEarned
<1>1. Init => Tallied /\ CountWasEarned
  BY DEF Init, Tallied, CountWasEarned, Idle, Bare
<1>2. TypeOK /\ Tallied /\ CountWasEarned /\ [Next]_vars => Tallied' /\ CountWasEarned'
  BY TalliedNext, CountWasEarnedNext
<1>. QED
  BY <1>1, <1>2, TypeCorrect, PTL DEF Spec
=============================================================================
