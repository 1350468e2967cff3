-------------------------- MODULE LedgerSerialProofs --------------------------
(***************************************************************************)
(* What the mirror guarantees on a host that runs one request per venue at *)
(* a time and reconcile alone, for any number of users, venues, sessions   *)
(* and faults.                                                             *)
(***************************************************************************)
EXTENDS HederaLedgerProofs

-----------------------------------------------------------------------------
(* Where a call stands after a step, compared with the record r the step   *)
(* leaves behind                                                           *)

\* A reconcile pass between two items.
Parked(n, r) ==
    /\ r.op = "reconcile" /\ n.op = "reconcile" /\ n.step = "pick"
    /\ n.venue = None /\ n.card = None /\ n.row = 0 /\ n.seq = 0 /\ n.minted = FALSE
    /\ n.progs = r.progs /\ n.cards = r.cards /\ n.phase = r.phase
    /\ n.work = r.work /\ n.queue = r.queue

\* The call is over.
Over(n, r) == (n = Idle /\ r.op # "reconcile") \/ Parked(n, r)

\* The call goes on.
Goes(n, r) ==
    /\ n.op = r.op /\ n.venue = r.venue /\ n.card = r.card /\ n.row = r.row /\ n.seq = r.seq
    /\ n.progs = r.progs /\ n.cards = r.cards /\ n.phase = r.phase /\ n.minted = r.minted
    /\ n.work = r.work /\ n.queue = r.queue

Onward(n, r, S) == Over(n, r) \/ (Goes(n, r) /\ n.step \in S)

\* What the copies say where the call stands.
Placed(r) ==
    /\ r.step \in {"token", "savetoken"} => Program(r).token = 0
    /\ r.step \in {"topic", "savetopic"} => Program(r).token # 0 /\ Program(r).topic = 0
    /\ r.step \in {"mint", "serial"} => Card(r).serial = 0
    /\ r.step \in {"transfer", "holder"} => Card(r).serial # 0 /\ Card(r).holder = 0
    /\ r.step = "pick" => r.op = "reconcile"

LEMMA IdlePlaced == Placed(Idle) /\ Idle.step = "idle" /\ Idle.op = "none"
BY DEF Idle, Bare, Placed

LEMMA AtGoes ==
    ASSUME NEW r \in Requests, NEW step
    PROVE  Goes(At(r, step), r) /\ At(r, step).step = step
BY DEF At, Goes, Requests

LEMMA GoesPlaced ==
    ASSUME NEW n, NEW r, Goes(n, r)
    PROVE  /\ n.step \in {"account", "create", "keep", "submit", "metadata", "proof", "refresh"} => Placed(n)
           /\ n.step \in {"token", "savetoken"} /\ Program(r).token = 0 => Placed(n)
           /\ n.step \in {"topic", "savetopic"} /\ Program(r).token # 0 /\ Program(r).topic = 0 => Placed(n)
           /\ n.step \in {"mint", "serial"} /\ Card(r).serial = 0 => Placed(n)
           /\ n.step \in {"transfer", "holder"} /\ Card(r).serial # 0 /\ Card(r).holder = 0 => Placed(n)
BY DEF Goes, Placed, Program, Card

LEMMA OverPlaced == ASSUME NEW n, NEW r, Over(n, r) PROVE Placed(n)
BY IdlePlaced DEF Over, Parked, Placed

LEMMA EndedOver ==
    ASSUME NEW r \in Requests
    PROVE  /\ Over(Ended(r), r)
           /\ \A S : r.op = "reconcile" => Over([Ended(r) EXCEPT !.touched = S], r)
<1>1. CASE r.op # "reconcile"
  BY <1>1 DEF Ended, Over
<1>2. CASE r.op = "reconcile"
  <2> DEFINE b == Bare("reconcile", "pick", None, None)
             e == [b EXCEPT !.progs = r.progs, !.cards = r.cards, !.phase = r.phase,
                            !.work = r.work, !.queue = r.queue, !.touched = r.touched]
  <2>1. Ended(r) = e
    BY <1>2 DEF Ended
  <2>2. \A S : Parked(e, r) /\ Parked([e EXCEPT !.touched = S], r)
    BY <1>2 DEF Parked, Bare
  <2>. QED
    BY <1>2, <2>1, <2>2 DEF Over
<1>. QED
  BY <1>1, <1>2

LEMMA ToTopicOn ==
    ASSUME NEW r \in Requests, Program(r).token # 0
    PROVE  Onward(ToTopic(r), r, {"topic"}) /\ Placed(ToTopic(r))
BY AtGoes, GoesPlaced, EndedOver, OverPlaced DEF ToTopic, Onward

LEMMA ToTokenOn ==
    ASSUME NEW r \in Requests
    PROVE  Onward(ToToken(r), r, {"token", "topic"}) /\ Placed(ToToken(r))
BY AtGoes, GoesPlaced, ToTopicOn DEF ToToken, Onward

LEMMA ToProofOn ==
    ASSUME NEW r \in Requests
    PROVE  Onward(ToProof(r), r, {"proof"}) /\ Placed(ToProof(r))
BY AtGoes, GoesPlaced, EndedOver, OverPlaced DEF ToProof, Onward

LEMMA ToMetadataOn ==
    ASSUME NEW r \in Requests
    PROVE  Onward(ToMetadata(r), r, {"metadata", "proof"}) /\ Placed(ToMetadata(r))
BY AtGoes, GoesPlaced, ToProofOn DEF ToMetadata, Onward

Publishing == {"submit", "metadata", "proof"}

LEMMA ToSubmitOn ==
    ASSUME NEW r \in Requests
    PROVE  Onward(ToSubmit(r), r, Publishing) /\ Placed(ToSubmit(r))
BY AtGoes, GoesPlaced, ToMetadataOn DEF ToSubmit, Onward, Publishing

LEMMA NftDoneOn ==
    ASSUME NEW r \in Requests
    PROVE  Onward(NftDone(r), r, Publishing) /\ Placed(NftDone(r))
<1>1. CASE r.op = "reconcile"
  <2>1. Over(NftDone(r), r)
    <3>1. Over([Ended(r) EXCEPT !.touched = @], r) /\ Over([Ended(r) EXCEPT !.touched = @ \cup {r.card}], r)
      BY <1>1, EndedOver
    <3>. QED
      BY <1>1, <3>1 DEF NftDone
  <2>. QED
    BY <2>1, OverPlaced DEF Onward
<1>2. CASE r.op # "reconcile"
  <2>1. PICK q : q = [r EXCEPT !.account = 0]
    OBVIOUS
  <2>2. q \in Requests /\ Goes(q, r)
    BY <2>1 DEF Requests, Goes
  <2>3. NftDone(r) = ToSubmit(q)
    BY <1>2, <2>1 DEF NftDone
  <2>4. Onward(ToSubmit(q), q, Publishing) /\ Placed(ToSubmit(q))
    BY <2>2, ToSubmitOn
  <2>5. \A n : Onward(n, q, Publishing) => Onward(n, r, Publishing)
    BY <2>2 DEF Onward, Over, Goes, Parked
  <2>. QED
    BY <2>3, <2>4, <2>5
<1>. QED
  BY <1>1, <1>2

LEMMA ToTransferOn ==
    ASSUME NEW r \in Requests, Card(r).serial # 0
    PROVE  Onward(ToTransfer(r), r, {"transfer"} \cup Publishing) /\ Placed(ToTransfer(r))
BY AtGoes, GoesPlaced, NftDoneOn DEF ToTransfer, Onward

LEMMA ToMintOn ==
    ASSUME NEW r \in Requests
    PROVE  Onward(ToMint(r), r, {"mint", "transfer"} \cup Publishing) /\ Placed(ToMint(r))
BY AtGoes, GoesPlaced, ToTransferOn DEF ToMint, Onward

LEMMA ToNftOn ==
    ASSUME NEW r \in Requests
    PROVE  Onward(ToNft(r), r, {"account"} \cup Publishing) /\ Placed(ToNft(r))
BY AtGoes, GoesPlaced, NftDoneOn DEF ToNft, Onward
-----------------------------------------------------------------------------
(* A venue's request has the venue to itself, and its copies are the rows *)

\* Two requests in flight are at different venues, and a pass of reconcile is
\* the only one.
Apart ==
    \A s, t \in Sessions :
        Busy(s) /\ Busy(t) /\ s # t =>
            req[s].op # "reconcile" /\ req[t].op # "reconcile" /\ req[s].venue # req[t].venue

SameIds(p, q) == p.token = q.token /\ p.topic = q.topic

\* The rows r has loaded are as the tables have them, but for a program's
\* switch, and a request other than reconcile has loaded none of another venue.
Copies(r, programs, cards) ==
    /\ \A v \in Venues : r.progs[v] # None =>
           SameIds(r.progs[v], programs[v]) /\ (r.op # "reconcile" => v = r.venue)
    /\ \A c \in Cards : r.cards[c] # None =>
           r.cards[c] = cards[c] /\ (r.op # "reconcile" => VenueOf(c) = r.venue)

Alone ==
    /\ Apart
    /\ \A w \in Sessions : /\ Copies(req[w], prog, card) /\ Placed(req[w])
                           /\ req[w].step = "idle" => req[w] = Idle

\* A session keeps its place, gives it up, or was let in by the host.
PlaceKept(w, n) ==
    \/ n.step = "idle"
    \/ Busy(w) /\ n.op = req[w].op /\ (n.op # "reconcile" => n.venue = req[w].venue)
    \/ ~Busy(w) /\ n.op # "reconcile" /\ VenueFree(n.venue)
    \/ ~Busy(w) /\ n.op = "reconcile" /\ AllFree

\* What a step of w makes of its request.
Becomes(w, n) ==
    /\ req' = [req EXCEPT ![w] = n]
    /\ PlaceKept(w, n) /\ Placed(n) /\ Copies(n, prog', card')
    /\ n.step = "idle" => n = Idle

\* What a step of w may write: rows of the venue it has to itself.
OwnRows(w) ==
    /\ \A v \in Venues : ~SameIds(prog'[v], prog[v]) => Busy(w) /\ v = req[w].venue
    /\ \A c \in Cards : card'[c] # card[c] => Busy(w) /\ VenueOf(c) = req[w].venue

LEMMA BecomesAlone ==
    ASSUME HostSerialises, IInv, Alone, NEW w \in Sessions, NEW n, Becomes(w, n), OwnRows(w)
    PROVE  Alone'
<1>1. req \in [Sessions -> Requests]
  BY DEF IInv, ReqsOK
<1>2. /\ \A s \in Sessions : req'[s] = IF s = w THEN n ELSE req[s]
  BY <1>1 DEF Becomes
<1>3. Apart'
  BY <1>2 DEF Apart, Alone, Becomes, PlaceKept, Busy, VenueFree, AllFree
<1>4. ASSUME NEW t \in Sessions, t # w PROVE Copies(req[t], prog', card')
  <2>1. Copies(req[t], prog, card) /\ (req[t].step = "idle" => req[t] = Idle)
    BY DEF Alone
  <2>2. CASE ~Busy(w)
    BY <2>1, <2>2 DEF OwnRows, Copies, SameIds
  <2>3. CASE req[t].step = "idle"
    BY <2>1, <2>3 DEF Copies, Idle, Bare
  <2>4. CASE Busy(w) /\ req[t].step # "idle"
    <3>1. req[t].op # "reconcile" /\ req[t].venue # req[w].venue
      BY <1>4, <2>4 DEF Alone, Apart, Busy
    <3>. QED
      BY <2>1, <3>1 DEF OwnRows, Copies, SameIds
  <2>. QED
    BY <2>2, <2>3, <2>4
<1>5. \A t \in Sessions : /\ Copies(req'[t], prog', card') /\ Placed(req'[t])
                          /\ req'[t].step = "idle" => req'[t] = Idle
  BY <1>2, <1>4 DEF Becomes, Alone
<1>. QED
  BY <1>3, <1>5 DEF Alone, Copies, Placed, Program, Card, SameIds

\* A step of w that leaves its request at q and takes it on from there: it ends
\* the call, or the call goes on at one of S.
Takes(w, q, S) ==
    /\ q \in Requests /\ Copies(q, prog', card') /\ OwnRows(w)
    /\ \E n : Onward(n, q, S) /\ Placed(n) /\ req' = [req EXCEPT ![w] = n]

\* The request dies, or has nothing left to do.
Quits(w) == OwnRows(w) /\ req' = [req EXCEPT ![w] = Idle]

\* The same call, of the same item; its copies may have changed.
Alike(q, r) ==
    /\ q.op = r.op /\ q.venue = r.venue /\ q.card = r.card /\ q.row = r.row /\ q.seq = r.seq
    /\ q.phase = r.phase /\ q.work = r.work /\ q.queue = r.queue

\* What a step makes of its request.
Makes(w) == OwnRows(w) /\ \E n : Becomes(w, n)

LEMMA QuitsMakes == ASSUME NEW w \in Sessions, Quits(w) PROVE Makes(w)
BY IdlePlaced DEF Quits, Makes, Becomes, PlaceKept, Copies, Idle, Bare

\* A call that goes on from q, the record its step left behind; the host let it
\* in if it has just begun.
LEMMA TakesMakes ==
    ASSUME NEW w \in Sessions, NEW q, NEW S, "idle" \notin S, Takes(w, q, S),
           \/ Busy(w) /\ q.op = req[w].op /\ (q.op # "reconcile" => q.venue = req[w].venue)
           \/ ~Busy(w) /\ q.op # "reconcile" /\ VenueFree(q.venue)
           \/ ~Busy(w) /\ q.op = "reconcile" /\ AllFree
    PROVE  Makes(w)
<1>1. PICK n : Onward(n, q, S) /\ Placed(n) /\ req' = [req EXCEPT ![w] = n]
  BY DEF Takes
<1>2. CASE n = Idle /\ q.op # "reconcile"
  BY <1>1, <1>2, QuitsMakes DEF Takes, Quits
<1>3. CASE Parked(n, q)
  BY <1>1, <1>3 DEF Makes, Takes, Becomes, PlaceKept, Copies, Parked
<1>4. CASE Goes(n, q) /\ n.step \in S
  <2>1. n.op = q.op /\ n.venue = q.venue /\ n.progs = q.progs /\ n.cards = q.cards /\ n.step # "idle"
    BY <1>4 DEF Goes
  <2>2. Copies(n, prog', card') /\ OwnRows(w)
    BY <2>1 DEF Takes, Copies
  <2>3. PlaceKept(w, n)
    BY <2>1 DEF PlaceKept
  <2>. QED
    BY <1>1, <2>1, <2>2, <2>3 DEF Makes, Becomes
<1>. QED
  BY <1>1, <1>2, <1>3, <1>4 DEF Onward, Over

LEMMA Goings ==
    ASSUME NEW r \in Requests, NEW step, NEW g
    PROVE  /\ Goes([At(r, step) EXCEPT !.got = g], r)
           /\ [At(r, step) EXCEPT !.got = g].step = step
BY DEF At, Goes, Requests

\* The record a session holds, as a constant, and its copies.
LEMMA Held ==
    ASSUME IInv, Alone, NEW w \in Sessions
    PROVE  \E r \in Requests : /\ req[w] = r /\ Sound(r) /\ Placed(r) /\ Copies(r, prog, card)
                               /\ Busy(w) <=> r.step # "idle"
BY Suspended DEF IInv, Alone, Busy

\* A step that writes neither programs nor cards, and goes on from r itself.
LEMMA SameTakes ==
    ASSUME NEW w \in Sessions, NEW r \in Requests, UNCHANGED <<prog, card>>, Copies(r, prog, card),
           NEW n, NEW S, Onward(n, r, S), Placed(n), req' = [req EXCEPT ![w] = n]
    PROVE  Takes(w, r, S)
BY DEF Takes, OwnRows, SameIds, Copies

LEMMA CrashTakes == ASSUME NEW w \in Sessions, Crash(w) PROVE Quits(w)
BY DEF Crash, db, Quits, OwnRows, SameIds

LEMMA NetworkTakes ==
    ASSUME IInv, Alone, NEW w \in Sessions, NEW r, r = req[w]
    PROVE  /\ CreateCollection(w) => Takes(w, r, {"savetoken"})
           /\ CreateTopic(w) => Takes(w, r, {"savetopic"})
           /\ CreateAccount(w) => Takes(w, r, {"keep"} \cup Publishing)
           /\ MintCard(w) => Takes(w, r, {"serial"} \cup Publishing)
           /\ TransferCard(w) => Takes(w, r, {"holder"} \cup Publishing)
           /\ UpdateMetadata(w) => Takes(w, r, {"proof"})
           /\ RefreshMetadata(w) => Takes(w, r, {})
<1>1. r \in Requests /\ Sound(r) /\ Placed(r) /\ Copies(r, prog, card)
  BY Held
<1>2. ASSUME \/ CreateCollection(w) \/ CreateTopic(w) \/ CreateAccount(w) \/ MintCard(w)
             \/ TransferCard(w) \/ UpdateMetadata(w) \/ RefreshMetadata(w)
      PROVE  UNCHANGED <<prog, card>>
  BY <1>2 DEF CreateCollection, CreateTopic, CreateAccount, MintCard, TransferCard,
     UpdateMetadata, RefreshMetadata, Repoint, db
<1>3. ASSUME NEW S, NEW n, UNCHANGED <<prog, card>>, req' = [req EXCEPT ![w] = n],
             Placed(n), Onward(n, r, S)
      PROVE  Takes(w, r, S)
  BY <1>1, <1>3, SameTakes
<1>4. ASSUME CreateCollection(w) PROVE Takes(w, r, {"savetoken"})
  <2>1. PICK q : q = [At(r, "savetoken") EXCEPT !.got = Len(tokens) + 1]
    OBVIOUS
  <2>2. Goes(q, r) /\ q.step = "savetoken" /\ Program(r).token = 0 /\ r.step = "token"
    BY <1>1, <1>4, <2>1, Goings DEF CreateCollection, Placed
  <2>3. Placed(q) /\ Onward(q, r, {"savetoken"})
    BY <2>2, GoesPlaced DEF Onward
  <2>4. Placed(Ended(r)) /\ Onward(Ended(r), r, {"savetoken"})
    BY <1>1, EndedOver, OverPlaced DEF Onward
  <2>5. PICK n : req' = [req EXCEPT ![w] = n] /\ (n = q \/ n = Ended(r))
    BY <1>4, <2>1 DEF CreateCollection, Call
  <2>. QED
    BY <1>2, <1>3, <1>4, <2>3, <2>4, <2>5
<1>5. ASSUME CreateTopic(w) PROVE Takes(w, r, {"savetopic"})
  <2>1. PICK q : q = [At(r, "savetopic") EXCEPT !.got = Len(topics) + 1]
    OBVIOUS
  <2>2. /\ Goes(q, r) /\ q.step = "savetopic" /\ r.step = "topic"
        /\ Program(r).token # 0 /\ Program(r).topic = 0
    BY <1>1, <1>5, <2>1, Goings DEF CreateTopic, Placed
  <2>3. Placed(q) /\ Onward(q, r, {"savetopic"})
    BY <2>2, GoesPlaced DEF Onward
  <2>4. Placed(Ended(r)) /\ Onward(Ended(r), r, {"savetopic"})
    BY <1>1, EndedOver, OverPlaced DEF Onward
  <2>5. PICK n : req' = [req EXCEPT ![w] = n] /\ (n = q \/ n = Ended(r))
    BY <1>5, <2>1 DEF CreateTopic, Call
  <2>. QED
    BY <1>2, <1>3, <1>5, <2>3, <2>4, <2>5
<1>6. ASSUME NEW S
      PROVE  Onward(NftDone(r), r, S \cup Publishing) /\ Placed(NftDone(r))
  BY <1>1, NftDoneOn DEF Onward
<1>7. ASSUME CreateAccount(w) PROVE Takes(w, r, {"keep"} \cup Publishing)
  <2>1. PICK q : q = [At(r, "keep") EXCEPT !.got = Len(accounts) + 1]
    OBVIOUS
  <2>2. Goes(q, r) /\ q.step = "keep" /\ r.step = "create"
    BY <1>1, <1>7, <2>1, Goings DEF CreateAccount
  <2>3. Placed(q) /\ Onward(q, r, {"keep"} \cup Publishing)
    BY <2>2, GoesPlaced DEF Onward
  <2>4. PICK n : req' = [req EXCEPT ![w] = n] /\ (n = q \/ n = NftDone(r))
    BY <1>7, <2>1 DEF CreateAccount, Call
  <2>5. Placed(n) /\ Onward(n, r, {"keep"} \cup Publishing)
    BY <1>6, <2>3, <2>4
  <2>. QED
    BY <1>2, <1>3, <1>7, <2>4, <2>5
<1>8. ASSUME MintCard(w) PROVE Takes(w, r, {"serial"} \cup Publishing)
  <2>1. PICK q : q = [At(r, "serial") EXCEPT !.got = Len(nfts[Program(r).token]) + 1]
    OBVIOUS
  <2>2. Goes(q, r) /\ q.step = "serial" /\ Card(r).serial = 0 /\ r.step = "mint"
    BY <1>1, <1>8, <2>1, Goings DEF MintCard, Placed
  <2>3. Placed(q) /\ Onward(q, r, {"serial"} \cup Publishing)
    BY <2>2, GoesPlaced DEF Onward
  <2>4. PICK n : req' = [req EXCEPT ![w] = n] /\ (n = q \/ n = NftDone(r))
    BY <1>8, <2>1 DEF MintCard, Call
  <2>5. Placed(n) /\ Onward(n, r, {"serial"} \cup Publishing)
    BY <1>6, <2>3, <2>4
  <2>. QED
    BY <1>2, <1>3, <1>8, <2>4, <2>5
<1>9. ASSUME TransferCard(w) PROVE Takes(w, r, {"holder"} \cup Publishing)
  <2>1. PICK q : q = At(r, "holder")
    OBVIOUS
  <2>2. Goes(q, r) /\ q.step = "holder" /\ Card(r).serial # 0 /\ Card(r).holder = 0 /\ r.step = "transfer"
    BY <1>1, <1>9, <2>1, AtGoes DEF TransferCard, Placed
  <2>3. Placed(q) /\ Onward(q, r, {"holder"} \cup Publishing)
    BY <2>2, GoesPlaced DEF Onward
  <2>4. PICK n : req' = [req EXCEPT ![w] = n] /\ (n = q \/ n = NftDone(r))
    BY <1>9, <2>1 DEF TransferCard, Call
  <2>5. Placed(n) /\ Onward(n, r, {"holder"} \cup Publishing)
    BY <1>6, <2>3, <2>4
  <2>. QED
    BY <1>2, <1>3, <1>9, <2>4, <2>5
<1>10. ASSUME UpdateMetadata(w) PROVE Takes(w, r, {"proof"})
  <2>1. Onward(ToProof(r), r, {"proof"}) /\ Placed(ToProof(r)) /\ r.step = "metadata"
    BY <1>1, <1>10, ToProofOn DEF UpdateMetadata
  <2>2. req' = [req EXCEPT ![w] = ToProof(r)]
    BY <1>10 DEF UpdateMetadata, Repoint, Call
  <2>. QED
    BY <1>2, <1>3, <1>10, <2>1, <2>2
<1>11. ASSUME RefreshMetadata(w) PROVE Takes(w, r, {})
  <2>1. Onward(Ended(r), r, {}) /\ Placed(Ended(r)) /\ r.step = "refresh"
    BY <1>1, <1>11, EndedOver, OverPlaced DEF RefreshMetadata, Onward
  <2>2. req' = [req EXCEPT ![w] = Ended(r)]
    BY <1>11 DEF RefreshMetadata, Repoint, Call
  <2>. QED
    BY <1>2, <1>3, <1>11, <2>1, <2>2
<1>. QED
  BY <1>4, <1>5, <1>7, <1>8, <1>9, <1>10, <1>11

Answered(q, r) == q = [r EXCEPT !.seq = Len(log[Program(r).topic]) + 1]
MessageAdded(r) ==
    log' = [log EXCEPT ![Program(r).topic] =
                Append(@, [row |-> r.row, count |-> MessageCount(r)])]

\* An answered message leaves its number in the request.
LEMMA SubmitTakes ==
    ASSUME IInv, Alone, NEW w \in Sessions, Submit(w), NEW r, r = req[w]
    PROVE  \/ Takes(w, r, {"metadata", "proof"})
           \/ \E q : /\ Answered(q, r)
                     /\ Takes(w, q, {"metadata", "proof"})
                     /\ req' = [req EXCEPT ![w] = ToMetadata(q)]
                     /\ MessageAdded(r)
<1>1. r \in Requests /\ Sound(r) /\ Placed(r) /\ Copies(r, prog, card)
  BY Held
<1>2. UNCHANGED <<prog, card>> /\ OwnRows(w)
  BY DEF Submit, db, OwnRows, SameIds
<1>3. PICK q : Answered(q, r)
  BY DEF Answered
<1>4. q \in Requests /\ q.progs = r.progs /\ q.cards = r.cards
      /\ q.op = r.op /\ q.venue = r.venue /\ q.card = r.card
  <2>1. Program(r).topic # 0 /\ GoodProgram(Program(r), r.venue)
    BY <1>1 DEF Submit, Sound, Reached, CardSteps, Holds, OnCard, OnVenue, Program
  <2>2. log[Program(r).topic] \in Seq(Messages)
    BY <2>1, SameDomains DEF GoodProgram, IInv, NetworkOK
  <2>3. PICK k \in Nat : k = Len(log[Program(r).topic]) + 1
    BY <2>2
  <2>4. q = [r EXCEPT !.seq = k] /\ r \in Requests
    BY <1>1, <1>3, <2>3 DEF Answered
  <2>. QED
    BY <2>4 DEF Requests
<1>5. /\ Placed(ToMetadata(q)) /\ Onward(ToMetadata(q), q, {"metadata", "proof"})
      /\ Placed(ToMetadata(r)) /\ Onward(ToMetadata(r), r, {"metadata", "proof"})
  BY <1>1, <1>4, ToMetadataOn
<1>6. Copies(q, prog', card')
  BY <1>1, <1>2, <1>4 DEF Copies
<1>7. CASE req' = [req EXCEPT ![w] = ToMetadata(r)]
  BY <1>1, <1>2, <1>5, <1>7, SameTakes
<1>8. CASE /\ req' = [req EXCEPT ![w] = ToMetadata(q)]
           /\ MessageAdded(r)
  <2>1. Takes(w, q, {"metadata", "proof"})
    BY <1>2, <1>4, <1>5, <1>6, <1>8 DEF Takes
  <2>. QED
    BY <1>3, <1>8, <2>1
<1>. QED
  BY <1>3, <1>7, <1>8 DEF Submit, Call, Answered, MessageAdded

LEMMA AccountTakes ==
    ASSUME IInv, Alone, NEW w \in Sessions, NEW r, r = req[w]
    PROVE  /\ FindAccount(w) => Takes(w, r, {"create", "mint", "transfer"} \cup Publishing)
           /\ KeepAccount(w) => Quits(w) \/ Takes(w, r, {"mint", "transfer"} \cup Publishing)
           /\ WriteProof(w) => Takes(w, r, {})
<1>1. r \in Requests /\ Sound(r) /\ Placed(r) /\ Copies(r, prog, card)
  BY Held
<1>2. ASSUME FindAccount(w) \/ KeepAccount(w) \/ WriteProof(w)
      PROVE  UNCHANGED <<prog, card>>
  BY <1>2 DEF FindAccount, KeepAccount, WriteProof, db
<1>3. r.step \in {"account", "keep"} => OnCard(r) /\ Owner(r.card) \in Users
  BY <1>1 DEF Sound, Reached, CardSteps, NftSteps, OnCard, Cards, Owner
<1>4. ASSUME NEW n, NEW S, UNCHANGED <<prog, card>>, Placed(n), Onward(n, r, S),
             req' = [req EXCEPT ![w] = n]
      PROVE  Takes(w, r, S)
  BY <1>1, <1>4, SameTakes
<1>5. ASSUME NEW a \in Nat, NEW g \in Nat, NEW q, q = [r EXCEPT !.account = a, !.got = g],
             NEW S, {"mint", "transfer"} \cup Publishing \subseteq S,
             UNCHANGED <<prog, card>>, req' = [req EXCEPT ![w] = ToMint(q)]
      PROVE  Takes(w, r, S)
  <2>1. q \in Requests /\ Goes(q, r)
    BY <1>1, <1>5 DEF Requests, Goes
  <2>2. PICK n : n = ToMint(q)
    OBVIOUS
  <2>3. Onward(n, q, {"mint", "transfer"} \cup Publishing) /\ Placed(n)
    BY <2>1, <2>2, ToMintOn
  <2>4. Onward(n, r, S)
    BY <1>5, <2>1, <2>3 DEF Onward, Over, Goes, Parked
  <2>. QED
    BY <1>4, <1>5, <2>2, <2>3, <2>4
<1>6. ASSUME FindAccount(w) PROVE Takes(w, r, {"create", "mint", "transfer"} \cup Publishing)
  <2>1. account[Owner(r.card)] \in Nat /\ r.got \in Nat /\ r.step = "account"
    BY <1>1, <1>3, <1>6 DEF FindAccount, IInv, DbOK, AccountsOK, Requests
  <2>2. CASE account[Owner(r.card)] = 0
    <3>1. PICK n : n = At(r, "create")
      OBVIOUS
    <3>2. Placed(n) /\ Onward(n, r, {"create", "mint", "transfer"} \cup Publishing)
      BY <1>1, <3>1, AtGoes, GoesPlaced DEF Onward
    <3>3. req' = [req EXCEPT ![w] = n]
      BY <1>6, <2>2, <3>1 DEF FindAccount
    <3>. QED
      BY <1>2, <1>4, <1>6, <3>2, <3>3
  <2>3. CASE account[Owner(r.card)] # 0
    <3>1. PICK q : q = [r EXCEPT !.account = account[Owner(r.card)]]
      OBVIOUS
    <3>2. q = [r EXCEPT !.account = account[Owner(r.card)], !.got = r.got]
      BY <1>1, <3>1 DEF Requests
    <3>3. req' = [req EXCEPT ![w] = ToMint(q)]
      BY <1>6, <2>3, <3>1 DEF FindAccount
    <3>4. {"mint", "transfer"} \cup Publishing \subseteq {"create", "mint", "transfer"} \cup Publishing
      OBVIOUS
    <3>. QED
      BY <1>2, <1>5, <1>6, <2>1, <3>2, <3>3, <3>4
  <2>. QED
    BY <2>2, <2>3
<1>7. ASSUME KeepAccount(w) PROVE Quits(w) \/ Takes(w, r, {"mint", "transfer"} \cup Publishing)
  <2>1. CASE account[Owner(r.card)] # 0
    BY <1>2, <1>7, <2>1 DEF KeepAccount, Quits, OwnRows, SameIds
  <2>2. CASE account[Owner(r.card)] = 0
    <3>1. PICK q : q = [r EXCEPT !.account = r.got, !.got = 0]
      OBVIOUS
    <3>2. req' = [req EXCEPT ![w] = ToMint(q)] /\ r.got \in Nat /\ 0 \in Nat
      BY <1>1, <1>7, <2>2, <3>1 DEF KeepAccount, Requests
    <3>. QED
      BY <1>2, <1>5, <1>7, <3>1, <3>2
  <2>. QED
    BY <2>1, <2>2
<1>8. ASSUME WriteProof(w) PROVE Takes(w, r, {})
  <2>1. PICK n : n = IF r.op = "reconcile"
                     THEN [Ended(r) EXCEPT !.touched = @ \cup {r.card}] ELSE Ended(r)
    OBVIOUS
  <2>2. Over(n, r)
    <3>1. Over([Ended(r) EXCEPT !.touched = @ \cup {r.card}], r) \/ r.op # "reconcile"
      BY <1>1, EndedOver
    <3>. QED
      BY <1>1, <2>1, <3>1, EndedOver
  <2>3. Placed(n) /\ Onward(n, r, {})
    BY <2>2, OverPlaced DEF Onward
  <2>4. req' = [req EXCEPT ![w] = n]
    BY <1>8, <2>1 DEF WriteProof
  <2>. QED
    BY <1>2, <1>4, <1>8, <2>3, <2>4
<1>. QED
  BY <1>6, <1>7, <1>8

\* A commit of r's venue or card, and of the copy r keeps of it.
Committed(r, q) ==
    \/ /\ card' = card
       /\ \E p : p # None /\ prog' = [prog EXCEPT ![r.venue] = p]
                 /\ q.progs = [r.progs EXCEPT ![r.venue] = p] /\ q.cards = r.cards
    \/ /\ prog' = prog /\ r.card \in Cards /\ VenueOf(r.card) = r.venue
       /\ \E x : x # None /\ card' = [card EXCEPT ![r.card] = x]
                 /\ q.cards = [r.cards EXCEPT ![r.card] = x] /\ q.progs = r.progs

LEMMA CommittedTakes ==
    ASSUME IInv, NEW w \in Sessions, Busy(w), NEW r \in Requests, req[w] = r, Copies(r, prog, card),
           r.venue \in Venues, NEW q \in Requests, q.op = r.op, q.venue = r.venue, Committed(r, q),
           NEW n, NEW S, Onward(n, q, S), Placed(n), req' = [req EXCEPT ![w] = n]
    PROVE  Takes(w, q, S)
<1>1. /\ prog \in [Venues -> ProgramRows] /\ card \in [Cards -> CardRows]
      /\ r.progs \in [Venues -> ProgramRows \cup {None}]
      /\ r.cards \in [Cards -> CardRows \cup {None}]
  BY DEF IInv, DbOK, ProgramsOK, CardsOK, Requests
<1>2. CASE /\ card' = card
           /\ \E p : p # None /\ prog' = [prog EXCEPT ![r.venue] = p]
                     /\ q.progs = [r.progs EXCEPT ![r.venue] = p] /\ q.cards = r.cards
  <2>1. PICK p : p # None /\ prog' = [prog EXCEPT ![r.venue] = p]
                 /\ q.progs = [r.progs EXCEPT ![r.venue] = p] /\ q.cards = r.cards
    BY <1>2
  <2>2. OwnRows(w)
    BY <1>1, <1>2, <2>1 DEF OwnRows, SameIds
  <2>3. \A v \in Venues : IF v = r.venue THEN q.progs[v] = p /\ prog'[v] = p
                          ELSE q.progs[v] = r.progs[v] /\ prog'[v] = prog[v]
    BY <1>1, <2>1
  <2>4. Copies(q, prog', card')
    BY <1>2, <2>1, <2>3 DEF Copies, SameIds
  <2>. QED
    BY <2>2, <2>4 DEF Takes
<1>3. CASE /\ prog' = prog /\ r.card \in Cards /\ VenueOf(r.card) = r.venue
           /\ \E x : x # None /\ card' = [card EXCEPT ![r.card] = x]
                     /\ q.cards = [r.cards EXCEPT ![r.card] = x] /\ q.progs = r.progs
  <2>1. PICK x : x # None /\ card' = [card EXCEPT ![r.card] = x]
                 /\ q.cards = [r.cards EXCEPT ![r.card] = x] /\ q.progs = r.progs
    BY <1>3
  <2>2. OwnRows(w)
    BY <1>1, <1>3, <2>1 DEF OwnRows, SameIds
  <2>3. \A c \in Cards : IF c = r.card THEN q.cards[c] = x /\ card'[c] = x
                         ELSE q.cards[c] = r.cards[c] /\ card'[c] = card[c]
    BY <1>1, <2>1
  <2>4. Copies(q, prog', card')
    BY <1>3, <2>1, <2>3 DEF Copies, SameIds
  <2>. QED
    BY <2>2, <2>4 DEF Takes
<1>. QED
  BY <1>2, <1>3 DEF Committed

LEMMA SaveTakes ==
    ASSUME IInv, Alone, NEW w \in Sessions, NEW r, r = req[w]
    PROVE  /\ SaveToken(w) => \E q : Takes(w, q, {"topic"}) /\ Alike(q, r) /\ q.minted = r.minted
           /\ SaveTopic(w) => \E q : Takes(w, q, {}) /\ Alike(q, r) /\ q.minted = r.minted
           /\ SaveSerial(w) => \E q : /\ Takes(w, q, {"transfer"} \cup Publishing)
                                      /\ Alike(q, r) /\ q.minted
           /\ SaveHolder(w) => \E q : Takes(w, q, Publishing) /\ Alike(q, r) /\ q.minted = r.minted
<1>1. r \in Requests /\ Sound(r) /\ Placed(r) /\ Copies(r, prog, card) /\ (Busy(w) <=> r.step # "idle")
  BY Held
<1>2. /\ prog \in [Venues -> ProgramRows] /\ card \in [Cards -> CardRows]
      /\ r.progs \in [Venues -> ProgramRows \cup {None}]
      /\ r.cards \in [Cards -> CardRows \cup {None}]
      /\ r.got \in Nat /\ r.account \in Nat /\ None \notin ProgramRows /\ None \notin CardRows
  BY <1>1, NoneIsNoRow DEF IInv, DbOK, ProgramsOK, CardsOK, Requests
<1>3. ASSUME SaveToken(w)
      PROVE  \E q : Takes(w, q, {"topic"}) /\ Alike(q, r) /\ q.minted = r.minted
  <2>1. r.venue \in Venues /\ r.step = "savetoken"
    BY <1>1, <1>3 DEF SaveToken, Sound, Reached, VenueSteps, OnVenue
  <2>2. PICK p : p = [prog[r.venue] EXCEPT !.token = r.got]
    OBVIOUS
  <2>3. p \in ProgramRows /\ prog' = [prog EXCEPT ![r.venue] = p] /\ prog'[r.venue] = p /\ card' = card
    BY <1>1, <1>2, <1>3, <2>1, <2>2 DEF SaveToken, ProgramRows
  <2>4. PICK q : q = [r EXCEPT !.progs[r.venue] = p, !.got = 0]
    OBVIOUS
  <2>5. /\ q \in Requests /\ Alike(q, r) /\ q.cards = r.cards /\ q.minted = r.minted
        /\ q.progs = [r.progs EXCEPT ![r.venue] = p]
    BY <1>1, <2>1, <2>3, <2>4 DEF Requests, Alike
  <2>6. PICK n : n = ToTopic(q)
    OBVIOUS
  <2>0. r.got # 0
    BY <1>1, <2>1 DEF Sound, Reached, IInv, NetworkOK
  <2>9. Program(q).token # 0
    BY <1>1, <1>2, <2>0, <2>1, <2>2, <2>5 DEF Program, Alike, ProgramRows
  <2>7. Onward(n, q, {"topic"}) /\ Placed(n) /\ req' = [req EXCEPT ![w] = n]
    BY <1>3, <2>3, <2>4, <2>5, <2>6, <2>9, ToTopicOn DEF SaveToken
  <2>8. Committed(r, q) /\ Busy(w) /\ q.op = r.op /\ q.venue = r.venue
    BY <1>1, <1>2, <2>1, <2>3, <2>5 DEF Committed, Alike
  <2>. QED
    BY <1>1, <2>1, <2>5, <2>7, <2>8, CommittedTakes
<1>4. ASSUME SaveTopic(w)
      PROVE  \E q : Takes(w, q, {}) /\ Alike(q, r) /\ q.minted = r.minted
  <2>1. r.venue \in Venues /\ r.step = "savetopic"
    BY <1>1, <1>4 DEF SaveTopic, Sound, Reached, VenueSteps, OnVenue
  <2>2. PICK p : p = [prog[r.venue] EXCEPT !.topic = r.got]
    OBVIOUS
  <2>3. p \in ProgramRows /\ prog' = [prog EXCEPT ![r.venue] = p] /\ prog'[r.venue] = p /\ card' = card
    BY <1>1, <1>2, <1>4, <2>1, <2>2 DEF SaveTopic, ProgramRows
  <2>4. PICK q : q = [r EXCEPT !.progs[r.venue] = p]
    OBVIOUS
  <2>5. /\ q \in Requests /\ Alike(q, r) /\ q.cards = r.cards /\ q.minted = r.minted
        /\ q.progs = [r.progs EXCEPT ![r.venue] = p]
    BY <1>1, <2>1, <2>3, <2>4 DEF Requests, Alike
  <2>6. PICK n : n = Ended(q)
    OBVIOUS
  <2>7. Onward(n, q, {}) /\ Placed(n) /\ req' = [req EXCEPT ![w] = n]
    BY <1>4, <2>3, <2>4, <2>5, <2>6, EndedOver, OverPlaced DEF SaveTopic, Onward
  <2>8. Committed(r, q) /\ Busy(w) /\ q.op = r.op /\ q.venue = r.venue
    BY <1>1, <1>2, <2>1, <2>3, <2>5 DEF Committed, Alike
  <2>. QED
    BY <1>1, <2>1, <2>5, <2>7, <2>8, CommittedTakes
<1>5. ASSUME SaveSerial(w)
      PROVE  \E q : Takes(w, q, {"transfer"} \cup Publishing) /\ Alike(q, r) /\ q.minted
  <2>1. /\ r.card \in Cards /\ r.venue \in Venues /\ VenueOf(r.card) = r.venue
        /\ r.step = "serial" /\ r.got # 0
    BY <1>1, <1>5 DEF SaveSerial, Sound, Reached, CardSteps, NftSteps, OnCard, OnVenue
  <2>2. PICK x : x = [card[r.card] EXCEPT !.serial = r.got]
    OBVIOUS
  <2>3. /\ x \in CardRows /\ x.serial = r.got /\ card' = [card EXCEPT ![r.card] = x]
        /\ card'[r.card] = x /\ prog' = prog
    BY <1>1, <1>2, <1>5, <2>1, <2>2 DEF SaveSerial, CardRows
  <2>4. PICK q : q = [r EXCEPT !.cards[r.card] = x, !.minted = TRUE, !.got = 0]
    OBVIOUS
  <2>5. /\ q \in Requests /\ Alike(q, r) /\ q.progs = r.progs /\ q.minted
        /\ q.cards = [r.cards EXCEPT ![r.card] = x]
    BY <1>1, <2>1, <2>3, <2>4 DEF Requests, Alike
  <2>6. PICK n : n = ToTransfer(q)
    OBVIOUS
  <2>7. Card(q).serial # 0
    BY <1>2, <2>1, <2>3, <2>5 DEF Card, Alike
  <2>8. Onward(n, q, {"transfer"} \cup Publishing) /\ Placed(n) /\ req' = [req EXCEPT ![w] = n]
    BY <1>5, <2>3, <2>4, <2>5, <2>6, <2>7, ToTransferOn DEF SaveSerial
  <2>9. Committed(r, q) /\ Busy(w) /\ q.op = r.op /\ q.venue = r.venue
    BY <1>1, <1>2, <2>1, <2>3, <2>5 DEF Committed, Alike
  <2>. QED
    BY <1>1, <2>1, <2>5, <2>8, <2>9, CommittedTakes
<1>6. ASSUME SaveHolder(w)
      PROVE  \E q : Takes(w, q, Publishing) /\ Alike(q, r) /\ q.minted = r.minted
  <2>1. /\ r.card \in Cards /\ r.venue \in Venues /\ VenueOf(r.card) = r.venue
        /\ r.step = "holder"
    BY <1>1, <1>6 DEF SaveHolder, Sound, Reached, CardSteps, NftSteps, OnCard, OnVenue
  <2>2. PICK x : x = [card[r.card] EXCEPT !.holder = r.account]
    OBVIOUS
  <2>3. /\ x \in CardRows /\ card' = [card EXCEPT ![r.card] = x]
        /\ card'[r.card] = x /\ prog' = prog
    BY <1>1, <1>2, <1>6, <2>1, <2>2 DEF SaveHolder, CardRows
  <2>4. PICK q : q = [r EXCEPT !.cards[r.card] = x]
    OBVIOUS
  <2>5. /\ q \in Requests /\ Alike(q, r) /\ q.progs = r.progs /\ q.minted = r.minted
        /\ q.cards = [r.cards EXCEPT ![r.card] = x]
    BY <1>1, <2>1, <2>3, <2>4 DEF Requests, Alike
  <2>6. PICK n : n = NftDone(q)
    OBVIOUS
  <2>7. Onward(n, q, Publishing) /\ Placed(n) /\ req' = [req EXCEPT ![w] = n]
    BY <1>6, <2>3, <2>4, <2>5, <2>6, NftDoneOn DEF SaveHolder
  <2>8. Committed(r, q) /\ Busy(w) /\ q.op = r.op /\ q.venue = r.venue
    BY <1>1, <1>2, <2>1, <2>3, <2>5 DEF Committed, Alike
  <2>. QED
    BY <1>1, <2>1, <2>5, <2>7, <2>8, CommittedTakes
<1>. QED
  BY <1>3, <1>4, <1>5, <1>6

\* The row just filed is the request's.
RowFiledFor(q, r) ==
    /\ q.op = r.op /\ q.venue = r.venue /\ q.card = r.card /\ q.row = Len(rows') /\ q.seq = r.seq
    /\ q.phase = r.phase /\ q.queue = r.queue /\ q.minted = r.minted

LEMMA FileTakes ==
    ASSUME IInv, Alone, NEW w \in Sessions, NEW r, r = req[w]
    PROVE  /\ FilePunch(w) => \E q : Takes(w, q, {"account"} \cup Publishing) /\ RowFiledFor(q, r)
           /\ FileRedemption(w) => \E q : Takes(w, q, Publishing) /\ RowFiledFor(q, r)
<1>1. r \in Requests /\ Sound(r) /\ Placed(r) /\ Copies(r, prog, card) /\ (Busy(w) <=> r.step # "idle")
  BY Held
<1>2. ASSUME FilePunch(w) \/ FileRedemption(w)
      PROVE  /\ r.card \in Cards /\ r.venue \in Venues /\ VenueOf(r.card) = r.venue /\ Busy(w)
             /\ card \in [Cards -> CardRows] /\ r.cards \in [Cards -> CardRows \cup {None}]
             /\ None \notin CardRows /\ card[r.card] \in CardRows /\ Len(rows') \in Nat
  <2>1. /\ r.card \in Cards /\ r.venue \in Venues /\ VenueOf(r.card) = r.venue /\ r.step = "file"
    BY <1>1, <1>2 DEF FilePunch, FileRedemption, Sound, Reached, OnVenue
  <2>2. /\ card \in [Cards -> CardRows] /\ r.cards \in [Cards -> CardRows \cup {None}]
        /\ None \notin CardRows
    BY <1>1, NoneIsNoRow DEF IInv, DbOK, CardsOK, Requests
  <2>3. rows \in Seq(MirrorRows)
    BY DEF IInv, DbOK, RowsOK
  <2>4. \A y : Len(Append(rows, y)) = Len(rows) + 1
    BY <2>3
  <2>5. Len(rows') \in Nat
    BY <1>2, <2>3, <2>4 DEF FilePunch, FileRedemption
  <2>. QED
    BY <1>1, <2>1, <2>2, <2>5
<1>3. ASSUME NEW x \in CardRows, card' = [card EXCEPT ![r.card] = x], prog' = prog,
             FilePunch(w) \/ FileRedemption(w),
             NEW q, q = [r EXCEPT !.cards[r.card] = x, !.row = Len(rows')],
             NEW S, NEW n, Onward(n, q, S), Placed(n), req' = [req EXCEPT ![w] = n]
      PROVE  Takes(w, q, S)
  <2>1. /\ q \in Requests /\ q.op = r.op /\ q.venue = r.venue /\ q.progs = r.progs
        /\ q.cards = [r.cards EXCEPT ![r.card] = x]
    BY <1>1, <1>2, <1>3 DEF Requests
  <2>2. Committed(r, q)
    BY <1>2, <1>3, <2>1 DEF Committed
  <2>. QED
    BY <1>1, <1>2, <1>3, <2>1, <2>2, CommittedTakes
<1>4. ASSUME NEW x \in CardRows, FilePunch(w) \/ FileRedemption(w)
      PROVE  \A q : q = [r EXCEPT !.cards[r.card] = x, !.row = Len(rows')] =>
                 q \in Requests /\ RowFiledFor(q, r)
  <2>1. PICK k \in Nat, c \in Cards : k = Len(rows') /\ c = r.card
    BY <1>2, <1>4
  <2>2. r \in Requests /\ r.cards \in [Cards -> CardRows \cup {None}]
    BY <1>1, <1>2, <1>4
  <2>3. ASSUME NEW q, q = [r EXCEPT !.cards[c] = x, !.row = k]
        PROVE  q \in Requests /\ RowFiledFor(q, r)
    BY <2>1, <2>2, <2>3 DEF Requests, RowFiledFor
  <2>. QED
    BY <2>1, <2>3
<1>5. ASSUME FilePunch(w)
      PROVE  \E q : Takes(w, q, {"account"} \cup Publishing) /\ RowFiledFor(q, r)
  <2>1. PICK m \in Nat : m = Cardinality(Punches(r.card, card[r.card].cycle)) + 1
    BY PunchesAreCounted
  <2>2. PICK x : x = [card[r.card] EXCEPT !.count = m]
    OBVIOUS
  <2>3. x \in CardRows /\ card' = [card EXCEPT ![r.card] = x] /\ card'[r.card] = x /\ prog' = prog
    BY <1>1, <1>2, <1>5, <2>1, <2>2 DEF FilePunch, CardRows
  <2>4. PICK q : q = [r EXCEPT !.cards[r.card] = x, !.row = Len(rows')]
    OBVIOUS
  <2>5. PICK n : n = ToNft(q)
    OBVIOUS
  <2>6. q \in Requests /\ RowFiledFor(q, r)
    BY <1>4, <1>5, <2>3, <2>4
  <2>7. Onward(n, q, {"account"} \cup Publishing) /\ Placed(n)
    BY <2>5, <2>6, ToNftOn
  <2>8. req' = [req EXCEPT ![w] = n]
    BY <1>5, <2>3, <2>4, <2>5 DEF FilePunch
  <2>. QED
    BY <1>3, <1>5, <2>3, <2>4, <2>6, <2>7, <2>8
<1>6. ASSUME FileRedemption(w)
      PROVE  \E q : Takes(w, q, Publishing) /\ RowFiledFor(q, r)
  <2>1. PICK c \in Cards, y \in CardRows : c = r.card /\ y = card[c]
    BY <1>2, <1>6
  <2>2. PICK x : x = [y EXCEPT !.cycle = @ + 1, !.count = 0]
    OBVIOUS
  <2>3. x = [cycle |-> y.cycle + 1, count |-> 0, serial |-> y.serial, holder |-> y.holder]
    BY <2>2 DEF CardRows
  <2>4. x \in CardRows
    BY <2>3 DEF CardRows
  <2>5. card' = [card EXCEPT ![c].cycle = @ + 1, ![c].count = 0] /\ prog' = prog
    BY <1>6, <2>1 DEF FileRedemption
  <2>6. card' = [card EXCEPT ![c] = x] /\ card'[c] = x
    BY <1>2, <1>6, <2>1, <2>2, <2>5
  <2>7. PICK q : q = [r EXCEPT !.cards[r.card] = x, !.row = Len(rows')]
    OBVIOUS
  <2>8. PICK n : n = ToSubmit(q)
    OBVIOUS
  <2>9. q \in Requests /\ RowFiledFor(q, r)
    BY <1>4, <1>6, <2>4, <2>7
  <2>10. Onward(n, q, Publishing) /\ Placed(n)
    BY <2>8, <2>9, ToSubmitOn
  <2>11. req' = [req EXCEPT ![w] = n]
    BY <1>6, <2>1, <2>6, <2>7, <2>8 DEF FileRedemption
  <2>. QED
    BY <1>3, <1>6, <2>1, <2>4, <2>5, <2>6, <2>7, <2>9, <2>10, <2>11
<1>. QED
  BY <1>5, <1>6

\* What Load makes of a record.
LEMMA LoadCopies ==
    ASSUME IInv, NEW r \in Requests, Copies(r, prog, card),
           NEW v \in Venues, NEW c \in Cards \cup {None},
           r.op # "reconcile" => v = r.venue /\ (c # None => VenueOf(c) = r.venue),
           NEW q, q = Load(r, v, c)
    PROVE  /\ q \in Requests /\ Copies(q, prog, card)
           /\ q.op = r.op /\ q.step = r.step /\ q.venue = r.venue /\ q.card = r.card
           /\ q.row = r.row /\ q.seq = r.seq /\ q.phase = r.phase /\ q.minted = r.minted
           /\ q.work = r.work /\ q.queue = r.queue
           /\ q.progs[v] # None /\ (c # None => q.cards[c] # None)
<1>1. None \notin Venues /\ None \notin Cards
  BY LedgerNone DEF Cards
<1>2. /\ r.progs \in [Venues -> ProgramRows \cup {None}]
      /\ r.cards \in [Cards -> CardRows \cup {None}]
  BY DEF Requests
<1>3. /\ prog[v] \in ProgramRows /\ prog[v] # None
      /\ \A d \in Cards : card[d] \in CardRows /\ card[d] # None
  BY NoneIsNoRow DEF IInv, DbOK, ProgramsOK, CardsOK
<1> DEFINE P == IF r.progs[v] = None THEN [r.progs EXCEPT ![v] = prog[v]] ELSE r.progs
           C == IF c # None /\ r.cards[c] = None
                THEN [r.cards EXCEPT ![c] = card[c]] ELSE r.cards
<1>4. /\ P \in [Venues -> ProgramRows \cup {None}] /\ P[v] # None
      /\ \A u \in Venues : P[u] = r.progs[u] \/ (u = v /\ P[u] = prog[v])
  <2>1. CASE r.progs[v] = None
    <3>1. P = [r.progs EXCEPT ![v] = prog[v]]
      BY <2>1
    <3>. HIDE DEF P
    <3>. QED
      BY <1>2, <1>3, <3>1
  <2>2. CASE r.progs[v] # None
    BY <1>2, <2>2
  <2>. QED
    BY <2>1, <2>2
<1>5. /\ C \in [Cards -> CardRows \cup {None}] /\ (c # None => C[c] # None)
      /\ \A d \in Cards : C[d] = r.cards[d] \/ (d = c /\ C[d] = card[d])
  BY <1>1, <1>2, <1>3
<1>6. q = [r EXCEPT !.progs = P, !.cards = C]
  BY <1>1 DEF Load
<1>. HIDE DEF P, C
<1>7. /\ q \in Requests /\ q.progs = P /\ q.cards = C
      /\ q.op = r.op /\ q.step = r.step /\ q.venue = r.venue /\ q.card = r.card
      /\ q.row = r.row /\ q.seq = r.seq /\ q.phase = r.phase /\ q.minted = r.minted
      /\ q.work = r.work /\ q.queue = r.queue
  BY <1>2, <1>4, <1>5, <1>6 DEF Requests
<1>8. Copies(q, prog, card)
  BY <1>1, <1>4, <1>5, <1>7 DEF Copies, SameIds
<1>. QED
  BY <1>4, <1>5, <1>7, <1>8

LEMMA ArriveTakes ==
    ASSUME IInv, NEW w \in Sessions
    PROVE  /\ \A v \in Venues : OptIn(w, v) =>
                  \E q : /\ Takes(w, q, {"token", "topic"}) /\ q.op = "optin" /\ q.venue = v
                         /\ q.row = 0 /\ q.seq = 0 /\ q.queue = {} /\ q.card = None
           /\ \A c \in Cards : \A op \in {"punch", "redeem"} : Begin(w, op, c) =>
                  \E q : /\ Takes(w, q, {"file"}) /\ q.op = op /\ q.venue = VenueOf(c)
                         /\ q.row = 0 /\ q.seq = 0 /\ q.queue = {} /\ q.card = c /\ ~q.minted
           /\ \A c \in Cards : Recount(w, c) =>
                  \E q : /\ Takes(w, q, {"account"} \cup Publishing) /\ q.op = "recount"
                         /\ q.venue = VenueOf(c) /\ q.row = 0 /\ q.seq = 0 /\ q.queue = {}
                         /\ q.card = c /\ ~q.minted
<1>1. ASSUME NEW v \in Venues, OptIn(w, v)
      PROVE  \E q : /\ Takes(w, q, {"token", "topic"}) /\ q.op = "optin" /\ q.venue = v
                    /\ q.row = 0 /\ q.seq = 0 /\ q.queue = {} /\ q.card = None
  <2>1. /\ prog \in [Venues -> ProgramRows] /\ None \notin ProgramRows
    BY NoneIsNoRow DEF IInv, DbOK, ProgramsOK
  <2>2. PICK p : p = [prog[v] EXCEPT !.on = TRUE]
    OBVIOUS
  <2>3. /\ p \in ProgramRows /\ p # None /\ SameIds(p, prog[v])
        /\ prog' = [prog EXCEPT ![v] = p] /\ prog'[v] = p /\ card' = card
    BY <1>1, <2>1, <2>2 DEF OptIn, ProgramRows, SameIds
  <2>4. OwnRows(w)
    BY <2>1, <2>3 DEF OwnRows, SameIds
  <2>5. PICK b : b = Bare("optin", "idle", v, None)
    OBVIOUS
  <2>6. /\ b \in Requests /\ b.op = "optin" /\ b.venue = v /\ b.row = 0 /\ b.seq = 0 /\ b.queue = {}
        /\ b.card = None /\ b.progs = [u \in Venues |-> None] /\ b.cards = [d \in Cards |-> None]
    BY <2>5 DEF Bare, Requests, Ops, Steps, Phases
  <2>7. PICK q : q = [b EXCEPT !.progs[v] = p]
    OBVIOUS
  <2>8. /\ q \in Requests /\ q.op = "optin" /\ q.venue = v /\ q.row = 0 /\ q.seq = 0 /\ q.queue = {}
        /\ q.card = None /\ Copies(q, prog', card')
    BY <2>3, <2>6, <2>7 DEF Requests, Copies, SameIds
  <2>9. PICK n : n = ToToken(q)
    OBVIOUS
  <2>10. Onward(n, q, {"token", "topic"}) /\ Placed(n) /\ req' = [req EXCEPT ![w] = n]
    BY <1>1, <2>3, <2>5, <2>7, <2>8, <2>9, ToTokenOn DEF OptIn
  <2>. QED
    BY <2>4, <2>8, <2>10 DEF Takes
<1>2. ASSUME NEW c \in Cards, NEW op \in {"punch", "redeem", "recount"}, NEW step \in {"file", "idle"},
             NEW b, b = Bare(op, step, VenueOf(c), c), NEW d \in {c, None},
             NEW q, q = Load(b, VenueOf(c), d)
      PROVE  /\ q \in Requests /\ Copies(q, prog, card) /\ q.op = op /\ q.venue = VenueOf(c)
             /\ q.row = 0 /\ q.seq = 0 /\ q.queue = {} /\ q.card = c /\ ~q.minted /\ q.step = step
  <2>1. PICK v \in Venues, e \in Cards \cup {None} : v = VenueOf(c) /\ e = d
    BY DEF Cards, VenueOf
  <2>2. b = Bare(op, step, v, c)
    BY <1>2, <2>1
  <2>3. /\ b \in Requests /\ b.op = op /\ b.venue = v /\ b.row = 0 /\ b.seq = 0 /\ b.queue = {}
        /\ b.card = c /\ b.minted = FALSE /\ b.step = step
    BY <2>2 DEF Bare, Requests, Ops, Steps, Phases
  <2>4. Copies(b, prog, card)
    BY <2>2 DEF Bare, Copies
  <2>5. q = Load(b, v, e)
    BY <1>2, <2>1
  <2>6. b.op # "reconcile" => v = b.venue /\ (e # None => VenueOf(e) = b.venue)
    BY <1>2, <2>1, <2>3
  <2>7. /\ q \in Requests /\ Copies(q, prog, card) /\ q.op = b.op /\ q.step = b.step
        /\ q.venue = b.venue /\ q.card = b.card /\ q.row = b.row /\ q.seq = b.seq
        /\ q.minted = b.minted /\ q.queue = b.queue
    BY <2>3, <2>4, <2>5, <2>6, LoadCopies
  <2>. QED
    BY <2>1, <2>3, <2>7
<1>3. ASSUME NEW c \in Cards, NEW op \in {"punch", "redeem"}, Begin(w, op, c)
      PROVE  \E q : /\ Takes(w, q, {"file"}) /\ q.op = op /\ q.venue = VenueOf(c)
                    /\ q.row = 0 /\ q.seq = 0 /\ q.queue = {} /\ q.card = c /\ ~q.minted
  <2>1. PICK b : b = Bare(op, "file", VenueOf(c), c)
    OBVIOUS
  <2>2. PICK q : q = Load(b, VenueOf(c), None)
    OBVIOUS
  <2>3. PICK o \in {"punch", "redeem", "recount"}, s \in {"file", "idle"}, d \in {c, None} :
            o = op /\ s = "file" /\ d = None
    OBVIOUS
  <2>4. /\ q \in Requests /\ Copies(q, prog, card) /\ q.op = op /\ q.venue = VenueOf(c)
        /\ q.row = 0 /\ q.seq = 0 /\ q.queue = {} /\ q.card = c /\ ~q.minted /\ q.step = "file"
    BY <1>2, <2>1, <2>2, <2>3
  <2>5. Onward(q, q, {"file"}) /\ Placed(q)
    BY <2>4 DEF Onward, Goes, Placed
  <2>6. UNCHANGED <<prog, card>> /\ req' = [req EXCEPT ![w] = q]
    BY <1>3, <2>1, <2>2 DEF Begin, db
  <2>7. Takes(w, q, {"file"})
    BY <2>4, <2>5, <2>6, SameTakes
  <2>. QED
    BY <2>4, <2>7
<1>4. ASSUME NEW c \in Cards, Recount(w, c)
      PROVE  \E q : /\ Takes(w, q, {"account"} \cup Publishing) /\ q.op = "recount"
                    /\ q.venue = VenueOf(c) /\ q.row = 0 /\ q.seq = 0 /\ q.queue = {}
                    /\ q.card = c /\ ~q.minted
  <2>1. PICK b : b = Bare("recount", "idle", VenueOf(c), c)
    OBVIOUS
  <2>2. PICK q : q = Load(b, VenueOf(c), c)
    OBVIOUS
  <2>3. PICK o \in {"punch", "redeem", "recount"}, s \in {"file", "idle"}, d \in {c, None} :
            o = "recount" /\ s = "idle" /\ d = c
    OBVIOUS
  <2>4. /\ q \in Requests /\ Copies(q, prog, card) /\ q.op = "recount" /\ q.venue = VenueOf(c)
        /\ q.row = 0 /\ q.seq = 0 /\ q.queue = {} /\ q.card = c /\ ~q.minted
    BY <1>2, <2>1, <2>2, <2>3
  <2>5. PICK n : n = ToNft(q)
    OBVIOUS
  <2>6. Onward(n, q, {"account"} \cup Publishing) /\ Placed(n)
    BY <2>4, <2>5, ToNftOn
  <2>7. UNCHANGED <<prog, card>> /\ req' = [req EXCEPT ![w] = n]
    BY <1>4, <2>1, <2>2, <2>5 DEF Recount, db
  <2>8. Takes(w, q, {"account"} \cup Publishing)
    BY <2>4, <2>6, <2>7, SameTakes
  <2>. QED
    BY <2>4, <2>8
<1>. QED
  BY <1>1, <1>3, <1>4

\* What a pass of reconcile turns to.
Turns(w, q, S) ==
    /\ Takes(w, q, S) /\ q.op = "reconcile" /\ q.seq = 0 /\ "idle" \notin S
    /\ S \cap {"savetoken", "savetopic", "keep", "serial", "holder", "metadata", "proof"} = {}

LEMMA BeginReconcileTakes ==
    ASSUME IInv, NEW w \in Sessions, BeginReconcile(w)
    PROVE  \E q : Turns(w, q, {"pick"}) /\ q.row = 0 /\ q.queue = {} /\ q.phase = "programs"
<1>1. PICK b : b = Bare("reconcile", "pick", None, None)
  OBVIOUS
<1>2. /\ b \in Requests /\ b.op = "reconcile" /\ b.step = "pick" /\ b.row = 0 /\ b.seq = 0
      /\ b.cards = [d \in Cards |-> None] /\ b.queue = {} /\ b.phase = "programs"
  BY <1>1 DEF Bare, Requests, Ops, Steps, Phases
<1>3. PICK T \in Limited(UnfinishedPrograms) : req' = [req EXCEPT ![w] = [b EXCEPT
                   !.progs = [v \in Venues |-> IF v \in T THEN prog[v] ELSE None], !.work = T]]
  BY <1>1 DEF BeginReconcile
<1>4. PICK P : P = [v \in Venues |-> IF v \in T THEN prog[v] ELSE None]
  OBVIOUS
<1>5. P \in [Venues -> ProgramRows \cup {None}] /\ T \subseteq Venues
  BY <1>4 DEF IInv, DbOK, ProgramsOK, Limited, UnfinishedPrograms
<1>6. PICK n : n = [b EXCEPT !.progs = P, !.work = T]
  OBVIOUS
<1>7. /\ n \in Requests /\ n.op = "reconcile" /\ n.step = "pick" /\ n.cards = b.cards
      /\ n.progs = P /\ n.row = 0 /\ n.seq = 0 /\ n.queue = {} /\ n.phase = "programs"
  BY <1>2, <1>5, <1>6 DEF Requests
<1>8. UNCHANGED <<prog, card>> /\ req' = [req EXCEPT ![w] = n]
  BY <1>3, <1>4, <1>6 DEF BeginReconcile, db
<1>9. Copies(n, prog, card)
  BY <1>2, <1>4, <1>7 DEF Copies, SameIds
<1>10. Onward(n, n, {"pick"}) /\ Placed(n)
  BY <1>7 DEF Onward, Goes, Placed
<1>11. Takes(w, n, {"pick"})
  BY <1>7, <1>8, <1>9, <1>10, SameTakes
<1>. QED
  BY <1>7, <1>11 DEF Turns

LEMMA NextPhaseTakes ==
    ASSUME IInv, Alone, NEW w \in Sessions, NextPhase(w)
    PROVE  \/ Quits(w)
           \/ \E q : /\ Turns(w, q, {"pick"}) /\ q.row = 0
                     /\ \/ q.queue = {}
                        \/ q.phase \in {"punch", "redeem"} /\ q.queue \subseteq Unpublished(q.phase)
<1>1. PICK r \in Requests : /\ req[w] = r /\ Sound(r) /\ Placed(r) /\ Copies(r, prog, card)
                            /\ Busy(w) <=> r.step # "idle"
  BY Held
<1>2. /\ r.step = "pick" /\ r.op = "reconcile" /\ UNCHANGED <<prog, card>> /\ r.queue = {}
      /\ r.row = 0 /\ r.seq = 0 /\ r.cards \in [Cards -> CardRows \cup {None}]
      /\ r.touched \subseteq Cards
  BY <1>1 DEF NextPhase, Placed, db, Sound, Reached, Requests
<1>3. /\ \A c \in Cards : card[c] \in CardRows
      /\ DOMAIN rows \subseteq Nat
  BY DEF IInv, DbOK, CardsOK, RowsOK
<1> DEFINE Kept(n) == /\ n \in Requests /\ n.op = "reconcile" /\ n.step = "pick" /\ n.row = 0
                      /\ n.seq = 0 /\ n.progs = r.progs
                      /\ \A c \in Cards : n.cards[c] = r.cards[c] \/ n.cards[c] = card[c]
<1>4. ASSUME NEW n, Kept(n), req' = [req EXCEPT ![w] = n]
      PROVE  Turns(w, n, {"pick"})
  <2>1. Copies(n, prog, card)
    BY <1>1, <1>2, <1>4 DEF Copies
  <2>2. Onward(n, n, {"pick"}) /\ Placed(n)
    BY <1>4 DEF Onward, Goes, Placed
  <2>3. Takes(w, n, {"pick"})
    BY <1>2, <1>4, <2>1, <2>2, SameTakes
  <2>. QED
    BY <1>4, <2>3 DEF Turns
<1>5. ASSUME NEW T \in Limited(CardsToFinish),
             req' = [req EXCEPT ![w] = [r EXCEPT !.phase = "cards", !.work = T,
                      !.cards = [c \in Cards |-> IF c \in T THEN card[c] ELSE @[c]]]]
      PROVE  \E n : Turns(w, n, {"pick"}) /\ n.row = 0 /\ n.queue = {}
  <2>1. PICK C : C = [c \in Cards |-> IF c \in T THEN card[c] ELSE r.cards[c]]
    OBVIOUS
  <2>2. /\ C \in [Cards -> CardRows \cup {None}] /\ T \subseteq Cards
        /\ \A c \in Cards : C[c] = r.cards[c] \/ C[c] = card[c]
    BY <1>2, <1>3, <2>1 DEF Limited, CardsToFinish
  <2>3. PICK n : n = [r EXCEPT !.phase = "cards", !.work = T, !.cards = C]
    OBVIOUS
  <2>4. Kept(n) /\ n.queue = {}
    BY <1>1, <1>2, <2>2, <2>3 DEF Requests, Phases
  <2>5. req' = [req EXCEPT ![w] = n]
    BY <1>5, <2>1, <2>3
  <2>6. n.row = 0 /\ Turns(w, n, {"pick"})
    BY <1>4, <2>4, <2>5
  <2>. QED
    BY <2>4, <2>6
<1>6. ASSUME NEW kind \in {"punch", "redeem"},
             req' = [req EXCEPT ![w] =
                 [r EXCEPT !.phase = kind, !.queue = Oldest(Unpublished(kind))]]
      PROVE  \E n : /\ Turns(w, n, {"pick"}) /\ n.row = 0
                    /\ n.phase \in {"punch", "redeem"} /\ n.queue \subseteq Unpublished(n.phase)
  <2>1. PICK Q : Q = Oldest(Unpublished(kind))
    OBVIOUS
  <2>2. Q \subseteq Unpublished(kind) /\ Q \subseteq Nat
    BY <1>3, <2>1 DEF Oldest, Unpublished
  <2>3. PICK n : n = [r EXCEPT !.phase = kind, !.queue = Q]
    OBVIOUS
  <2>4. Kept(n) /\ n.queue = Q /\ n.phase = kind
    BY <1>1, <1>2, <2>2, <2>3 DEF Requests, Phases
  <2>5. req' = [req EXCEPT ![w] = n]
    BY <1>6, <2>1, <2>3
  <2>6. n.row = 0 /\ Turns(w, n, {"pick"})
    BY <1>4, <2>4, <2>5
  <2>. QED
    BY <2>2, <2>4, <2>6
<1>7. ASSUME req' = [req EXCEPT ![w] = [r EXCEPT !.phase = "refresh", !.work = r.touched]]
      PROVE  \E n : Turns(w, n, {"pick"}) /\ n.row = 0 /\ n.queue = {}
  <2>1. PICK n : n = [r EXCEPT !.phase = "refresh", !.work = r.touched]
    OBVIOUS
  <2>2. Kept(n) /\ n.queue = {}
    BY <1>1, <1>2, <2>1 DEF Requests, Phases
  <2>3. req' = [req EXCEPT ![w] = n]
    BY <1>7, <2>1
  <2>4. n.row = 0 /\ Turns(w, n, {"pick"})
    BY <1>4, <2>2, <2>3
  <2>. QED
    BY <2>2, <2>4
<1>8. ASSUME req' = [req EXCEPT ![w] = Idle] PROVE Quits(w)
  BY <1>2, <1>8 DEF Quits, OwnRows, SameIds
<1>. QED
  BY <1>1, <1>5, <1>6, <1>7, <1>8 DEF NextPhase

\* reconcile only looks for the account, or has nothing to finish.
LEMMA ReconcileNft ==
    ASSUME NEW q \in Requests, q.op = "reconcile"
    PROVE  Onward(ToNft(q), q, {"account"}) /\ Placed(ToNft(q))
<1>1. Over(NftDone(q), q)
  <2>1. Over(Ended(q), q) /\ Over([Ended(q) EXCEPT !.touched = @], q)
        /\ Over([Ended(q) EXCEPT !.touched = @ \cup {q.card}], q)
    BY EndedOver
  <2>. QED
    BY <2>1 DEF NftDone
<1>2. Placed(NftDone(q))
  BY <1>1, OverPlaced
<1>. QED
  BY <1>1, <1>2, AtGoes, GoesPlaced DEF ToNft, Onward

LEMMA PickTakes ==
    ASSUME IInv, Alone, NEW w \in Sessions, Pick(w), NEW r, r = req[w]
    PROVE  \E q, S : /\ Turns(w, q, S) /\ q.phase = r.phase
                     /\ \/ q.row = 0 /\ q.queue = r.queue
                        \/ /\ q.row \in r.queue /\ q.queue = r.queue \ {q.row}
                           /\ S = {"submit"} /\ q.card = rows[q.row].card
<1>1. /\ r \in Requests /\ Sound(r) /\ Placed(r) /\ Copies(r, prog, card)
      /\ Busy(w) <=> r.step # "idle"
  BY Held
<1>2. /\ r.step = "pick" /\ r.op = "reconcile" /\ UNCHANGED <<prog, card>>
      /\ r.work \in SUBSET (Venues \cup Cards) /\ r.queue \in SUBSET Nat /\ r.row = 0 /\ r.seq = 0
  BY <1>1 DEF Pick, Placed, db, Requests, Sound, Reached
<1> DEFINE Kept(q) == /\ q \in Requests /\ q.op = "reconcile" /\ q.step = "pick" /\ Copies(q, prog, card)
                      /\ q.seq = 0 /\ q.phase = r.phase
<1>3. ASSUME NEW q, Kept(q), NEW n, NEW S, "idle" \notin S, Onward(n, q, S), Placed(n),
             S \cap {"savetoken", "savetopic", "keep", "serial", "holder", "metadata", "proof"} = {},
             req' = [req EXCEPT ![w] = n]
      PROVE  Turns(w, q, S)
  BY <1>2, <1>3, SameTakes DEF Turns
<1>4. ASSUME NEW v \in Venues, req' = [req EXCEPT ![w] = PickProgram(r, v)]
      PROVE  \E q, S : Turns(w, q, S) /\ q.phase = r.phase /\ q.row = 0 /\ q.queue = r.queue
  <2>1. PICK W \in SUBSET (Venues \cup Cards) : W = r.work \ {v}
    BY <1>2
  <2>2. PICK q : q = [r EXCEPT !.venue = v, !.card = None, !.work = W]
    OBVIOUS
  <2>3. /\ q \in Requests /\ q.op = "reconcile" /\ q.step = "pick" /\ q.progs = r.progs
        /\ q.cards = r.cards /\ q.seq = 0 /\ q.phase = r.phase /\ q.row = 0 /\ q.queue = r.queue
    BY <1>1, <1>2, <2>2 DEF Requests
  <2>4. Kept(q)
    BY <1>1, <1>2, <2>3 DEF Copies
  <2>5. PICK n : n = ToToken(q)
    OBVIOUS
  <2>6. Onward(n, q, {"token", "topic"}) /\ Placed(n)
    BY <2>4, <2>5, ToTokenOn
  <2>7. req' = [req EXCEPT ![w] = n]
    BY <1>4, <2>1, <2>2, <2>5 DEF PickProgram
  <2>8. Turns(w, q, {"token", "topic"})
    BY <1>3, <2>4, <2>6, <2>7
  <2>. QED
    BY <2>3, <2>8
<1>5. ASSUME NEW c \in Cards, NEW q0, q0 = [r EXCEPT !.venue = VenueOf(c), !.card = c, !.work = @ \ {c}]
      PROVE  \A q : q = Load(q0, VenueOf(c), None) => Kept(q) /\ q.row = 0 /\ q.queue = r.queue
  <2>1. PICK v \in Venues, d \in Cards \cup {None}, k \in Cards \cup {None} : v = VenueOf(c) /\ d = c /\ k = None
    BY DEF Cards, VenueOf
  <2>2. PICK W \in SUBSET (Venues \cup Cards) : W = r.work \ {c}
    BY <1>2
  <2>3. q0 = [r EXCEPT !.venue = v, !.card = d, !.work = W]
    BY <1>5, <2>1, <2>2
  <2>4. /\ q0 \in Requests /\ q0.op = "reconcile" /\ q0.step = "pick" /\ q0.progs = r.progs
        /\ q0.cards = r.cards /\ q0.seq = 0 /\ q0.phase = r.phase /\ q0.row = 0 /\ q0.queue = r.queue
    BY <1>1, <1>2, <2>3 DEF Requests
  <2>5. Copies(q0, prog, card)
    BY <1>1, <1>2, <2>4 DEF Copies
  <2>6. ASSUME NEW q, q = Load(q0, v, k)
        PROVE  Kept(q) /\ q.row = 0 /\ q.queue = r.queue
    <3>1. /\ q \in Requests /\ Copies(q, prog, card) /\ q.op = q0.op /\ q.step = q0.step
          /\ q.row = q0.row /\ q.seq = q0.seq /\ q.phase = q0.phase /\ q.queue = q0.queue
      BY <2>4, <2>5, <2>6, LoadCopies
    <3>. QED
      BY <2>4, <3>1
  <2>. QED
    BY <2>1, <2>6
<1>6. ASSUME NEW c \in Cards, req' = [req EXCEPT ![w] = PickCard(r, c)]
      PROVE  \E q, S : Turns(w, q, S) /\ q.phase = r.phase /\ q.row = 0 /\ q.queue = r.queue
  <2>1. PICK q0 : q0 = [r EXCEPT !.venue = VenueOf(c), !.card = c, !.work = @ \ {c}]
    OBVIOUS
  <2>2. PICK q : q = Load(q0, VenueOf(c), None)
    OBVIOUS
  <2>3. Kept(q) /\ q.row = 0 /\ q.queue = r.queue
    BY <1>5, <2>1, <2>2
  <2>4. PICK n : n = ToNft(q)
    OBVIOUS
  <2>5. Onward(n, q, {"account"}) /\ Placed(n)
    BY <2>3, <2>4, ReconcileNft
  <2>6. req' = [req EXCEPT ![w] = n]
    BY <1>6, <2>1, <2>2, <2>4 DEF PickCard
  <2>7. Turns(w, q, {"account"})
    BY <1>3, <2>3, <2>5, <2>6
  <2>. QED
    BY <2>3, <2>7
<1>7. ASSUME NEW c \in Cards, req' = [req EXCEPT ![w] = PickStale(r, c)]
      PROVE  \E q, S : Turns(w, q, S) /\ q.phase = r.phase /\ q.row = 0 /\ q.queue = r.queue
  <2>1. PICK q0 : q0 = [r EXCEPT !.venue = VenueOf(c), !.card = c, !.work = @ \ {c}]
    OBVIOUS
  <2>2. PICK q : q = Load(q0, VenueOf(c), None)
    OBVIOUS
  <2>3. Kept(q) /\ q.row = 0 /\ q.queue = r.queue
    BY <1>5, <2>1, <2>2
  <2>4. PICK n : n = PickStale(r, c)
    OBVIOUS
  <2>5. n = q \/ n = At(q, "refresh")
    BY <2>1, <2>2, <2>4 DEF PickStale
  <2>6. Onward(n, q, {"pick", "refresh"}) /\ Placed(n)
    <3>1. CASE n = q
      BY <2>3, <3>1 DEF Onward, Goes, Placed
    <3>2. CASE n = At(q, "refresh")
      BY <2>3, <3>2, AtGoes, GoesPlaced DEF Onward
    <3>. QED
      BY <2>5, <3>1, <3>2
  <2>7. Turns(w, q, {"pick", "refresh"})
    BY <1>3, <1>7, <2>3, <2>4, <2>6
  <2>. QED
    BY <2>3, <2>7
<1>8. ASSUME NEW i \in r.queue, req' = [req EXCEPT ![w] = PickRow(r, i)]
      PROVE  \E q : /\ Turns(w, q, {"submit"}) /\ q.phase = r.phase /\ q.row = i
                    /\ q.queue = r.queue \ {i} /\ q.card = rows[i].card
  <2>1. rows[i].card \in Cards /\ i \in Nat
    <3>1. rows \in Seq(MirrorRows) /\ i \in DOMAIN rows
      BY <1>1 DEF Sound, Holds, IInv, DbOK, RowsOK
    <3>2. rows[i] \in MirrorRows
      BY <3>1
    <3>. QED
      BY <1>2, <3>2 DEF MirrorRows
  <2>2. PICK v \in Venues, c \in Cards \cup {None} : v = VenueOf(rows[i].card) /\ c = rows[i].card
    BY <2>1 DEF Cards, VenueOf
  <2>3. PICK Q \in SUBSET Nat : Q = r.queue \ {i}
    BY <1>2
  <2>4. PICK q0 : q0 = [r EXCEPT !.venue = v, !.card = c, !.row = i, !.queue = Q]
    OBVIOUS
  <2>5. /\ q0 \in Requests /\ q0.op = "reconcile" /\ q0.step = "pick" /\ q0.progs = r.progs
        /\ q0.cards = r.cards /\ q0.seq = 0 /\ q0.phase = r.phase /\ q0.row = i /\ q0.queue = Q
        /\ q0.card = c
    BY <1>1, <1>2, <2>1, <2>4 DEF Requests
  <2>6. Copies(q0, prog, card)
    BY <1>1, <1>2, <2>5 DEF Copies
  <2>7. PICK q : q = Load(q0, v, c)
    OBVIOUS
  <2>8. /\ q \in Requests /\ Copies(q, prog, card) /\ q.op = q0.op /\ q.step = q0.step /\ q.card = q0.card
        /\ q.row = q0.row /\ q.seq = q0.seq /\ q.phase = q0.phase /\ q.queue = q0.queue
    BY <2>5, <2>6, <2>7, LoadCopies
  <2>9. Kept(q) /\ q.row = i /\ q.queue = r.queue \ {i} /\ q.card = rows[i].card
    BY <2>2, <2>3, <2>5, <2>8
  <2>10. PICK n : n = PickRow(r, i)
    OBVIOUS
  <2>11. n = Ended(q) \/ n = At(q, "submit")
    BY <2>2, <2>3, <2>4, <2>7, <2>10 DEF PickRow
  <2>12. Onward(n, q, {"submit"}) /\ Placed(n)
    BY <2>9, <2>11, AtGoes, GoesPlaced, EndedOver, OverPlaced DEF Onward
  <2>13. Turns(w, q, {"submit"})
    BY <1>3, <1>8, <2>9, <2>10, <2>12
  <2>. QED
    BY <2>9, <2>13
<1>9. \A x \in r.work : /\ r.phase \in {"programs", "cards", "refresh"}
                        /\ r.phase = "programs" => x \in Venues
                        /\ r.phase \in {"cards", "refresh"} => x \in Cards
  BY <1>1 DEF Sound, Holds, Requests, Phases
<1>10. \/ \E x \in r.work : req' = [req EXCEPT ![w] =
              CASE r.phase = "programs" -> PickProgram(r, x)
                [] r.phase = "cards" -> PickCard(r, x)
                [] r.phase = "refresh" -> PickStale(r, x)]
       \/ \E i \in r.queue : req' = [req EXCEPT ![w] = PickRow(r, i)]
  BY DEF Pick
<1>11. CASE \E i \in r.queue : req' = [req EXCEPT ![w] = PickRow(r, i)]
  <2>1. \E i \in r.queue : \E q : /\ Turns(w, q, {"submit"}) /\ q.phase = r.phase /\ q.row = i
                                   /\ q.queue = r.queue \ {i} /\ q.card = rows[i].card
    BY <1>8, <1>11
  <2>. QED
    BY <2>1
<1>12. CASE \E x \in r.work : req' = [req EXCEPT ![w] =
              CASE r.phase = "programs" -> PickProgram(r, x)
                [] r.phase = "cards" -> PickCard(r, x)
                [] r.phase = "refresh" -> PickStale(r, x)]
  <2>1. \/ \E x \in Venues : req' = [req EXCEPT ![w] = PickProgram(r, x)]
        \/ \E x \in Cards : req' = [req EXCEPT ![w] = PickCard(r, x)]
        \/ \E x \in Cards : req' = [req EXCEPT ![w] = PickStale(r, x)]
    BY <1>9, <1>12
  <2>. QED
    BY <1>4, <1>6, <1>7, <2>1
<1>. QED
  BY <1>10, <1>11, <1>12

LEMMA PauseAlone == ASSUME IInv, Alone, NEW v \in Venues, Pause(v) PROVE Alone'
<1>1. prog \in [Venues -> ProgramRows] /\ req' = req /\ card' = card
  BY DEF Pause, IInv, DbOK, ProgramsOK
<1>2. PICK p : p = [prog[v] EXCEPT !.on = FALSE]
  OBVIOUS
<1>3. prog' = [prog EXCEPT ![v] = p] /\ SameIds(p, prog[v])
  BY <1>1, <1>2 DEF Pause, SameIds, ProgramRows
<1>4. \A u \in Venues : SameIds(prog'[u], prog[u])
  BY <1>1, <1>3 DEF SameIds
<1>5. \A w \in Sessions : Copies(req[w], prog', card')
  BY <1>1, <1>4 DEF Alone, Copies, SameIds
<1>6. \A w \in Sessions : Copies(req'[w], prog', card') /\ Placed(req'[w])
                          /\ (req'[w].step = "idle" => req'[w] = Idle)
  BY <1>1, <1>5 DEF Alone
<1>7. Apart'
  BY <1>1 DEF Alone, Apart, Busy
<1>. QED
  BY <1>6, <1>7 DEF Alone, Copies, Placed, Program, Card, SameIds

LEMMA StutterAlone == ASSUME Alone, UNCHANGED <<prog, card, req>> PROVE Alone'
BY DEF Alone, Apart, Busy, Copies, Placed, Program, Card, SameIds

LEMMA InitAlone == ASSUME Init PROVE Alone
<1>1. \A w \in Sessions : req[w] = Idle
  BY DEF Init
<1>2. \A w \in Sessions : ~Busy(w)
  BY <1>1, IdlePlaced DEF Busy
<1>3. Copies(Idle, prog, card) /\ Placed(Idle)
  BY IdlePlaced DEF Copies, Idle, Bare
<1>. QED
  BY <1>1, <1>2, <1>3 DEF Alone, Apart

\* An answer is only waited for after its call.
Leads(w, S) ==
    /\ "idle" \notin S
    /\ "savetoken" \in S => CreateCollection(w)
    /\ "savetopic" \in S => CreateTopic(w)
    /\ "keep" \in S => CreateAccount(w)
    /\ "serial" \in S => MintCard(w)
    /\ "holder" \in S => TransferCard(w)

\* A step of a request in flight goes on from its record, or from one alike.
LEMMA ProceedTakes ==
    ASSUME IInv, Alone, NEW w \in Sessions, Proceed(w), NEW r, r = req[w]
    PROVE  \/ Quits(w)
           \/ \E q, S : /\ Takes(w, q, S) /\ Leads(w, S)
                        /\ q.op = r.op /\ (q.op # "reconcile" => q.venue = r.venue)
<1> DEFINE G == \/ Quits(w)
                \/ \E q, S : /\ Takes(w, q, S) /\ Leads(w, S)
                             /\ q.op = r.op /\ (q.op # "reconcile" => q.venue = r.venue)
<1>1. ASSUME NEW S, Leads(w, S), Takes(w, r, S) PROVE G
  BY <1>1
<1>2. ASSUME NEW S, Leads(w, S), NEW q, Takes(w, q, S), Alike(q, r) PROVE G
  BY <1>2 DEF Alike
<1>3. r \in Requests /\ Placed(r)
  BY Held
<1>4. /\ Leads(w, {}) /\ Leads(w, {"topic"}) /\ Leads(w, {"proof"}) /\ Leads(w, Publishing)
      /\ Leads(w, {"metadata", "proof"}) /\ Leads(w, {"account"} \cup Publishing)
      /\ Leads(w, {"create", "mint", "transfer"} \cup Publishing)
      /\ Leads(w, {"mint", "transfer"} \cup Publishing)
      /\ Leads(w, {"transfer"} \cup Publishing)
      /\ CreateCollection(w) => Leads(w, {"savetoken"})
      /\ CreateTopic(w) => Leads(w, {"savetopic"})
      /\ CreateAccount(w) => Leads(w, {"keep"} \cup Publishing)
      /\ MintCard(w) => Leads(w, {"serial"} \cup Publishing)
      /\ TransferCard(w) => Leads(w, {"holder"} \cup Publishing)
  BY DEF Publishing, Leads
<1>5. ASSUME NEW q, NEW S, Turns(w, q, S) PROVE Takes(w, q, S) /\ Leads(w, S) /\ q.op = "reconcile"
  BY <1>5 DEF Turns, Leads
<1>6. CASE \/ CreateCollection(w) \/ CreateTopic(w) \/ CreateAccount(w) \/ MintCard(w)
           \/ TransferCard(w) \/ UpdateMetadata(w) \/ RefreshMetadata(w)
  <2>1. PICK S : Leads(w, S) /\ Takes(w, r, S)
    BY <1>4, <1>6, NetworkTakes
  <2>. QED
    BY <1>1, <2>1
<1>7. CASE FindAccount(w) \/ KeepAccount(w) \/ WriteProof(w)
  <2>1. \/ Quits(w) \/ \E S : Leads(w, S) /\ Takes(w, r, S)
    BY <1>4, <1>7, AccountTakes
  <2>. QED
    BY <1>1, <2>1
<1>8. CASE SaveToken(w) \/ SaveTopic(w) \/ SaveSerial(w) \/ SaveHolder(w)
  <2>1. PICK q, S : Leads(w, S) /\ Takes(w, q, S) /\ Alike(q, r)
    BY <1>4, <1>8, SaveTakes
  <2>. QED
    BY <1>2, <2>1
<1>9. CASE FilePunch(w) \/ FileRedemption(w)
  <2>1. PICK q, S : Leads(w, S) /\ Takes(w, q, S) /\ RowFiledFor(q, r)
    BY <1>4, <1>9, FileTakes
  <2>. QED
    BY <2>1 DEF RowFiledFor
<1>10. CASE Submit(w)
  <2>1. \/ Takes(w, r, {"metadata", "proof"})
        \/ \E q : /\ Answered(q, r)
                  /\ Takes(w, q, {"metadata", "proof"})
    BY <1>10, SubmitTakes
  <2>2. ASSUME NEW q, Answered(q, r)
        PROVE  q.op = r.op /\ q.venue = r.venue
    BY <1>3, <2>2 DEF Requests, Answered
  <2>. QED
    BY <1>1, <1>4, <2>1, <2>2
<1>11. CASE NextPhase(w)
  <2>1. r.op = "reconcile"
    BY <1>3, <1>11 DEF NextPhase, Placed
  <2>. QED
    BY <1>11, <1>5, <2>1, NextPhaseTakes
<1>12. CASE Pick(w)
  <2>1. r.op = "reconcile"
    BY <1>3, <1>12 DEF Pick, Placed
  <2>2. PICK q, S : Turns(w, q, S)
    BY <1>12, PickTakes
  <2>. QED
    BY <1>5, <2>1, <2>2
<1>. QED
  BY <1>6, <1>7, <1>8, <1>9, <1>10, <1>11, <1>12 DEF Proceed

LEMMA Proceeding == ASSUME NEW w \in Sessions, Proceed(w) PROVE Busy(w)
BY DEF Proceed, Busy, FilePunch, FileRedemption, CreateCollection, SaveToken, CreateTopic,
   SaveTopic, FindAccount, CreateAccount, KeepAccount, MintCard, SaveSerial, TransferCard,
   SaveHolder, Submit, UpdateMetadata, WriteProof, NextPhase, Pick, RefreshMetadata

\* Every step of a session's request makes something of it.
LEMMA StepMakes ==
    ASSUME IInv, Alone, NEW w \in Sessions, Proceed(w) \/ Arrive(w) \/ BeginReconcile(w) \/ Crash(w)
    PROVE  Makes(w)
<1>1. CASE Crash(w)
  BY <1>1, CrashTakes, QuitsMakes
<1>2. CASE BeginReconcile(w)
  <2>1. PICK q : Turns(w, q, {"pick"})
    BY <1>2, BeginReconcileTakes
  <2>2. ~Busy(w) /\ AllFree
    BY <1>2 DEF BeginReconcile
  <2>. QED
    BY <2>1, <2>2, TakesMakes DEF Turns
<1>3. CASE Arrive(w)
  <2>1. ASSUME NEW q, NEW S, Takes(w, q, S), "idle" \notin S, ~Busy(w), q.op # "reconcile",
               VenueFree(q.venue)
        PROVE  Makes(w)
    BY <2>1, TakesMakes
  <2>2. ASSUME NEW v \in Venues, OptIn(w, v) PROVE Makes(w)
    <3>1. PICK q : Takes(w, q, {"token", "topic"}) /\ q.op = "optin" /\ q.venue = v
      BY <2>2, ArriveTakes
    <3>2. ~Busy(w) /\ VenueFree(q.venue)
      BY <2>2, <3>1 DEF OptIn
    <3>. QED
      BY <2>1, <3>1, <3>2
  <2>3. ASSUME NEW c \in Cards, NEW op \in {"punch", "redeem"}, Begin(w, op, c) PROVE Makes(w)
    <3>1. PICK q : Takes(w, q, {"file"}) /\ q.op = op /\ q.venue = VenueOf(c)
      BY <2>3, ArriveTakes
    <3>2. ~Busy(w) /\ VenueFree(q.venue)
      BY <2>3, <3>1 DEF Begin
    <3>. QED
      BY <2>1, <3>1, <3>2
  <2>4. ASSUME NEW c \in Cards, Recount(w, c) PROVE Makes(w)
    <3>1. PICK q : Takes(w, q, {"account"} \cup Publishing) /\ q.op = "recount" /\ q.venue = VenueOf(c)
      BY <2>4, ArriveTakes
    <3>2. ~Busy(w) /\ VenueFree(q.venue) /\ "idle" \notin {"account"} \cup Publishing
      BY <2>4, <3>1 DEF Recount, Publishing
    <3>. QED
      BY <2>1, <3>1, <3>2
  <2>. QED
    BY <1>3, <2>2, <2>3, <2>4 DEF Arrive
<1>4. CASE Proceed(w)
  <2>1. Busy(w)
    BY <1>4, Proceeding
  <2>2. PICK r : r = req[w]
    OBVIOUS
  <2>3. CASE Quits(w)
    BY <2>3, QuitsMakes
  <2>4. ASSUME NEW q, NEW S, Takes(w, q, S), Leads(w, S), q.op = r.op,
               q.op # "reconcile" => q.venue = r.venue
        PROVE  Makes(w)
    BY <2>1, <2>2, <2>4, TakesMakes DEF Leads
  <2>. QED
    BY <1>4, <2>2, <2>3, <2>4, ProceedTakes
<1>. QED
  BY <1>1, <1>2, <1>3, <1>4

LEMMA AloneNext == ASSUME HostSerialises, IInv, Alone, [Next]_vars PROVE Alone'
<1>1. ASSUME NEW w \in Sessions, Makes(w) PROVE Alone'
  <2>1. PICK n : OwnRows(w) /\ Becomes(w, n)
    BY <1>1 DEF Makes
  <2>. QED
    BY <2>1, BecomesAlone
<1>. QED
  BY <1>1, StepMakes, PauseAlone, StutterAlone DEF Next, vars

LEMMA AlwaysAlone == ASSUME HostSerialises PROVE Spec => [](IInv /\ Alone)
<1>1. Init => IInv /\ Alone
  BY InitSound, InitAlone
<1>2. IInv /\ Alone /\ [Next]_vars => IInv' /\ Alone'
  BY NextSound, AloneNext
<1>. QED
  BY <1>1, <1>2, PTL DEF Spec

\* A step of a session's request ends at no answer it has not asked for.
LEMMA StepLeads ==
    ASSUME IInv, Alone, NEW w \in Sessions, Proceed(w) \/ Arrive(w) \/ BeginReconcile(w) \/ Crash(w)
    PROVE  Quits(w) \/ \E q, S : Takes(w, q, S) /\ Leads(w, S)
<1>1. CASE Crash(w)
  BY <1>1, CrashTakes
<1>2. CASE BeginReconcile(w)
  BY <1>2, BeginReconcileTakes DEF Turns, Leads
<1>3. CASE Arrive(w)
  <2>1. /\ Leads(w, {"token", "topic"}) /\ Leads(w, {"file"}) /\ Leads(w, {"account"} \cup Publishing)
    BY DEF Leads, Publishing
  <2>. QED
    BY <1>3, <2>1, ArriveTakes DEF Arrive
<1>4. CASE Proceed(w)
  <2>1. PICK r : r = req[w]
    OBVIOUS
  <2>. QED
    BY <1>4, <2>1, ProceedTakes
<1>. QED
  BY <1>1, <1>2, <1>3, <1>4

\* What every session's record is after a step: as it was, or at no answer but
\* that of the call just made.
LEMMA AnswersAwaited ==
    ASSUME IInv, Alone, [Next]_vars, NEW t \in Sessions
    PROVE  \/ req'[t] = req[t]
           \/ /\ req'[t].step = "savetoken" => CreateCollection(t)
              /\ req'[t].step = "savetopic" => CreateTopic(t)
              /\ req'[t].step = "keep" => CreateAccount(t)
              /\ req'[t].step = "serial" => MintCard(t)
              /\ req'[t].step = "holder" => TransferCard(t)
<1>1. req \in [Sessions -> Requests]
  BY DEF IInv, ReqsOK
<1>2. ASSUME NEW w \in Sessions, Proceed(w) \/ Arrive(w) \/ BeginReconcile(w) \/ Crash(w),
             req'[t] # req[t]
      PROVE  /\ req'[t].step = "savetoken" => CreateCollection(t)
             /\ req'[t].step = "savetopic" => CreateTopic(t)
             /\ req'[t].step = "keep" => CreateAccount(t)
             /\ req'[t].step = "serial" => MintCard(t)
             /\ req'[t].step = "holder" => TransferCard(t)
  <2>1. CASE Quits(w)
    <3>1. t = w /\ req'[t] = Idle
      BY <1>1, <1>2, <2>1 DEF Quits
    <3>. QED
      BY <3>1, IdlePlaced
  <2>2. ASSUME NEW q, NEW S, Takes(w, q, S), Leads(w, S)
        PROVE  /\ req'[t].step = "savetoken" => CreateCollection(t)
               /\ req'[t].step = "savetopic" => CreateTopic(t)
               /\ req'[t].step = "keep" => CreateAccount(t)
               /\ req'[t].step = "serial" => MintCard(t)
               /\ req'[t].step = "holder" => TransferCard(t)
    <3>1. PICK n : Onward(n, q, S) /\ req' = [req EXCEPT ![w] = n]
      BY <2>2 DEF Takes
    <3>2. t = w /\ req'[t] = n
      BY <1>1, <1>2, <3>1
    <3>3. n.step \in S \/ n.step = "idle" \/ n.step = "pick"
      BY <3>1, IdlePlaced DEF Onward, Over, Parked
    <3>. QED
      BY <2>2, <3>2, <3>3 DEF Leads
  <2>. QED
    BY <1>2, <2>1, <2>2, StepLeads
<1>3. ASSUME NEW v \in Venues, Pause(v) PROVE req'[t] = req[t]
  BY <1>3 DEF Pause
<1>4. CASE UNCHANGED vars
  BY <1>4 DEF vars
<1>. QED
  BY <1>2, <1>3, <1>4 DEF Next
-----------------------------------------------------------------------------
(* What stays: the network only grows, and a reference once made is kept *)

\* An NFT stays where it was minted and with whom it was given to, and a
\* message stays in its topic.
NetworkGrows ==
    /\ \A t \in DOMAIN tokens : t \in DOMAIN tokens' /\ tokens'[t] = tokens[t]
    /\ \A t \in DOMAIN topics : t \in DOMAIN topics' /\ topics'[t] = topics[t]
    /\ \A t \in DOMAIN nfts : /\ t \in DOMAIN nfts'
          /\ \A k \in DOMAIN nfts[t] :
                 /\ k \in DOMAIN nfts'[t] /\ nfts'[t][k].card = nfts[t][k].card
                 /\ nfts[t][k].holder # 0 => nfts'[t][k].holder = nfts[t][k].holder
    /\ \A t \in DOMAIN log : /\ t \in DOMAIN log'
          /\ \A k \in DOMAIN log[t] : k \in DOMAIN log'[t] /\ log'[t][k] = log[t][k]

\* A collection, topic, serial or holder the database names is named for good.
ReferencesStay ==
    /\ \A v \in Venues : /\ prog[v].token # 0 => prog'[v].token = prog[v].token
                         /\ prog[v].topic # 0 => prog'[v].topic = prog[v].topic
    /\ \A c \in Cards : /\ card[c].serial # 0 => card'[c].serial = card[c].serial
                        /\ card[c].holder # 0 => card'[c].holder = card[c].holder

\* y takes the place of the NFT k of collection t.
NftBecomes(t, k, y) ==
    /\ t \in DOMAIN nfts /\ k \in DOMAIN nfts[t] /\ DOMAIN nfts' = DOMAIN nfts
    /\ \A j \in DOMAIN nfts : DOMAIN nfts'[j] = DOMAIN nfts[j]
    /\ \A j \in DOMAIN nfts : \A i \in DOMAIN nfts[j] :
           nfts'[j][i] = IF j = t /\ i = k THEN y ELSE nfts[j][i]

\* y is the next NFT of collection t.
NftAdded(t, y) ==
    /\ t \in DOMAIN nfts /\ DOMAIN nfts' = DOMAIN nfts
    /\ \A j \in DOMAIN nfts : \A i \in DOMAIN nfts[j] : i \in DOMAIN nfts'[j] /\ nfts'[j][i] = nfts[j][i]
    /\ \A j \in DOMAIN nfts \ {t} : DOMAIN nfts'[j] = DOMAIN nfts[j]
    /\ Len(nfts[t]) + 1 \notin DOMAIN nfts[t]
    /\ DOMAIN nfts'[t] = DOMAIN nfts[t] \cup {Len(nfts[t]) + 1}
    /\ nfts'[t][Len(nfts[t]) + 1] = y

\* The collection and the card of a request that asks for an NFT's change.
LEMMA NftAddressed ==
    ASSUME IInv, NEW w \in Sessions, NEW r, r = req[w],
           \/ r.step \in NftSteps
           \/ r.step \in {"metadata", "refresh"} /\ Program(r).token # 0
    PROVE  /\ Program(r).token \in DOMAIN nfts /\ tokens[Program(r).token] = r.venue
           /\ nfts[Program(r).token] \in Seq(Nfts)
           /\ r.card \in Cards /\ r.venue = VenueOf(r.card) /\ r.venue \in Venues
           /\ r.progs[r.venue] # None /\ r.cards[r.card] # None
           /\ Card(r) \in CardRows /\ Version(r) \in Nat \X Nat
<1>1. r \in Requests /\ Sound(r)
  BY Suspended DEF IInv
<1>2. Holds(r) /\ OnCard(r) /\ Program(r).token # 0
  BY <1>1 DEF Sound, Reached, CardSteps, NftSteps
<1>3. GoodProgram(Program(r), r.venue) /\ Card(r) \in CardRows
  BY <1>2 DEF Holds, OnCard, OnVenue, Program, Card, GoodCard
<1>4. Program(r).token \in DOMAIN nfts /\ tokens[Program(r).token] = r.venue
  BY <1>2, <1>3, SameDomains DEF GoodProgram, IInv
<1>5. nfts[Program(r).token] \in Seq(Nfts)
  BY <1>4 DEF IInv, NetworkOK
<1>6. Version(r) \in Nat \X Nat
  BY <1>3 DEF Version, CardRows
<1>. QED
  BY <1>2, <1>3, <1>4, <1>5, <1>6 DEF OnCard, OnVenue

\* The NFTs are sequences, and a changed one has a changed element.
LEMMA NftExcept ==
    ASSUME IInv, NEW t \in DOMAIN nfts, NEW k \in DOMAIN nfts[t], NEW y,
           nfts' = [nfts EXCEPT ![t] = [nfts[t] EXCEPT ![k] = y]]
    PROVE  NftBecomes(t, k, y)
BY DEF NftBecomes, IInv, NetworkOK

LEMMA MintEffect ==
    ASSUME IInv, NEW w \in Sessions, MintCard(w), NEW r, r = req[w]
    PROVE  /\ UNCHANGED <<db, tokens, topics, accounts, log, extra>> /\ r.step = "mint"
           /\ \/ /\ NftAdded(Program(r).token, [card |-> r.card, holder |-> 0, meta |-> Version(r)])
                 /\ \/ /\ UNCHANGED <<failed, faults>>
                       /\ req' = [req EXCEPT ![w] = [At(r, "serial") EXCEPT !.got = Len(nfts[Program(r).token]) + 1]]
                    \/ faults' = faults + 1 /\ UNCHANGED failed /\ req' = [req EXCEPT ![w] = NftDone(r)]
              \/ /\ UNCHANGED <<nfts, faults>> /\ failed' = failed + 1 /\ req' = [req EXCEPT ![w] = NftDone(r)]
<1>1. r.step = "mint" /\ UNCHANGED <<db, tokens, topics, accounts, log, extra>>
  BY DEF MintCard
<1>2. PICK t : t = Program(r).token
  OBVIOUS
<1>3. t \in DOMAIN nfts /\ nfts[t] \in Seq(Nfts) /\ nfts \in Seq(Seq(Nfts)) /\ r.card \in Cards
      /\ Version(r) \in Nat \X Nat
  BY <1>1, <1>2, NftAddressed DEF NftSteps, IInv, NetworkOK
<1>4. PICK y : y = [card |-> r.card, holder |-> 0, meta |-> Version(r)]
  OBVIOUS
<1>5. y \in Nfts
  BY <1>3, <1>4 DEF Nfts
<1>6. PICK s : s = Append(nfts[t], y)
  OBVIOUS
<1>7. /\ Len(nfts[t]) + 1 \notin DOMAIN nfts[t] /\ DOMAIN s = DOMAIN nfts[t] \cup {Len(nfts[t]) + 1}
      /\ \A k \in DOMAIN nfts[t] : s[k] = nfts[t][k]
      /\ s[Len(nfts[t]) + 1] = y
  BY <1>3, <1>5, <1>6
<1>8. ASSUME nfts' = [nfts EXCEPT ![t] = s] PROVE NftAdded(t, y)
  <2>1. DOMAIN nfts' = DOMAIN nfts /\ \A j \in DOMAIN nfts : nfts'[j] = IF j = t THEN s ELSE nfts[j]
    BY <1>3, <1>8
  <2>. QED
    BY <1>3, <1>7, <2>1 DEF NftAdded
<1>9. \/ /\ nfts' = [nfts EXCEPT ![t] = Append(nfts[t], y)] /\ UNCHANGED <<failed, faults>>
         /\ req' = [req EXCEPT ![w] = [At(r, "serial") EXCEPT !.got = Len(nfts[t]) + 1]]
      \/ /\ nfts' = [nfts EXCEPT ![t] = Append(nfts[t], y)] /\ faults' = faults + 1 /\ UNCHANGED failed
         /\ req' = [req EXCEPT ![w] = NftDone(r)]
      \/ /\ UNCHANGED <<nfts, faults>> /\ failed' = failed + 1 /\ req' = [req EXCEPT ![w] = NftDone(r)]
  BY <1>2, <1>4 DEF MintCard, Call
<1>. QED
  BY <1>1, <1>2, <1>4, <1>6, <1>8, <1>9

LEMMA TransferEffect ==
    ASSUME IInv, NEW w \in Sessions, TransferCard(w), NEW r, r = req[w]
    PROVE  /\ UNCHANGED <<db, tokens, topics, accounts, log, extra>> /\ r.step = "transfer"
           /\ \/ /\ UNCHANGED nfts /\ req' = [req EXCEPT ![w] = NftDone(r)]
                 /\ \/ failed' = failed + 1 /\ UNCHANGED faults
                    \/ /\ UNCHANGED <<failed, faults>>
                       /\ ~ \E t \in DOMAIN nfts : \E k \in DOMAIN nfts[t] :
                                t = Program(r).token /\ k = Card(r).serial /\ nfts[t][k].holder = 0
              \/ \E t \in DOMAIN nfts : \E k \in DOMAIN nfts[t] :
                     /\ t = Program(r).token /\ k = Card(r).serial /\ nfts[t][k].holder = 0
                     /\ NftBecomes(t, k, [nfts[t][k] EXCEPT !.holder = r.account])
                     /\ \/ UNCHANGED <<failed, faults>> /\ req' = [req EXCEPT ![w] = At(r, "holder")]
                        \/ faults' = faults + 1 /\ UNCHANGED failed /\ req' = [req EXCEPT ![w] = NftDone(r)]
<1>1. r.step = "transfer" /\ UNCHANGED <<db, tokens, topics, accounts, log, extra>>
  BY DEF TransferCard
<1>2. PICK t, k : t = Program(r).token /\ k = Card(r).serial
  OBVIOUS
<1>3. t \in DOMAIN nfts
  BY <1>1, <1>2, NftAddressed DEF NftSteps
<1>4. CASE ~(k \in DOMAIN nfts[t] /\ nfts[t][k].holder = 0)
  <2>1. UNCHANGED <<nfts, failed, faults>> /\ req' = [req EXCEPT ![w] = NftDone(r)]
    BY <1>2, <1>4 DEF TransferCard
  <2>. QED
    BY <1>1, <1>2, <1>4, <2>1
<1>5. CASE k \in DOMAIN nfts[t] /\ nfts[t][k].holder = 0
  <2>1. PICK y : y = [nfts[t][k] EXCEPT !.holder = r.account]
    OBVIOUS
  <2>2. ASSUME nfts' = [nfts EXCEPT ![t][k].holder = r.account] PROVE NftBecomes(t, k, y)
    <3>1. nfts' = [nfts EXCEPT ![t] = [nfts[t] EXCEPT ![k] = y]]
      BY <2>1, <2>2
    <3>. QED
      BY <1>3, <1>5, <3>1, NftExcept
  <2>3. \/ /\ nfts' = [nfts EXCEPT ![t][k].holder = r.account] /\ UNCHANGED <<failed, faults>>
           /\ req' = [req EXCEPT ![w] = At(r, "holder")]
        \/ /\ nfts' = [nfts EXCEPT ![t][k].holder = r.account] /\ faults' = faults + 1 /\ UNCHANGED failed
           /\ req' = [req EXCEPT ![w] = NftDone(r)]
        \/ UNCHANGED <<nfts, faults>> /\ failed' = failed + 1 /\ req' = [req EXCEPT ![w] = NftDone(r)]
    BY <1>2, <1>5 DEF TransferCard, Call
  <2>. QED
    BY <1>1, <1>2, <1>3, <1>5, <2>1, <2>2, <2>3
<1>. QED
  BY <1>4, <1>5

LEMMA RepointEffect ==
    ASSUME IInv, NEW w \in Sessions, UpdateMetadata(w) \/ RefreshMetadata(w), NEW r, r = req[w]
    PROVE  /\ UNCHANGED <<db, tokens, topics, accounts, log, extra>>
           /\ \/ /\ UNCHANGED nfts
                 /\ \/ failed' = failed + 1
                    \/ ~ \E t \in DOMAIN nfts : \E k \in DOMAIN nfts[t] :
                             t = Program(r).token /\ k = Card(r).serial
              \/ \E t \in DOMAIN nfts : \E k \in DOMAIN nfts[t] :
                     /\ t = Program(r).token /\ k = Card(r).serial
                     /\ NftBecomes(t, k, [nfts[t][k] EXCEPT !.meta = Version(r)])
                     /\ \/ UNCHANGED <<failed, faults>>
                        \/ faults' = faults + 1 /\ UNCHANGED failed
<1>1. PICK t, k : t = Program(r).token /\ k = Card(r).serial
  OBVIOUS
<1>2. PICK n : Repoint(w, n)
  BY DEF UpdateMetadata, RefreshMetadata
<1>3. UNCHANGED <<db, tokens, topics, accounts, log, extra>>
  BY <1>2 DEF Repoint
<1>4. CASE k \notin DOMAIN nfts[t]
  <2>1. UNCHANGED <<nfts, failed, faults>>
    BY <1>1, <1>2, <1>4 DEF Repoint
  <2>. QED
    BY <1>1, <1>3, <1>4, <2>1
<1>5. CASE k \in DOMAIN nfts[t]
  <2>1. PICK y : y = [nfts[t][k] EXCEPT !.meta = Version(r)]
    OBVIOUS
  <2>2. \/ /\ nfts' = [nfts EXCEPT ![t][k].meta = Version(r)]
           /\ UNCHANGED failed /\ (UNCHANGED faults \/ faults' = faults + 1)
        \/ UNCHANGED <<nfts, faults>> /\ failed' = failed + 1
    BY <1>1, <1>2, <1>5 DEF Repoint, Call
  <2>3. CASE t \in DOMAIN nfts
    <3>1. ASSUME nfts' = [nfts EXCEPT ![t][k].meta = Version(r)] PROVE NftBecomes(t, k, y)
      <4>1. nfts' = [nfts EXCEPT ![t] = [nfts[t] EXCEPT ![k] = y]]
        BY <2>1, <3>1
      <4>. QED
        BY <1>5, <2>3, <4>1, NftExcept
    <3>. QED
      BY <1>1, <1>3, <1>5, <2>1, <2>2, <2>3, <3>1
  <2>4. CASE t \notin DOMAIN nfts
    <3>1. ASSUME nfts' = [nfts EXCEPT ![t][k].meta = Version(r)] PROVE UNCHANGED nfts
      BY <2>4, <3>1 DEF IInv, NetworkOK
    <3>. QED
      BY <1>1, <1>3, <2>2, <2>4, <3>1
  <2>. QED
    BY <2>3, <2>4
<1>. QED
  BY <1>4, <1>5

CollectionOpened ==
    /\ UNCHANGED <<prog, card, rows, topics, log>> /\ nfts' = Append(nfts, <<>>)
    /\ \E v \in Venues : tokens' = Append(tokens, v)

\* Who touches a collection or an NFT, and who opens a topic.
LEMMA NftChangers ==
    ASSUME IInv, [Next]_vars
    PROVE  \/ UNCHANGED <<tokens, nfts>>
           \/ CollectionOpened
           \/ \E w \in Sessions : \/ MintCard(w) \/ TransferCard(w)
                                  \/ UpdateMetadata(w) \/ RefreshMetadata(w)
<1>1. ASSUME NEW w \in Sessions, CreateCollection(w) PROVE UNCHANGED <<tokens, nfts>> \/ CollectionOpened
  <2>1. PICK r \in Requests : req[w] = r /\ Sound(r)
    BY Suspended DEF IInv
  <2>2. r.venue \in Venues
    BY <1>1, <2>1 DEF CreateCollection, Sound, Reached, VenueSteps, OnVenue
  <2>3. \/ UNCHANGED <<tokens, nfts>>
        \/ tokens' = Append(tokens, r.venue) /\ nfts' = Append(nfts, <<>>)
    BY <1>1, <2>1 DEF CreateCollection, Call
  <2>4. UNCHANGED <<prog, card, rows, topics, log>>
    BY <1>1 DEF CreateCollection, db
  <2>. QED
    BY <2>2, <2>3, <2>4 DEF CollectionOpened
<1>2. ASSUME NEW w \in Sessions,
             \/ CreateTopic(w) \/ SaveToken(w) \/ SaveTopic(w) \/ FindAccount(w) \/ WriteProof(w)
             \/ CreateAccount(w) \/ KeepAccount(w) \/ SaveSerial(w) \/ Submit(w) \/ FilePunch(w)
             \/ SaveHolder(w) \/ NextPhase(w) \/ FileRedemption(w)
             \/ Pick(w) \/ BeginReconcile(w) \/ Crash(w)
             \/ \E v \in Venues : OptIn(w, v)
             \/ \E c \in Cards : Begin(w, "punch", c) \/ Begin(w, "redeem", c) \/ Recount(w, c)
      PROVE  UNCHANGED <<tokens, nfts>>
  BY <1>2 DEF CreateTopic, SaveToken, SaveTopic, FindAccount, CreateAccount, KeepAccount,
     Submit, SaveSerial, WriteProof, SaveHolder, NextPhase, FilePunch, FileRedemption,
     Pick, BeginReconcile, Crash, OptIn, Begin, Recount, db, network
<1>3. ASSUME NEW v \in Venues, Pause(v) PROVE UNCHANGED <<tokens, nfts>>
  BY <1>3 DEF Pause, network
<1>4. ASSUME UNCHANGED vars PROVE UNCHANGED <<tokens, nfts>>
  BY <1>4 DEF vars
<1>. QED
  BY <1>1, <1>2, <1>3, <1>4 DEF Next, Proceed, Arrive

LEMMA TopicsStay ==
    ASSUME IInv, [Next]_vars
    PROVE  UNCHANGED topics \/ \E v \in Venues : topics' = Append(topics, v)
<1>1. ASSUME NEW w \in Sessions, CreateTopic(w)
      PROVE  UNCHANGED topics \/ \E v \in Venues : topics' = Append(topics, v)
  <2>1. PICK r \in Requests : req[w] = r /\ Sound(r)
    BY Suspended DEF IInv
  <2>2. r.venue \in Venues
    BY <1>1, <2>1 DEF CreateTopic, Sound, Reached, VenueSteps, OnVenue
  <2>3. UNCHANGED topics \/ topics' = Append(topics, r.venue)
    BY <1>1, <2>1 DEF CreateTopic, Call
  <2>. QED
    BY <2>2, <2>3
<1>2. ASSUME NEW w \in Sessions,
             \/ CreateCollection(w) \/ SaveToken(w) \/ SaveTopic(w) \/ FindAccount(w) \/ WriteProof(w)
             \/ CreateAccount(w) \/ KeepAccount(w) \/ SaveSerial(w) \/ Submit(w) \/ FilePunch(w)
             \/ SaveHolder(w) \/ NextPhase(w) \/ FileRedemption(w) \/ MintCard(w) \/ TransferCard(w)
             \/ UpdateMetadata(w) \/ RefreshMetadata(w) \/ Pick(w) \/ BeginReconcile(w) \/ Crash(w)
             \/ \E v \in Venues : OptIn(w, v)
             \/ \E c \in Cards : Begin(w, "punch", c) \/ Begin(w, "redeem", c) \/ Recount(w, c)
      PROVE  UNCHANGED topics
  BY <1>2 DEF CreateCollection, SaveToken, SaveTopic, FindAccount, CreateAccount, KeepAccount,
     Submit, SaveSerial, WriteProof, SaveHolder, NextPhase, FilePunch, FileRedemption, MintCard,
     TransferCard, UpdateMetadata, RefreshMetadata, Repoint,
     Pick, BeginReconcile, Crash, OptIn, Begin, Recount, db, network
<1>3. ASSUME NEW v \in Venues, Pause(v) PROVE UNCHANGED topics
  BY <1>3 DEF Pause, network
<1>4. ASSUME UNCHANGED vars PROVE UNCHANGED topics
  BY <1>4 DEF vars
<1>. QED
  BY <1>1, <1>2, <1>3, <1>4 DEF Next, Proceed, Arrive

\* A new message goes behind those there are.
LEMMA LogAdded ==
    ASSUME IInv, NEW t \in DOMAIN log, NEW x \in Messages, log' = [log EXCEPT ![t] = Append(@, x)]
    PROVE  /\ DOMAIN log' = DOMAIN log /\ Len(log[t]) + 1 \notin DOMAIN log[t]
           /\ DOMAIN log'[t] = DOMAIN log[t] \cup {Len(log[t]) + 1}
           /\ log'[t][Len(log[t]) + 1] = x
           /\ \A j \in DOMAIN log \ {t} : log'[j] = log[j]
           /\ \A j \in DOMAIN log : \A k \in DOMAIN log[j] : k \in DOMAIN log'[j] /\ log'[j][k] = log[j][k]
<1>1. log \in Seq(Seq(Messages)) /\ t \in 1 .. Len(log) /\ log[t] \in Seq(Messages)
  BY DEF IInv, NetworkOK
<1>2. PICK s : s = Append(log[t], x)
  OBVIOUS
<1>3. /\ s \in Seq(Messages) /\ DOMAIN s = DOMAIN log[t] \cup {Len(log[t]) + 1}
      /\ \A k \in DOMAIN log[t] : s[k] = log[t][k]
      /\ s[Len(log[t]) + 1] = x /\ Len(log[t]) + 1 \notin DOMAIN log[t]
  BY <1>1, <1>2
<1>4. /\ DOMAIN log' = DOMAIN log
      /\ \A j \in DOMAIN log : log'[j] = IF j = t THEN s ELSE log[j]
  BY <1>1, <1>2, <1>3, ExceptSeq
<1>. QED
  BY <1>3, <1>4

LEMMA NetworkKept == ASSUME IInv, [Next]_vars PROVE NetworkGrows
<1>1. NetworkOK
  BY DEF IInv
<1>2. \A t \in DOMAIN topics : t \in DOMAIN topics' /\ topics'[t] = topics[t]
  <2>1. ASSUME NEW v \in Venues, topics' = Append(topics, v), NEW t \in DOMAIN topics
        PROVE  t \in DOMAIN topics' /\ topics'[t] = topics[t]
    BY <1>1, <2>1, Appended DEF NetworkOK
  <2>. QED
    BY <2>1, TopicsStay
<1>3. \A t \in DOMAIN log : /\ t \in DOMAIN log'
          /\ \A k \in DOMAIN log[t] : k \in DOMAIN log'[t] /\ log'[t][k] = log[t][k]
  <2>1. CASE UNCHANGED log
    BY <2>1
  <2>2. CASE TopicOpened
    <3>1. log \in Seq(Seq(Messages)) /\ <<>> \in Seq(Messages) /\ log' = Append(log, <<>>)
      BY <1>1, <2>2 DEF NetworkOK, TopicOpened
    <3>2. \A t \in DOMAIN log : t \in DOMAIN log' /\ log'[t] = log[t]
      BY <3>1, Appended
    <3>. QED
      BY <3>2
  <2>3. CASE Submitted
    <3>1. \E t \in DOMAIN log : \E x \in Messages : log' = [log EXCEPT ![t] = Append(@, x)]
      BY <2>3 DEF Submitted
    <3>. QED
      BY <3>1, LogAdded
  <2>. QED
    BY <2>1, <2>2, <2>3, OutboxSteps DEF Quiet, Filed, Proved
<1> DEFINE NftsStay == \A t \in DOMAIN nfts : /\ t \in DOMAIN nfts'
          /\ \A k \in DOMAIN nfts[t] :
                 /\ k \in DOMAIN nfts'[t] /\ nfts'[t][k].card = nfts[t][k].card
                 /\ nfts[t][k].holder # 0 => nfts'[t][k].holder = nfts[t][k].holder
           TokensStay == \A t \in DOMAIN tokens : t \in DOMAIN tokens' /\ tokens'[t] = tokens[t]
<1>4. ASSUME CollectionOpened PROVE NftsStay /\ TokensStay
  <2>1. /\ nfts \in Seq(Seq(Nfts)) /\ <<>> \in Seq(Nfts) /\ nfts' = Append(nfts, <<>>)
        /\ tokens \in Seq(Venues) /\ \E v \in Venues : tokens' = Append(tokens, v)
    BY <1>1, <1>4 DEF NetworkOK, CollectionOpened
  <2>2. \A t \in DOMAIN nfts : t \in DOMAIN nfts' /\ nfts'[t] = nfts[t]
    BY <2>1, Appended
  <2>. QED
    BY <2>1, <2>2, Appended
<1>5. ASSUME NEW w \in Sessions, MintCard(w) PROVE NftsStay /\ TokensStay
  <2>1. UNCHANGED tokens /\ (UNCHANGED nfts \/ \E t, y : NftAdded(t, y))
    BY <1>5, MintEffect
  <2>. QED
    BY <2>1 DEF NftAdded
<1>6. ASSUME NEW t \in DOMAIN nfts, NEW k \in DOMAIN nfts[t], NEW y, NftBecomes(t, k, y),
             y.card = nfts[t][k].card, nfts[t][k].holder # 0 => y.holder = nfts[t][k].holder
      PROVE  NftsStay
  BY <1>6 DEF NftBecomes
<1>7. ASSUME NEW w \in Sessions, TransferCard(w) \/ UpdateMetadata(w) \/ RefreshMetadata(w)
      PROVE  NftsStay /\ TokensStay
  <2>1. \A t \in DOMAIN nfts : \A k \in DOMAIN nfts[t] : nfts[t][k] \in Nfts
    BY <1>1 DEF NetworkOK
  <2>2. ASSUME TransferCard(w) PROVE NftsStay /\ TokensStay
    <3>1. PICK r : r = req[w]
      OBVIOUS
    <3>2. /\ UNCHANGED tokens
          /\ \/ UNCHANGED nfts
             \/ \E t \in DOMAIN nfts : \E k \in DOMAIN nfts[t] :
                   nfts[t][k].holder = 0 /\ NftBecomes(t, k, [nfts[t][k] EXCEPT !.holder = r.account])
      BY <2>2, <3>1, TransferEffect
    <3>3. ASSUME NEW t \in DOMAIN nfts, NEW k \in DOMAIN nfts[t], nfts[t][k].holder = 0,
                 NftBecomes(t, k, [nfts[t][k] EXCEPT !.holder = r.account])
          PROVE  NftsStay
      <4>1. PICK y : y = [nfts[t][k] EXCEPT !.holder = r.account]
        OBVIOUS
      <4>2. y.card = nfts[t][k].card
        BY <2>1, <4>1 DEF Nfts
      <4>. QED
        BY <1>6, <3>3, <4>1, <4>2
    <3>4. CASE UNCHANGED nfts
      BY <3>2, <3>4
    <3>. HIDE DEF NftsStay
    <3>. QED
      BY <3>2, <3>3, <3>4
  <2>3. ASSUME UpdateMetadata(w) \/ RefreshMetadata(w) PROVE NftsStay /\ TokensStay
    <3>1. PICK r : r = req[w]
      OBVIOUS
    <3>2. /\ UNCHANGED tokens
          /\ \/ UNCHANGED nfts
             \/ \E t \in DOMAIN nfts : \E k \in DOMAIN nfts[t] :
                   NftBecomes(t, k, [nfts[t][k] EXCEPT !.meta = Version(r)])
      BY <2>3, <3>1, RepointEffect
    <3>3. ASSUME NEW t \in DOMAIN nfts, NEW k \in DOMAIN nfts[t],
                 NftBecomes(t, k, [nfts[t][k] EXCEPT !.meta = Version(r)])
          PROVE  NftsStay
      <4>1. PICK y : y = [nfts[t][k] EXCEPT !.meta = Version(r)]
        OBVIOUS
      <4>2. y.card = nfts[t][k].card /\ y.holder = nfts[t][k].holder
        BY <2>1, <4>1 DEF Nfts
      <4>. QED
        BY <1>6, <3>3, <4>1, <4>2
    <3>4. CASE UNCHANGED nfts
      BY <3>2, <3>4
    <3>. HIDE DEF NftsStay
    <3>. QED
      BY <3>2, <3>3, <3>4
  <2>. QED
    BY <1>7, <2>2, <2>3
<1>8. NftsStay /\ TokensStay
  BY <1>4, <1>5, <1>7, NftChangers
<1>. QED
  BY <1>2, <1>3, <1>8 DEF NetworkGrows

\* A reference is written where there is none yet: the copy that said so is the row.
LEMMA ReferencesSettled == ASSUME IInv, Alone, [Next]_vars PROVE ReferencesStay
<1>1. prog \in [Venues -> ProgramRows] /\ card \in [Cards -> CardRows]
  BY DEF IInv, DbOK, ProgramsOK, CardsOK
<1>2. ASSUME UNCHANGED <<prog, card>> PROVE ReferencesStay
  BY <1>2 DEF ReferencesStay
<1>3. ASSUME NEW v \in Venues, Pause(v) PROVE ReferencesStay
  BY <1>1, <1>3 DEF ReferencesStay, Pause, ProgramRows
<1>4. ASSUME NEW w \in Sessions, NEW v \in Venues, OptIn(w, v) PROVE ReferencesStay
  BY <1>1, <1>4 DEF ReferencesStay, OptIn, ProgramRows
<1>5. ASSUME NEW w \in Sessions, SaveToken(w) \/ SaveTopic(w) PROVE ReferencesStay
  <2>1. PICK r \in Requests : req[w] = r /\ Sound(r) /\ Placed(r) /\ Copies(r, prog, card)
    BY Held
  <2>2. r.venue \in Venues /\ r.progs[r.venue] # None
    BY <1>5, <2>1 DEF SaveToken, SaveTopic, Sound, Reached, VenueSteps, OnVenue
  <2>3. SameIds(Program(r), prog[r.venue])
    BY <2>1, <2>2 DEF Copies, Program
  <2>4. CASE SaveToken(w)
    <3>1. prog[r.venue].token = 0
      BY <2>1, <2>3, <2>4 DEF SaveToken, Placed, SameIds
    <3>2. prog' = [prog EXCEPT ![r.venue].token = r.got] /\ UNCHANGED card
      BY <2>1, <2>4 DEF SaveToken
    <3>. QED
      BY <1>1, <2>2, <3>1, <3>2 DEF ReferencesStay, ProgramRows
  <2>5. CASE SaveTopic(w)
    <3>1. prog[r.venue].topic = 0
      BY <2>1, <2>3, <2>5 DEF SaveTopic, Placed, SameIds
    <3>2. prog' = [prog EXCEPT ![r.venue].topic = r.got] /\ UNCHANGED card
      BY <2>1, <2>5 DEF SaveTopic
    <3>. QED
      BY <1>1, <2>2, <3>1, <3>2 DEF ReferencesStay, ProgramRows
  <2>. QED
    BY <1>5, <2>4, <2>5
<1>6. ASSUME NEW w \in Sessions, SaveSerial(w) \/ SaveHolder(w) PROVE ReferencesStay
  <2>1. PICK r \in Requests : req[w] = r /\ Sound(r) /\ Placed(r) /\ Copies(r, prog, card)
    BY Held
  <2>2. r.card \in Cards /\ r.cards[r.card] # None
    BY <1>6, <2>1 DEF SaveSerial, SaveHolder, Sound, Reached, CardSteps, NftSteps, OnCard
  <2>3. Card(r) = card[r.card]
    BY <2>1, <2>2 DEF Copies, Card
  <2>4. CASE SaveSerial(w)
    <3>1. card[r.card].serial = 0
      BY <2>1, <2>3, <2>4 DEF SaveSerial, Placed
    <3>2. card' = [card EXCEPT ![r.card].serial = r.got] /\ UNCHANGED prog
      BY <2>1, <2>4 DEF SaveSerial
    <3>. QED
      BY <1>1, <2>2, <3>1, <3>2 DEF ReferencesStay, CardRows
  <2>5. CASE SaveHolder(w)
    <3>1. card[r.card].holder = 0
      BY <2>1, <2>3, <2>5 DEF SaveHolder, Placed
    <3>2. card' = [card EXCEPT ![r.card].holder = r.account] /\ UNCHANGED prog
      BY <2>1, <2>5 DEF SaveHolder
    <3>. QED
      BY <1>1, <2>2, <3>1, <3>2 DEF ReferencesStay, CardRows
  <2>. QED
    BY <1>6, <2>4, <2>5
<1>7. ASSUME NEW w \in Sessions, FilePunch(w) \/ FileRedemption(w) PROVE ReferencesStay
  <2>1. CASE FilePunch(w)
    <3>1. PICK c, m : card' = [card EXCEPT ![c].count = m] /\ UNCHANGED prog
      BY <2>1 DEF FilePunch
    <3>. QED
      BY <1>1, <3>1 DEF ReferencesStay, CardRows
  <2>2. CASE FileRedemption(w)
    <3>1. PICK c : card' = [card EXCEPT ![c].cycle = @ + 1, ![c].count = 0] /\ UNCHANGED prog
      BY <2>2 DEF FileRedemption
    <3>. QED
      BY <1>1, <3>1 DEF ReferencesStay, CardRows
  <2>. QED
    BY <1>7, <2>1, <2>2
<1>8. ASSUME NEW w \in Sessions,
             \/ CreateCollection(w) \/ CreateTopic(w) \/ FindAccount(w) \/ CreateAccount(w)
             \/ KeepAccount(w) \/ MintCard(w) \/ TransferCard(w) \/ Submit(w) \/ UpdateMetadata(w)
             \/ WriteProof(w) \/ NextPhase(w) \/ Pick(w) \/ RefreshMetadata(w)
             \/ BeginReconcile(w) \/ Crash(w)
             \/ \E c \in Cards : Begin(w, "punch", c) \/ Begin(w, "redeem", c) \/ Recount(w, c)
      PROVE  UNCHANGED <<prog, card>>
  BY <1>8 DEF CreateCollection, CreateTopic, FindAccount, CreateAccount, KeepAccount, MintCard,
     TransferCard, Submit, UpdateMetadata, WriteProof, NextPhase, Pick, RefreshMetadata, Repoint,
     BeginReconcile, Crash, Begin, Recount, db
<1>9. ASSUME UNCHANGED vars PROVE UNCHANGED <<prog, card>>
  BY <1>9 DEF vars
<1>. QED
  BY <1>2, <1>3, <1>4, <1>5, <1>6, <1>7, <1>8, <1>9 DEF Next, Proceed, Arrive
-----------------------------------------------------------------------------
(* What the database says is in a user's hands is there                    *)

\* The NFT k of the card's own collection, as its program names it.
InCollection(c, k) ==
    LET t == prog[VenueOf(c)].token IN
    /\ t # 0 /\ t \in DOMAIN nfts /\ k \in DOMAIN nfts[t] /\ nfts[t][k].card = c
HeldAt(c, k, a) == nfts[prog[VenueOf(c)].token][k].holder = a

\* A card's serial is an NFT of its own in its venue's collection, held by the
\* account the card names, if it names one.
SerialsResolve ==
    \A c \in Cards :
        /\ card[c].holder # 0 => card[c].serial # 0
        /\ card[c].serial # 0 => /\ InCollection(c, card[c].serial)
                                 /\ card[c].holder # 0 => HeldAt(c, card[c].serial, card[c].holder)

\* The answer a session holds is of that collection, and the NFT it has just
\* handed over is with the account it was handed to.
AnswerResolves(r) ==
    /\ r.step = "serial" => InCollection(r.card, r.got)
    /\ r.step = "holder" => HeldAt(r.card, Card(r).serial, r.account)
AnswersResolve == \A w \in Sessions : \A r \in Requests : req[w] = r => AnswerResolves(r)

HeldInv == SerialsResolve /\ AnswersResolve

LEMMA CollectionKept ==
    ASSUME NetworkGrows, ReferencesStay, NEW c \in Cards, NEW k, InCollection(c, k)
    PROVE  /\ InCollection(c, k)'
           /\ \A a : a # 0 /\ HeldAt(c, k, a) => HeldAt(c, k, a)'
<1>1. PICK v \in Venues : v = VenueOf(c)
  BY DEF VenueOf, Cards
<1>2. prog'[v].token = prog[v].token
  BY <1>1 DEF ReferencesStay, InCollection
<1>. QED
  BY <1>1, <1>2 DEF NetworkGrows, InCollection, HeldAt, VenueOf

\* Only the two saves of ensure_card_nft write a serial or a holder.
LEMMA LinksChange ==
    ASSUME IInv, [Next]_vars
    PROVE  \/ \E w \in Sessions : SaveSerial(w) \/ SaveHolder(w)
           \/ \A c \in Cards : card'[c].serial = card[c].serial /\ card'[c].holder = card[c].holder
<1>1. card \in [Cards -> CardRows]
  BY DEF IInv, DbOK, CardsOK
<1>2. ASSUME NEW w \in Sessions, FilePunch(w)
      PROVE  \A c \in Cards : card'[c].serial = card[c].serial /\ card'[c].holder = card[c].holder
  <2>1. PICK c, m : card' = [card EXCEPT ![c].count = m]
    BY <1>2 DEF FilePunch
  <2>. QED
    BY <1>1, <2>1 DEF CardRows
<1>3. ASSUME NEW w \in Sessions, FileRedemption(w)
      PROVE  \A c \in Cards : card'[c].serial = card[c].serial /\ card'[c].holder = card[c].holder
  <2>1. PICK c : card' = [card EXCEPT ![c].cycle = @ + 1, ![c].count = 0]
    BY <1>3 DEF FileRedemption
  <2>. QED
    BY <1>1, <2>1 DEF CardRows
<1>4. ASSUME NEW w \in Sessions,
             \/ CreateCollection(w) \/ SaveToken(w) \/ CreateTopic(w) \/ SaveTopic(w) \/ FindAccount(w)
             \/ CreateAccount(w) \/ KeepAccount(w) \/ MintCard(w) \/ TransferCard(w) \/ Submit(w)
             \/ UpdateMetadata(w) \/ WriteProof(w) \/ NextPhase(w) \/ Pick(w) \/ RefreshMetadata(w)
             \/ BeginReconcile(w) \/ Crash(w) \/ \E v \in Venues : OptIn(w, v)
             \/ \E c \in Cards : Begin(w, "punch", c) \/ Begin(w, "redeem", c) \/ Recount(w, c)
      PROVE  UNCHANGED card
  BY <1>4 DEF CreateCollection, SaveToken, CreateTopic, SaveTopic, FindAccount, CreateAccount,
     KeepAccount, MintCard, TransferCard, Submit, UpdateMetadata, WriteProof, NextPhase, Pick,
     RefreshMetadata, Repoint, BeginReconcile, Crash, OptIn, Begin, Recount, db
<1>5. ASSUME NEW v \in Venues, Pause(v) PROVE UNCHANGED card
  BY <1>5 DEF Pause
<1>6. ASSUME UNCHANGED vars PROVE UNCHANGED card
  BY <1>6 DEF vars
<1>. QED
  BY <1>2, <1>3, <1>4, <1>5, <1>6 DEF Next, Proceed, Arrive

LEMMA SerialsResolveNext ==
    ASSUME IInv, Alone, HeldInv, [Next]_vars PROVE SerialsResolve'
<1>1. NetworkGrows /\ ReferencesStay
  BY NetworkKept, ReferencesSettled
<1>2. card \in [Cards -> CardRows]
  BY DEF IInv, DbOK, CardsOK
<1>3. ASSUME NEW c \in Cards, card'[c].serial = card[c].serial, card'[c].holder = card[c].holder
      PROVE  /\ card'[c].holder # 0 => card'[c].serial # 0
             /\ card'[c].serial # 0 =>
                    /\ InCollection(c, card[c].serial)'
                    /\ card'[c].holder # 0 => HeldAt(c, card[c].serial, card[c].holder)'
  <2>1. PICK k, a : k = card[c].serial /\ a = card[c].holder
    OBVIOUS
  <2>2. /\ a # 0 => k # 0
        /\ k # 0 => InCollection(c, k) /\ (a # 0 => HeldAt(c, k, a))
    BY <2>1 DEF HeldInv, SerialsResolve
  <2>3. k # 0 => InCollection(c, k)' /\ (a # 0 => HeldAt(c, k, a)')
    BY <1>1, <2>2, CollectionKept
  <2>. QED
    BY <1>3, <2>1, <2>2, <2>3 DEF InCollection, HeldAt
<1>4. CASE \A c \in Cards : card'[c].serial = card[c].serial /\ card'[c].holder = card[c].holder
  BY <1>3, <1>4 DEF SerialsResolve, InCollection, HeldAt
<1>5. ASSUME NEW w \in Sessions, SaveSerial(w) PROVE SerialsResolve'
  <2>1. PICK r \in Requests : req[w] = r /\ Sound(r) /\ Placed(r) /\ Copies(r, prog, card)
    BY Held
  <2>2. r.card \in Cards /\ r.cards[r.card] # None /\ r.got # 0 /\ r.step = "serial"
    BY <1>5, <2>1 DEF SaveSerial, Sound, Reached, CardSteps, NftSteps, OnCard
  <2>3. card[r.card].serial = 0
    BY <2>1, <2>2 DEF Copies, Card, Placed
  <2>4. card[r.card].holder = 0
    BY <2>2, <2>3 DEF HeldInv, SerialsResolve
  <2>5. card' = [card EXCEPT ![r.card].serial = r.got] /\ UNCHANGED <<prog, nfts>>
    BY <1>5, <2>1 DEF SaveSerial, network
  <2>6. InCollection(r.card, r.got)
    BY <2>1, <2>2 DEF HeldInv, AnswersResolve, AnswerResolves
  <2>7. card'[r.card].serial = r.got /\ card'[r.card].holder = 0
    BY <1>2, <2>2, <2>4, <2>5 DEF CardRows
  <2>8. InCollection(r.card, r.got)'
    BY <2>5, <2>6 DEF InCollection
  <2>9. \A c \in Cards \ {r.card} : card'[c].serial = card[c].serial /\ card'[c].holder = card[c].holder
    BY <1>2, <2>5
  <2>10. ASSUME NEW c \in Cards
         PROVE  /\ card'[c].holder # 0 => card'[c].serial # 0
                /\ card'[c].serial # 0 =>
                       /\ InCollection(c, card[c].serial)' \/ c = r.card
                       /\ card'[c].holder # 0 => HeldAt(c, card[c].serial, card[c].holder)'
    <3>1. CASE c = r.card
      BY <2>2, <2>7, <3>1
    <3>2. CASE c # r.card
      BY <1>3, <2>9, <3>2
    <3>. QED
      BY <3>1, <3>2
  <2>. QED
    BY <2>2, <2>7, <2>8, <2>9, <2>10 DEF SerialsResolve, InCollection, HeldAt
<1>6. ASSUME NEW w \in Sessions, SaveHolder(w) PROVE SerialsResolve'
  <2>1. PICK r \in Requests : req[w] = r /\ Sound(r) /\ Placed(r) /\ Copies(r, prog, card)
    BY Held
  <2>2. r.card \in Cards /\ r.cards[r.card] # None /\ r.step = "holder"
    BY <1>6, <2>1 DEF SaveHolder, Sound, Reached, CardSteps, NftSteps, OnCard
  <2>3. Card(r) = card[r.card] /\ card[r.card].serial # 0
    BY <2>1, <2>2 DEF Copies, Card, Placed
  <2>4. card' = [card EXCEPT ![r.card].holder = r.account] /\ UNCHANGED <<prog, nfts>>
    BY <1>6, <2>1 DEF SaveHolder, network
  <2>5. InCollection(r.card, card[r.card].serial) /\ HeldAt(r.card, card[r.card].serial, r.account)
    BY <2>1, <2>2, <2>3 DEF HeldInv, AnswersResolve, AnswerResolves, SerialsResolve
  <2>6. card'[r.card].serial = card[r.card].serial /\ card'[r.card].holder = r.account
    BY <1>2, <2>2, <2>4 DEF CardRows
  <2>7. \A c \in Cards \ {r.card} : card'[c].serial = card[c].serial /\ card'[c].holder = card[c].holder
    BY <1>2, <2>4
  <2>8. InCollection(r.card, card[r.card].serial)' /\ HeldAt(r.card, card[r.card].serial, r.account)'
    BY <2>4, <2>5, <2>6 DEF InCollection, HeldAt
  <2>9. ASSUME NEW c \in Cards, c # r.card
        PROVE  /\ card'[c].holder # 0 => card'[c].serial # 0
               /\ card'[c].serial # 0 =>
                      /\ InCollection(c, card[c].serial)'
                      /\ card'[c].holder # 0 => HeldAt(c, card[c].serial, card[c].holder)'
    BY <1>3, <2>7, <2>9
  <2>. QED
    BY <2>2, <2>3, <2>6, <2>7, <2>8, <2>9 DEF SerialsResolve, InCollection, HeldAt
<1>. QED
  BY <1>4, <1>5, <1>6, LinksChange

LEMMA AnswersResolveNext ==
    ASSUME IInv, Alone, HeldInv, [Next]_vars PROVE AnswersResolve'
<1>1. NetworkGrows /\ ReferencesStay
  BY NetworkKept, ReferencesSettled
<1>2. ASSUME NEW t \in Sessions, NEW q \in Requests, req'[t] = q
      PROVE  /\ q.step = "serial" => InCollection(q.card, q.got)'
             /\ q.step = "holder" => HeldAt(q.card, Card(q).serial, q.account)'
  <2>1. PICK r \in Requests : /\ req[t] = r /\ Sound(r) /\ Placed(r) /\ Copies(r, prog, card)
    BY Held
  <2>2. CASE q = r
    <3>1. CASE r.step = "serial"
      <4>1. r.card \in Cards /\ InCollection(r.card, r.got)
        BY <2>1, <3>1 DEF HeldInv, AnswersResolve, AnswerResolves, Sound, Reached, CardSteps, NftSteps, OnCard
      <4>. QED
        BY <1>1, <2>2, <3>1, <4>1, CollectionKept
    <3>2. CASE r.step = "holder"
      <4>1. /\ r.card \in Cards /\ r.cards[r.card] # None /\ r.account # 0
            /\ HeldAt(r.card, Card(r).serial, r.account) /\ Card(r).serial # 0
        BY <2>1, <3>2 DEF HeldInv, AnswersResolve, AnswerResolves, Sound, Reached, CardSteps, NftSteps, OnCard, Placed
      <4>2. Card(r) = card[r.card]
        BY <2>1, <4>1 DEF Copies, Card
      <4>3. InCollection(r.card, Card(r).serial)
        BY <4>1, <4>2 DEF HeldInv, SerialsResolve
      <4>4. PICK k : k = Card(r).serial
        OBVIOUS
      <4>5. HeldAt(r.card, k, r.account)'
        BY <1>1, <4>1, <4>3, <4>4, CollectionKept
      <4>. QED
        BY <2>2, <3>2, <4>4, <4>5
    <3>. QED
      BY <2>2, <3>1, <3>2
  <2>3. CASE q # r /\ q.step = "serial"
    <3>1. MintCard(t)
      BY <1>2, <2>1, <2>3, AnswersAwaited
    <3>2. PICK k, y : k = Len(nfts[Program(r).token]) + 1 /\ y = [card |-> r.card, holder |-> 0, meta |-> Version(r)]
      OBVIOUS
    <3>3. r.step = "mint" /\ prog' = prog /\ Program(r).token \in DOMAIN nfts
          /\ r.card \in Cards /\ r.venue = VenueOf(r.card) /\ r.progs[r.venue] # None /\ r.venue \in Venues
      BY <2>1, <3>1, MintEffect, NftAddressed DEF NftSteps, db
    <3>4. NftDone(r).step # "serial"
      BY <2>1, NftDoneOn, IdlePlaced DEF Onward, Over, Parked, Publishing
    <3>5. req \in [Sessions -> Requests]
      BY DEF IInv, ReqsOK
    <3>6. req'[t] = [At(r, "serial") EXCEPT !.got = k] /\ NftAdded(Program(r).token, y)
      BY <1>2, <2>1, <2>3, <3>1, <3>2, <3>4, <3>5, MintEffect
    <3>7. q.got = k /\ q.card = r.card
      BY <1>2, <2>1, <3>6 DEF At, Requests
    <3>8. prog[VenueOf(r.card)].token = Program(r).token /\ Program(r).token # 0
      <4>1. SameIds(r.progs[r.venue], prog[r.venue])
        BY <2>1, <3>3 DEF Copies
      <4>2. Program(r).token # 0
        BY <2>1, <3>3 DEF Sound, Reached, NftSteps
      <4>. QED
        BY <3>3, <4>1, <4>2 DEF SameIds, Program
    <3>9. InCollection(r.card, k)'
      BY <3>2, <3>3, <3>6, <3>8 DEF InCollection, NftAdded
    <3>. QED
      BY <2>3, <3>7, <3>9
  <2>4. CASE q # r /\ q.step = "holder"
    <3>1. TransferCard(t)
      BY <1>2, <2>1, <2>4, AnswersAwaited
    <3>2. r.step = "transfer" /\ prog' = prog
          /\ r.card \in Cards /\ r.venue = VenueOf(r.card) /\ r.progs[r.venue] # None /\ r.venue \in Venues
      BY <2>1, <3>1, TransferEffect, NftAddressed DEF NftSteps, db
    <3>3. NftDone(r).step # "holder"
      BY <2>1, NftDoneOn, IdlePlaced DEF Onward, Over, Parked, Publishing
    <3>4. req \in [Sessions -> Requests]
      BY DEF IInv, ReqsOK
    <3>5. req' # [req EXCEPT ![t] = NftDone(r)]
      BY <1>2, <2>4, <3>3, <3>4
    <3>6. req' = [req EXCEPT ![t] = At(r, "holder")] =>  req'[t] = At(r, "holder")
      BY <3>4
    <3>7. \E j \in DOMAIN nfts : \E k \in DOMAIN nfts[j] :
                     /\ j = Program(r).token /\ k = Card(r).serial /\ nfts[j][k].holder = 0
                     /\ NftBecomes(j, k, [nfts[j][k] EXCEPT !.holder = r.account])
                     /\ \/ UNCHANGED <<failed, faults>> /\ req' = [req EXCEPT ![t] = At(r, "holder")]
                        \/ faults' = faults + 1 /\ UNCHANGED failed /\ req' = [req EXCEPT ![t] = NftDone(r)]
      BY <2>1, <3>1, <3>5, TransferEffect
    <3>8. /\ req'[t] = At(r, "holder")
          /\ \E j \in DOMAIN nfts : \E k \in DOMAIN nfts[j] :
                     /\ j = Program(r).token /\ k = Card(r).serial
                     /\ NftBecomes(j, k, [nfts[j][k] EXCEPT !.holder = r.account])
      BY <3>5, <3>6, <3>7
    <3>9. PICK j \in DOMAIN nfts : \E k \in DOMAIN nfts[j] :
                     /\ j = Program(r).token /\ k = Card(r).serial
                     /\ NftBecomes(j, k, [nfts[j][k] EXCEPT !.holder = r.account])
      BY <3>8
    <3>10. PICK k \in DOMAIN nfts[j] : /\ j = Program(r).token /\ k = Card(r).serial
                                      /\ NftBecomes(j, k, [nfts[j][k] EXCEPT !.holder = r.account])
      BY <3>9
    <3>11. PICK y : y = [nfts[j][k] EXCEPT !.holder = r.account]
      OBVIOUS
    <3>12. y.holder = r.account
      <4>1. nfts[j][k] \in Nfts
        BY DEF IInv, NetworkOK
      <4>. QED
        BY <3>11, <4>1 DEF Nfts
    <3>13. nfts'[j][k].holder = r.account
      BY <3>10, <3>11, <3>12 DEF NftBecomes
    <3>14. q.card = r.card /\ q.account = r.account /\ Card(q) = Card(r)
      BY <1>2, <3>8 DEF At, Requests, Card
    <3>15. prog[VenueOf(r.card)].token = j
      BY <2>1, <3>2, <3>10 DEF Copies, SameIds, Program
    <3>16. HeldAt(r.card, k, r.account)'
      BY <3>2, <3>13, <3>15 DEF HeldAt
    <3>. QED
      BY <2>4, <3>10, <3>14, <3>16
  <2>. QED
    BY <2>2, <2>3, <2>4
<1>. QED
  BY <1>2 DEF AnswersResolve, AnswerResolves

LEMMA AlwaysHeld == ASSUME HostSerialises PROVE Spec => []HeldInv
<1>1. Init => HeldInv
  <2>. SUFFICES ASSUME Init PROVE HeldInv
    OBVIOUS
  <2>1. \A c \in Cards : card[c].serial = 0 /\ card[c].holder = 0
    BY DEF Init
  <2>2. \A w \in Sessions : req[w].step = "idle"
    BY IdlePlaced DEF Init
  <2>. QED
    BY <2>1, <2>2 DEF HeldInv, SerialsResolve, AnswersResolve, AnswerResolves
<1>2. IInv /\ Alone /\ HeldInv /\ [Next]_vars => HeldInv'
  BY SerialsResolveNext, AnswersResolveNext DEF HeldInv
<1>. QED
  BY <1>1, <1>2, AlwaysAlone, PTL DEF Spec

\* A card whose row names a holder is that account's NFT, in the collection the
\* program names (HeldByOwner): where requests may interleave at a venue a
\* second collection can take the first one's place.
THEOREM CardsAreHeldByTheirOwners == ASSUME HostSerialises PROVE Spec => []HeldByOwner
<1>1. HeldInv => HeldByOwner
  BY DEF HeldInv, SerialsResolve, InCollection, HeldAt, HeldByOwner
<1>. QED
  BY <1>1, AlwaysHeld, PTL
-----------------------------------------------------------------------------
(* The row a request mirrors                                               *)

\* From r's step the next is one of S.
Nearer(r, S) ==
    /\ r.step \in CardSteps => S \subseteq CardSteps
    /\ r.step = "metadata" => S = {"proof"}
    /\ r.step = "proof" => S = {}

\* How q, the record a step of w leaves behind, follows from r, the one it
\* found: the same item goes on, a message was answered, a row was filed, a
\* pass took its next item, or something has just begun.
Follows(w, q, r, S) ==
    \/ Alike(q, r) /\ Nearer(r, S)
    \/ /\ Submit(w) /\ S = {"metadata", "proof"}
       /\ Answered(q, r)
       /\ req' = [req EXCEPT ![w] = ToMetadata(q)]
       /\ MessageAdded(r)
    \/ (FilePunch(w) \/ FileRedemption(w)) /\ RowFiledFor(q, r) /\ S \subseteq CardSteps
    \/ /\ Pick(w) /\ q.op = "reconcile" /\ q.seq = 0 /\ q.phase = r.phase
       /\ \/ q.row = 0 /\ q.queue = r.queue
          \/ /\ q.row \in r.queue /\ q.queue = r.queue \ {q.row}
             /\ S = {"submit"} /\ q.card = rows[q.row].card
    \/ /\ UNCHANGED rows /\ q.row = 0 /\ q.seq = 0
       /\ \/ q.queue = {}
          \/ /\ q.op = "reconcile" /\ q.phase \in {"punch", "redeem"}
             /\ q.queue \subseteq Unpublished(q.phase)

LEMMA StepFollows ==
    ASSUME IInv, Alone, NEW w \in Sessions, NEW r, r = req[w],
           Proceed(w) \/ Arrive(w) \/ BeginReconcile(w) \/ Crash(w)
    PROVE  Quits(w) \/ \E q, S : Takes(w, q, S) /\ Leads(w, S) /\ Follows(w, q, r, S)
<1> DEFINE G == Quits(w) \/ \E q, S : Takes(w, q, S) /\ Leads(w, S) /\ Follows(w, q, r, S)
<1>1. ASSUME NEW q, NEW S, Takes(w, q, S), Leads(w, S), Alike(q, r), Nearer(r, S)
      PROVE  G
  BY <1>1 DEF Follows
<1>2. ASSUME NEW q, NEW S, Takes(w, q, S), Leads(w, S), q.row = 0, q.seq = 0, UNCHANGED rows,
             \/ q.queue = {}
             \/ /\ q.op = "reconcile" /\ q.phase \in {"punch", "redeem"}
                /\ q.queue \subseteq Unpublished(q.phase)
      PROVE  G
  BY <1>2 DEF Follows
<1>3. r \in Requests /\ Placed(r) /\ Alike(r, r)
  BY Held DEF Alike
<1>4. /\ Leads(w, {}) /\ Leads(w, {"topic"}) /\ Leads(w, {"proof"}) /\ Leads(w, Publishing)
      /\ Leads(w, {"metadata", "proof"}) /\ Leads(w, {"account"} \cup Publishing)
      /\ Leads(w, {"create", "mint", "transfer"} \cup Publishing)
      /\ Leads(w, {"mint", "transfer"} \cup Publishing)
      /\ Leads(w, {"transfer"} \cup Publishing)
      /\ Leads(w, {"token", "topic"}) /\ Leads(w, {"file"})
      /\ CreateCollection(w) => Leads(w, {"savetoken"})
      /\ CreateTopic(w) => Leads(w, {"savetopic"})
      /\ CreateAccount(w) => Leads(w, {"keep"} \cup Publishing)
      /\ MintCard(w) => Leads(w, {"serial"} \cup Publishing)
      /\ TransferCard(w) => Leads(w, {"holder"} \cup Publishing)
  BY DEF Publishing, Leads
<1>5. \A S : S \subseteq {"create", "keep", "mint", "serial", "transfer", "holder", "account"} \cup Publishing =>
          S \subseteq CardSteps /\ (r.step \notin {"metadata", "proof"} => Nearer(r, S))
  BY DEF CardSteps, NftSteps, Publishing, Nearer
<1>6. CASE Crash(w)
  BY <1>6, CrashTakes
<1>7. CASE BeginReconcile(w)
  <2>1. PICK q : Turns(w, q, {"pick"}) /\ q.row = 0 /\ q.queue = {}
    BY <1>7, BeginReconcileTakes
  <2>2. UNCHANGED rows
    BY <1>7 DEF BeginReconcile, db
  <2>. QED
    BY <1>2, <2>1, <2>2 DEF Turns, Leads
<1>8. CASE Arrive(w)
  <2>1. \E q, S : Takes(w, q, S) /\ Leads(w, S) /\ q.row = 0 /\ q.seq = 0 /\ q.queue = {}
    BY <1>4, <1>8, ArriveTakes DEF Arrive
  <2>2. UNCHANGED rows
    BY <1>8 DEF Arrive, OptIn, Begin, Recount, db
  <2>. QED
    BY <1>2, <2>1, <2>2
<1>9. CASE CreateCollection(w) \/ CreateTopic(w)
  <2>1. \A S : Nearer(r, S)
    BY <1>9 DEF CreateCollection, CreateTopic, CardSteps, NftSteps, Nearer
  <2>. QED
    BY <1>1, <1>3, <1>4, <1>9, <2>1, NetworkTakes
<1>10. CASE CreateAccount(w) \/ MintCard(w) \/ TransferCard(w) \/ FindAccount(w) \/ KeepAccount(w)
  <2>1. \/ Quits(w)
        \/ \E S : Takes(w, r, S) /\ Leads(w, S)
               /\ S \subseteq {"create", "keep", "mint", "serial", "transfer", "holder", "account"} \cup Publishing
    BY <1>4, <1>10, NetworkTakes, AccountTakes DEF Publishing
  <2>2. r.step \notin {"metadata", "proof"}
    BY <1>10 DEF CreateAccount, MintCard, TransferCard, FindAccount, KeepAccount
  <2>. QED
    BY <1>1, <1>3, <1>5, <2>1, <2>2
<1>11. CASE UpdateMetadata(w) \/ RefreshMetadata(w) \/ WriteProof(w)
  <2>1. \E S : Takes(w, r, S) /\ Leads(w, S) /\ Nearer(r, S)
    BY <1>4, <1>11, NetworkTakes, AccountTakes
    DEF UpdateMetadata, RefreshMetadata, WriteProof, Nearer, CardSteps
  <2>. QED
    BY <1>1, <1>3, <2>1
<1>12. CASE SaveToken(w) \/ SaveTopic(w)
  <2>1. \A S : Nearer(r, S)
    BY <1>12 DEF SaveToken, SaveTopic, CardSteps, NftSteps, Nearer
  <2>2. \E q, S : Takes(w, q, S) /\ Leads(w, S) /\ Alike(q, r)
    BY <1>4, <1>12, SaveTakes
  <2>. QED
    BY <1>1, <2>1, <2>2
<1>13. CASE SaveSerial(w) \/ SaveHolder(w)
  <2>1. \E q, S : Takes(w, q, S) /\ Leads(w, S) /\ Alike(q, r)
               /\ S \subseteq {"create", "keep", "mint", "serial", "transfer", "holder", "account"} \cup Publishing
    BY <1>4, <1>13, SaveTakes DEF Publishing
  <2>2. r.step \notin {"metadata", "proof"}
    BY <1>13 DEF SaveSerial, SaveHolder
  <2>. QED
    BY <1>1, <1>5, <2>1, <2>2
<1>14. CASE FilePunch(w) \/ FileRedemption(w)
  <2>1. \E q, S : Takes(w, q, S) /\ Leads(w, S) /\ RowFiledFor(q, r)
               /\ S \subseteq {"create", "keep", "mint", "serial", "transfer", "holder", "account"} \cup Publishing
    BY <1>4, <1>14, FileTakes DEF Publishing
  <2>. QED
    BY <1>5, <1>14, <2>1 DEF Follows
<1>15. CASE Submit(w)
  <2>1. Nearer(r, {"metadata", "proof"})
    BY <1>15 DEF Submit, Nearer, CardSteps
  <2>2. CASE Takes(w, r, {"metadata", "proof"})
    BY <1>1, <1>3, <1>4, <2>1, <2>2
  <2>3. CASE \E q : /\ Answered(q, r)
                    /\ Takes(w, q, {"metadata", "proof"})
                    /\ req' = [req EXCEPT ![w] = ToMetadata(q)]
                    /\ MessageAdded(r)
    <3>1. PICK q : /\ Answered(q, r)
                   /\ Takes(w, q, {"metadata", "proof"})
                   /\ req' = [req EXCEPT ![w] = ToMetadata(q)]
                   /\ MessageAdded(r)
      BY <2>3
    <3>2. Follows(w, q, r, {"metadata", "proof"})
      BY <1>15, <3>1 DEF Follows
    <3>. QED
      BY <1>4, <3>1, <3>2
  <2>4. \/ Takes(w, r, {"metadata", "proof"})
        \/ \E q : /\ Answered(q, r)
                  /\ Takes(w, q, {"metadata", "proof"})
                  /\ req' = [req EXCEPT ![w] = ToMetadata(q)]
                  /\ MessageAdded(r)
    BY <1>15, SubmitTakes
  <2>. HIDE DEF G
  <2>. QED
    BY <2>2, <2>3, <2>4
<1>16. CASE NextPhase(w)
  <2>1. \/ Quits(w)
        \/ \E q : /\ Turns(w, q, {"pick"}) /\ q.row = 0
                  /\ \/ q.queue = {}
                     \/ q.phase \in {"punch", "redeem"} /\ q.queue \subseteq Unpublished(q.phase)
    BY <1>16, NextPhaseTakes
  <2>2. UNCHANGED rows
    BY <1>16 DEF NextPhase, db
  <2>. QED
    BY <1>2, <2>1, <2>2 DEF Turns, Leads
<1>17. CASE Pick(w)
  <2>1. \E q, S : /\ Turns(w, q, S) /\ q.phase = r.phase
                  /\ \/ q.row = 0 /\ q.queue = r.queue
                     \/ /\ q.row \in r.queue /\ q.queue = r.queue \ {q.row}
                        /\ S = {"submit"} /\ q.card = rows[q.row].card
    BY <1>17, PickTakes
  <2>. QED
    BY <1>17, <2>1 DEF Turns, Leads, Follows
<1>. QED
  BY <1>6, <1>7, <1>8, <1>9, <1>10, <1>11, <1>12, <1>13, <1>14, <1>15, <1>16, <1>17 DEF Proceed

\* What every session's record becomes, whoever steps.
LEMMA RecordsFollow ==
    ASSUME IInv, Alone, [Next]_vars, NEW t \in Sessions, NEW r, r = req[t], NEW n, n = req'[t]
    PROVE  \/ n = r
           \/ n = Idle
           \/ /\ Proceed(t) \/ Arrive(t) \/ BeginReconcile(t)
              /\ \E q, S : /\ Takes(t, q, S) /\ Leads(t, S) /\ Follows(t, q, r, S)
                           /\ Onward(n, q, S) /\ req' = [req EXCEPT ![t] = n]
<1>1. req \in [Sessions -> Requests]
  BY DEF IInv, ReqsOK
<1>2. ASSUME NEW w \in Sessions, Proceed(w) \/ Arrive(w) \/ BeginReconcile(w), n # r
      PROVE  \/ n = Idle
             \/ /\ w = t
                /\ \E q, S : /\ Takes(t, q, S) /\ Leads(t, S) /\ Follows(t, q, r, S)
                             /\ Onward(n, q, S) /\ req' = [req EXCEPT ![t] = n]
  <2>1. PICK s : s = req[w]
    OBVIOUS
  <2>2. Quits(w) \/ \E q, S : Takes(w, q, S) /\ Leads(w, S) /\ Follows(w, q, s, S)
    BY <1>2, <2>1, StepFollows
  <2>3. CASE Quits(w)
    BY <1>1, <1>2, <2>3 DEF Quits
  <2>4. ASSUME NEW q, NEW S, Takes(w, q, S), Leads(w, S), Follows(w, q, s, S)
        PROVE  /\ w = t
               /\ \E p, T : /\ Takes(t, p, T) /\ Leads(t, T) /\ Follows(t, p, r, T)
                            /\ Onward(n, p, T) /\ req' = [req EXCEPT ![t] = n]
    <3>1. PICK m : Onward(m, q, S) /\ req' = [req EXCEPT ![w] = m]
      BY <2>4 DEF Takes
    <3>2. w = t /\ m = n /\ s = r
      BY <1>1, <1>2, <2>1, <3>1
    <3>. QED
      BY <2>4, <3>1, <3>2
  <2>. QED
    BY <2>2, <2>3, <2>4
<1>3. ASSUME NEW w \in Sessions, Crash(w), n # r PROVE n = Idle
  BY <1>1, <1>3 DEF Crash
<1>4. ASSUME NEW v \in Venues, Pause(v) PROVE n = r
  BY <1>4 DEF Pause
<1>5. CASE UNCHANGED vars
  BY <1>5 DEF vars
<1>. QED
  BY <1>2, <1>3, <1>4, <1>5 DEF Next

\* Who writes a row or files one.
LEMMA RowChangers ==
    ASSUME IInv, [Next]_vars
    PROVE  \/ UNCHANGED rows
           \/ \E w \in Sessions : FilePunch(w) \/ FileRedemption(w) \/ WriteProof(w)
<1>1. ASSUME NEW w \in Sessions,
             \/ CreateCollection(w) \/ SaveToken(w) \/ CreateTopic(w) \/ SaveTopic(w) \/ FindAccount(w)
             \/ CreateAccount(w) \/ KeepAccount(w) \/ MintCard(w) \/ TransferCard(w) \/ Submit(w)
             \/ UpdateMetadata(w) \/ SaveSerial(w) \/ SaveHolder(w) \/ NextPhase(w) \/ Pick(w)
             \/ RefreshMetadata(w) \/ BeginReconcile(w) \/ Crash(w) \/ \E v \in Venues : OptIn(w, v)
             \/ \E c \in Cards : Begin(w, "punch", c) \/ Begin(w, "redeem", c) \/ Recount(w, c)
      PROVE  UNCHANGED rows
  BY <1>1 DEF CreateCollection, SaveToken, CreateTopic, SaveTopic, FindAccount, CreateAccount,
     KeepAccount, MintCard, TransferCard, Submit, UpdateMetadata, SaveSerial, SaveHolder, NextPhase,
     Pick, RefreshMetadata, Repoint, BeginReconcile, Crash, OptIn, Begin, Recount, db
<1>2. ASSUME NEW v \in Venues, Pause(v) PROVE UNCHANGED rows
  BY <1>2 DEF Pause
<1>3. ASSUME UNCHANGED vars PROVE UNCHANGED rows
  BY <1>3 DEF vars
<1>. QED
  BY <1>1, <1>2, <1>3 DEF Next, Proceed, Arrive

\* The row a filing step appends.
NewRow(w) ==
    [kind |-> req[w].op, card |-> req[w].card, cycle |-> card[req[w].card].cycle, seq |-> 0]

LEMMA FileEffect ==
    ASSUME IInv, NEW w \in Sessions, FilePunch(w) \/ FileRedemption(w), NEW y, y = NewRow(w)
    PROVE  /\ y \in MirrorRows /\ rows' = Append(rows, y) /\ req[w].step = "file"
           /\ y.kind = req[w].op /\ y.seq = 0 /\ y.card = req[w].card /\ req[w].card \in Cards
           /\ DOMAIN rows' = DOMAIN rows \cup {Len(rows) + 1} /\ Len(rows') = Len(rows) + 1
           /\ rows'[Len(rows) + 1] = y
           /\ \A i \in DOMAIN rows : rows'[i] = rows[i]
<1>1. PICK r \in Requests : req[w] = r /\ Sound(r)
  BY Suspended DEF IInv
<1>2. r.card \in Cards /\ r.step = "file"
  BY <1>1 DEF FilePunch, FileRedemption, Sound, Reached
<1>3. card[r.card].cycle \in Nat
  BY <1>2 DEF IInv, DbOK, CardsOK, CardRows
<1>4. /\ y = [kind |-> r.op, card |-> r.card, cycle |-> card[r.card].cycle, seq |-> 0]
      /\ r.op \in {"punch", "redeem"}
  BY <1>1 DEF NewRow, FilePunch, FileRedemption
<1>5. y \in MirrorRows /\ y.kind = r.op /\ y.seq = 0 /\ y.card = r.card
  BY <1>2, <1>3, <1>4 DEF MirrorRows
<1>6. rows' = Append(rows, y)
  BY <1>1, <1>4 DEF FilePunch, FileRedemption, Punch
<1>. QED
  BY <1>1, <1>2, <1>5, <1>6, RowsShape

LEMMA ProofEffect ==
    ASSUME IInv, NEW w \in Sessions, WriteProof(w), NEW r, r = req[w]
    PROVE  /\ r.row \in DOMAIN rows /\ r.seq \in Nat \ {0} /\ r.step = "proof" /\ DOMAIN rows' = DOMAIN rows
           /\ \A i \in DOMAIN rows : /\ rows'[i].card = rows[i].card /\ rows'[i].kind = rows[i].kind
                                     /\ rows'[i].cycle = rows[i].cycle
                                     /\ rows'[i].seq = IF i = r.row THEN r.seq ELSE rows[i].seq
<1>1. r \in Requests /\ Sound(r) /\ r.step = "proof"
  BY Suspended DEF IInv, WriteProof
<1>2. r.row \in DOMAIN rows /\ r.seq \in Nat \ {0}
  BY <1>1 DEF Sound, Reached, Holds, Requests
<1>3. rows' = [rows EXCEPT ![r.row].seq = r.seq]
  BY DEF WriteProof
<1>4. \A i \in DOMAIN rows : rows[i] \in MirrorRows
  BY RowsShape, ElementOfSeq
<1>. QED
  BY <1>1, <1>2, <1>3, <1>4 DEF MirrorRows

\* A row keeps its card, kind and cycle, and its number but for the request that
\* proves it.
LEMMA RowsStay ==
    ASSUME IInv, [Next]_vars, NEW i \in DOMAIN rows
    PROVE  /\ i \in DOMAIN rows' /\ rows'[i].card = rows[i].card /\ rows'[i].kind = rows[i].kind
           /\ rows'[i].cycle = rows[i].cycle
           /\ \/ rows'[i].seq = rows[i].seq
              \/ \E w \in Sessions : WriteProof(w) /\ i = req[w].row /\ rows'[i].seq = req[w].seq
<1>1. ASSUME NEW w \in Sessions, FilePunch(w) \/ FileRedemption(w)
      PROVE  i \in DOMAIN rows' /\ rows'[i] = rows[i]
  BY <1>1, FileEffect
<1>2. ASSUME NEW w \in Sessions, WriteProof(w)
      PROVE  /\ i \in DOMAIN rows' /\ rows'[i].card = rows[i].card /\ rows'[i].kind = rows[i].kind
             /\ rows'[i].cycle = rows[i].cycle
             /\ rows'[i].seq = rows[i].seq \/ (i = req[w].row /\ rows'[i].seq = req[w].seq)
  BY <1>2, ProofEffect
<1>. QED
  BY <1>1, <1>2, RowChangers

\* A row's place in its cycle is settled when it is filed.
LEMMA OrdinalStays ==
    ASSUME IInv, [Next]_vars, NEW i \in DOMAIN rows PROVE Ordinal(i)' = Ordinal(i)
<1>1. \A j \in DOMAIN rows' : j <= i => j \in DOMAIN rows
  <2>1. ASSUME NEW w \in Sessions, FilePunch(w) \/ FileRedemption(w), NEW j \in DOMAIN rows', j <= i
        PROVE  j \in DOMAIN rows
    BY <2>1, FileEffect, RowsShape
  <2>2. ASSUME NEW w \in Sessions, WriteProof(w) PROVE DOMAIN rows' = DOMAIN rows
    BY <2>2, ProofEffect
  <2>. QED
    BY <2>1, <2>2, RowChangers
<1>2. PICK c, n : c = rows[i].card /\ n = rows[i].cycle
  OBVIOUS
<1>3. rows'[i].card = c /\ rows'[i].cycle = n
  BY <1>2, RowsStay
<1>4. \A j \in DOMAIN rows : j \in DOMAIN rows' /\ rows'[j].card = rows[j].card
                             /\ rows'[j].kind = rows[j].kind /\ rows'[j].cycle = rows[j].cycle
  BY RowsStay
<1>5. {j \in Punches(c, n)' : j <= i} = {j \in Punches(c, n) : j <= i}
  BY <1>1, <1>4 DEF Punches
<1>. QED
  BY <1>2, <1>3, <1>5 DEF Ordinal

\* A card's progress only changes when a row of it is filed.
LEMMA ProgressStays ==
    ASSUME IInv, [Next]_vars, NEW c \in Cards
    PROVE  \/ card'[c].count = card[c].count /\ card'[c].cycle = card[c].cycle
           \/ \E w \in Sessions : (FilePunch(w) \/ FileRedemption(w)) /\ req[w].card = c
<1>1. card \in [Cards -> CardRows]
  BY DEF IInv, DbOK, CardsOK
<1>2. ASSUME NEW w \in Sessions, FilePunch(w), req[w].card # c PROVE card'[c] = card[c]
  <2>1. PICK m : card' = [card EXCEPT ![req[w].card].count = m]
    BY <1>2 DEF FilePunch
  <2>. QED
    BY <1>1, <1>2, <2>1
<1>3. ASSUME NEW w \in Sessions, FileRedemption(w), req[w].card # c PROVE card'[c] = card[c]
  <2>1. card' = [card EXCEPT ![req[w].card].cycle = @ + 1, ![req[w].card].count = 0]
    BY <1>3 DEF FileRedemption
  <2>. QED
    BY <1>1, <1>3, <2>1
<1>4. ASSUME NEW w \in Sessions, SaveSerial(w)
      PROVE  card'[c].count = card[c].count /\ card'[c].cycle = card[c].cycle
  <2>1. PICK k : card' = [card EXCEPT ![req[w].card].serial = k]
    BY <1>4 DEF SaveSerial
  <2>. QED
    BY <1>1, <2>1 DEF CardRows
<1>5. ASSUME NEW w \in Sessions, SaveHolder(w)
      PROVE  card'[c].count = card[c].count /\ card'[c].cycle = card[c].cycle
  <2>1. PICK k : card' = [card EXCEPT ![req[w].card].holder = k]
    BY <1>5 DEF SaveHolder
  <2>. QED
    BY <1>1, <2>1 DEF CardRows
<1>6. ASSUME NEW w \in Sessions,
             \/ CreateCollection(w) \/ SaveToken(w) \/ CreateTopic(w) \/ SaveTopic(w) \/ FindAccount(w)
             \/ CreateAccount(w) \/ KeepAccount(w) \/ MintCard(w) \/ TransferCard(w) \/ Submit(w)
             \/ UpdateMetadata(w) \/ WriteProof(w) \/ NextPhase(w) \/ Pick(w) \/ RefreshMetadata(w)
             \/ BeginReconcile(w) \/ Crash(w) \/ \E v \in Venues : OptIn(w, v)
             \/ \E d \in Cards : Begin(w, "punch", d) \/ Begin(w, "redeem", d) \/ Recount(w, d)
      PROVE  UNCHANGED card
  BY <1>6 DEF CreateCollection, SaveToken, CreateTopic, SaveTopic, FindAccount, CreateAccount,
     KeepAccount, MintCard, TransferCard, Submit, UpdateMetadata, WriteProof, NextPhase, Pick,
     RefreshMetadata, Repoint, BeginReconcile, Crash, OptIn, Begin, Recount, db
<1>7. ASSUME NEW v \in Venues, Pause(v) PROVE UNCHANGED card
  BY <1>7 DEF Pause
<1>8. ASSUME UNCHANGED vars PROVE UNCHANGED card
  BY <1>8 DEF vars
<1>. QED
  BY <1>2, <1>3, <1>4, <1>5, <1>6, <1>7, <1>8 DEF Next, Proceed, Arrive

\* Message k of the topic the venue's program names is about row i.
MessageAt(v, k, i) ==
    LET t == prog[v].topic IN
    t # 0 /\ t \in DOMAIN log /\ k \in DOMAIN log[t] /\ log[t][k].row = i

RowKind(r) == IF r.op = "reconcile" THEN r.phase ELSE r.op

\* The row a request mirrors, and those a pass still has to, are unpublished and
\* of the kind it says; the number it got is that of a message about its row.
OnRow(r) ==
    /\ r.row # 0 => /\ r.step \in CardSteps /\ r.row \notin r.queue
                    /\ rows[r.row].seq = 0 /\ rows[r.row].kind = RowKind(r)
    /\ r.row # 0 /\ r.seq # 0 => r.step \in {"metadata", "proof"} /\ MessageAt(r.venue, r.seq, r.row)
    /\ \A i \in r.queue : rows[i].seq = 0 /\ rows[i].kind = r.phase
    /\ r.op # "reconcile" => r.queue = {}
    /\ r.op = "punch" /\ r.row # 0 => card[r.card].count = Ordinal(r.row)

RowsResolve ==
    \A i \in DOMAIN rows : rows[i].seq # 0 => MessageAt(VenueOf(rows[i].card), rows[i].seq, i)
RequestsOnRows == \A w \in Sessions : \A r \in Requests : req[w] = r => OnRow(r)

RowInv == RowsResolve /\ RequestsOnRows

LEMMA MessageStays ==
    ASSUME NetworkGrows, ReferencesStay, NEW v \in Venues, NEW k, NEW i, MessageAt(v, k, i)
    PROVE  MessageAt(v, k, i)'
<1>1. prog'[v].topic = prog[v].topic
  BY DEF ReferencesStay, MessageAt
<1>. QED
  BY <1>1 DEF NetworkGrows, MessageAt

\* Nobody but its session touches the rows and the card of a request's item.
LEMMA ItemStays ==
    ASSUME IInv, Alone, RowInv, [Next]_vars, NEW t \in Sessions, NEW r \in Requests, req[t] = r
    PROVE  /\ r.row # 0 => rows'[r.row].seq = 0 \/ WriteProof(t)
           /\ \A i \in r.queue : rows'[i].seq = 0 \/ (WriteProof(t) /\ i = r.row)
           /\ r.step \in CardSteps =>
                  card'[r.card].count = card[r.card].count /\ card'[r.card].cycle = card[r.card].cycle
<1>1. Sound(r) /\ OnRow(r) /\ (r.step = "idle" => r = Idle) /\ (Busy(t) <=> r.step # "idle")
  BY Suspended DEF IInv, RowInv, RequestsOnRows, Alone, Busy
<1>2. r.queue \subseteq DOMAIN rows /\ (r.row # 0 => r.row \in DOMAIN rows)
  BY <1>1 DEF Sound, Holds
<1>3. ASSUME NEW w \in Sessions, w # t, WriteProof(w), Busy(t)
      PROVE  /\ r.op # "reconcile" /\ r.queue = {}
             /\ r.row # 0 => req[w].row # r.row
  <2>1. PICK q \in Requests : req[w] = q /\ Sound(q) /\ q.step = "proof"
    BY <1>3, Suspended DEF IInv, WriteProof
  <2>2. r.op # "reconcile" /\ q.venue # r.venue
    BY <1>3, <2>1 DEF Alone, Apart, Busy
  <2>3. rows[q.row].card = q.card /\ q.venue = VenueOf(q.card)
    BY <2>1 DEF Sound, Reached, CardSteps, OnCard
  <2>4. r.row # 0 => rows[r.row].card = r.card /\ r.venue = VenueOf(r.card)
    BY <1>1 DEF Sound, Reached, OnCard, OnRow
  <2>. QED
    BY <1>1, <2>1, <2>2, <2>3, <2>4 DEF OnRow
<1>4. r.row # 0 \/ r.queue # {} => Busy(t)
  <2>1. Idle.row = 0 /\ Idle.queue = {}
    BY DEF Idle, Bare
  <2>. QED
    BY <1>1, <2>1
<1>5. r.row # 0 => rows'[r.row].seq = 0 \/ WriteProof(t)
  BY <1>1, <1>2, <1>3, <1>4, RowsStay DEF OnRow
<1>6. \A i \in r.queue : rows'[i].seq = 0 \/ (WriteProof(t) /\ i = r.row)
  <2>1. \A i \in r.queue : i \in DOMAIN rows /\ rows[i].seq = 0
    BY <1>1, <1>2 DEF OnRow
  <2>. QED
    BY <1>3, <1>4, <2>1, RowsStay
<1>7. ASSUME r.step \in CardSteps
      PROVE  card'[r.card].count = card[r.card].count /\ card'[r.card].cycle = card[r.card].cycle
  <2>1. r.card \in Cards /\ r.venue = VenueOf(r.card) /\ r.step # "file" /\ r.step # "idle"
    BY <1>1, <1>7 DEF Sound, Reached, OnCard, CardSteps, NftSteps
  <2>2. ASSUME NEW w \in Sessions, FilePunch(w) \/ FileRedemption(w) PROVE req[w].card # r.card
    <3>1. PICK q \in Requests : req[w] = q /\ Sound(q) /\ q.step = "file"
      BY <2>2, Suspended DEF IInv, FilePunch, FileRedemption
    <3>2. q.venue = VenueOf(q.card)
      BY <3>1 DEF Sound, Reached
    <3>3. q.venue # r.venue
      BY <2>1, <3>1 DEF Alone, Apart, Busy
    <3>. QED
      BY <2>1, <3>1, <3>2, <3>3
  <2>. QED
    BY <2>1, <2>2, ProgressStays
<1>. QED
  BY <1>5, <1>6, <1>7

LEMMA RowsResolveNext ==
    ASSUME IInv, Alone, RowInv, [Next]_vars PROVE RowsResolve'
<1>1. NetworkGrows /\ ReferencesStay
  BY NetworkKept, ReferencesSettled
<1>2. \A i \in DOMAIN rows : rows[i].card \in Cards /\ VenueOf(rows[i].card) \in Venues
  <2>1. \A i \in DOMAIN rows : rows[i] \in MirrorRows
    BY RowsShape, ElementOfSeq
  <2>. QED
    BY <2>1 DEF MirrorRows, Cards, VenueOf
<1>3. ASSUME NEW i \in DOMAIN rows, rows'[i].seq = rows[i].seq, rows[i].seq # 0
      PROVE  MessageAt(VenueOf(rows[i].card), rows[i].seq, i)'
  <2>1. PICK v, k : v = VenueOf(rows[i].card) /\ k = rows[i].seq
    OBVIOUS
  <2>2. v \in Venues /\ MessageAt(v, k, i)
    BY <1>2, <1>3, <2>1 DEF RowInv, RowsResolve
  <2>3. MessageAt(v, k, i)'
    BY <1>1, <2>2, MessageStays
  <2>. QED
    BY <1>3, <2>1, <2>3, RowsStay DEF MessageAt, VenueOf
<1>4. ASSUME NEW w \in Sessions, NEW r, r = req[w], WriteProof(w)
      PROVE  MessageAt(VenueOf(rows[r.row].card), rows[r.row].seq, r.row)'
  <2>1. req[w] = r /\ Sound(r) /\ OnRow(r)
    BY <1>4, Suspended DEF IInv, RowInv, RequestsOnRows
  <2>2. /\ r.row \in DOMAIN rows /\ r.seq # 0 /\ r.row # 0 /\ r.step = "proof"
        /\ rows'[r.row].card = rows[r.row].card /\ rows'[r.row].seq = r.seq
    BY <1>4, <2>1, ProofEffect, RowsShape
  <2>3. r.venue = VenueOf(rows[r.row].card)
    BY <2>1, <2>2 DEF Sound, Reached, CardSteps, OnCard
  <2>4. MessageAt(r.venue, r.seq, r.row)
    BY <2>1, <2>2 DEF OnRow
  <2>5. UNCHANGED <<prog, log>>
    BY <1>4 DEF WriteProof, network
  <2>. QED
    BY <2>2, <2>3, <2>4, <2>5 DEF MessageAt, VenueOf
<1>5. \A i \in DOMAIN rows' : i \in DOMAIN rows \/ rows'[i].seq = 0
  <2>1. ASSUME NEW w \in Sessions, FilePunch(w) \/ FileRedemption(w), NEW i \in DOMAIN rows', i \notin DOMAIN rows
        PROVE  rows'[i].seq = 0
    BY <2>1, FileEffect
  <2>2. ASSUME NEW w \in Sessions, WriteProof(w) PROVE DOMAIN rows' = DOMAIN rows
    BY <2>2, ProofEffect
  <2>. QED
    BY <2>1, <2>2, RowChangers
<1>6. ASSUME NEW i \in DOMAIN rows, rows'[i].seq # 0 PROVE MessageAt(VenueOf(rows[i].card), rows[i].seq, i)'
  <2>1. CASE rows'[i].seq = rows[i].seq
    BY <1>3, <1>6, <2>1
  <2>2. ASSUME NEW w \in Sessions, WriteProof(w), i = req[w].row
        PROVE  MessageAt(VenueOf(rows[i].card), rows[i].seq, i)'
    <3>1. PICK r : r = req[w]
      OBVIOUS
    <3>. QED
      BY <1>4, <2>2, <3>1
  <2>. QED
    BY <2>1, <2>2, RowsStay
<1>. QED
  BY <1>5, <1>6 DEF RowsResolve

\* A step that goes on from q, itself on its row and about to stand at one of S,
\* leaves the request on its row; t reads the tables after the step.
QueueOK(q, t) ==
    \A i \in q.queue : t[i].seq = 0 /\ t[i].kind = q.phase
ItemOK(q, t, S) ==
    /\ q.row # 0 => /\ S \subseteq CardSteps /\ q.row \notin q.queue
                    /\ t[q.row].seq = 0 /\ t[q.row].kind = RowKind(q)
    /\ q.row # 0 /\ q.seq # 0 => S \subseteq {"metadata", "proof"}

LEMMA OnwardOnRow ==
    ASSUME NEW q, NEW S, NEW n, Onward(n, q, S), QueueOK(q, rows'), q.op # "reconcile" => q.queue = {},
           S # {} =>
               /\ ItemOK(q, rows', S)
               /\ q.row # 0 /\ q.seq # 0 => MessageAt(q.venue, q.seq, q.row)'
               /\ q.op = "punch" /\ q.row # 0 => card'[q.card].count = Ordinal(q.row)'
    PROVE  OnRow(n)'
<1>1. CASE n = Idle
  BY <1>1 DEF OnRow, Idle, Bare
<1>2. CASE Parked(n, q)
  BY <1>2 DEF Parked, OnRow, QueueOK
<1>3. CASE Goes(n, q) /\ n.step \in S
  BY <1>3 DEF Goes, OnRow, QueueOK, ItemOK, RowKind, MessageAt
<1>. QED
  BY <1>1, <1>2, <1>3 DEF Onward, Over

LEMMA RequestsOnRowsNext ==
    ASSUME IInv, Alone, RowInv, [Next]_vars PROVE RequestsOnRows'
<1>1. NetworkGrows /\ ReferencesStay
  BY NetworkKept, ReferencesSettled
<1>2. \A c \in Cards, n \in Nat : IsFiniteSet(Punches(c, n))
  <2>1. IsFiniteSet(1 .. Len(rows))
    BY RowsShape, FS_Interval
  <2>. QED
    BY <2>1, RowsShape, FS_Subset DEF Punches
<1>3. ASSUME NEW t \in Sessions, NEW r \in Requests, req[t] = r, NEW q, NEW S, Takes(t, q, S),
             NEW n, Onward(n, q, S), req' = [req EXCEPT ![t] = n], Follows(t, q, r, S),
             Proceed(t) \/ Arrive(t) \/ BeginReconcile(t)
      PROVE  OnRow(n)'
  <2>1. /\ Sound(r) /\ OnRow(r) /\ Copies(r, prog, card)
        /\ q \in Requests /\ Copies(q, prog', card') /\ OwnRows(t)
    BY <1>3, Suspended DEF IInv, RowInv, RequestsOnRows, Takes, Alone
  <2>2. /\ r.row # 0 => rows'[r.row].seq = 0 \/ WriteProof(t)
        /\ \A i \in r.queue : rows'[i].seq = 0 \/ (WriteProof(t) /\ i = r.row)
        /\ r.step \in CardSteps =>
               card'[r.card].count = card[r.card].count /\ card'[r.card].cycle = card[r.card].cycle
    BY <1>3, ItemStays
  <2>3. /\ r.queue \subseteq DOMAIN rows /\ (r.row # 0 => r.row \in DOMAIN rows) /\ r.row \notin r.queue
    BY <2>1, RowsShape DEF Sound, Holds, OnRow
  <2>4. \A i \in DOMAIN rows : rows'[i].kind = rows[i].kind /\ Ordinal(i)' = Ordinal(i)
    BY RowsStay, OrdinalStays
  <2>5. \A i \in r.queue : rows'[i].seq = 0 /\ rows'[i].kind = r.phase
    BY <2>1, <2>2, <2>3, <2>4 DEF OnRow
  <2>6. CASE Alike(q, r) /\ Nearer(r, S)
    <3>1. QueueOK(q, rows') /\ (q.op # "reconcile" => q.queue = {})
      BY <2>1, <2>5, <2>6 DEF QueueOK, Alike, OnRow
    <3>2. ASSUME S # {}
          PROVE  /\ ItemOK(q, rows', S)
                 /\ q.row # 0 /\ q.seq # 0 => MessageAt(q.venue, q.seq, q.row)'
                 /\ q.op = "punch" /\ q.row # 0 => card'[q.card].count = Ordinal(q.row)'
      <4>1. ~WriteProof(t)
        BY <1>3, <2>6, <3>2 DEF WriteProof, Nearer
      <4>2. ASSUME q.row # 0 PROVE ItemOK(q, rows', S)
        BY <2>1, <2>2, <2>3, <2>4, <2>6, <3>2, <4>1, <4>2 DEF Alike, Nearer, OnRow, ItemOK, RowKind
      <4>3. ASSUME q.row # 0, q.seq # 0 PROVE MessageAt(q.venue, q.seq, q.row)'
        <5>1. r.venue \in Venues /\ MessageAt(r.venue, r.seq, r.row)
          BY <2>1, <2>6, <4>3 DEF Alike, OnRow, Sound, Reached, OnCard, OnVenue
        <5>2. PICK v \in Venues, k \in {r.seq}, i \in {r.row} : v = r.venue
          BY <5>1
        <5>3. MessageAt(v, k, i)'
          BY <1>1, <5>1, <5>2, MessageStays
        <5>. QED
          BY <2>6, <5>2, <5>3 DEF Alike
      <4>4. ASSUME q.op = "punch", q.row # 0 PROVE card'[q.card].count = Ordinal(q.row)'
        BY <2>1, <2>2, <2>3, <2>4, <2>6, <4>4 DEF Alike, OnRow
      <4>. QED
        BY <4>2, <4>3, <4>4 DEF ItemOK
    <3>. QED
      BY <1>3, <3>1, <3>2, OnwardOnRow
  <2>7. CASE /\ Submit(t) /\ S = {"metadata", "proof"} /\ Answered(q, r) /\ MessageAdded(r)
    <3>1. PICK k : k = Len(log[Program(r).topic]) + 1
      OBVIOUS
    <3>2. /\ q.op = r.op /\ q.venue = r.venue /\ q.card = r.card /\ q.row = r.row /\ q.phase = r.phase
          /\ q.queue = r.queue /\ q.seq = k /\ r.step = "submit"
      BY <1>3, <2>7, <3>1 DEF Answered, Requests, Submit
    <3>3. ~WriteProof(t)
      BY <1>3, <3>2 DEF WriteProof
    <3>4. QueueOK(q, rows') /\ (q.op # "reconcile" => q.queue = {})
      BY <2>1, <2>5, <3>2 DEF QueueOK, OnRow
    <3>5. ItemOK(q, rows', S)
      BY <2>1, <2>2, <2>3, <2>4, <2>7, <3>2, <3>3 DEF OnRow, ItemOK, RowKind, CardSteps
    <3>6. MessageAt(q.venue, q.seq, q.row)'
      <4>1. /\ r.venue \in Venues /\ r.progs[r.venue] # None /\ r.card \in Cards /\ r.cards[r.card] # None
            /\ Program(r).topic # 0
        BY <2>1, <3>2 DEF Sound, Reached, CardSteps, OnCard, OnVenue
      <4>2. Program(r).topic \in DOMAIN log /\ prog[r.venue].topic = Program(r).topic
        <5>1. GoodProgram(Program(r), r.venue) /\ SameIds(Program(r), prog[r.venue])
          BY <2>1, <4>1 DEF Sound, Holds, Program, Copies
        <5>. QED
          BY <4>1, <5>1, SameDomains DEF GoodProgram, SameIds, IInv
      <4>3. PICK x : x = [row |-> r.row, count |-> MessageCount(r)]
        OBVIOUS
      <4>4. x \in Messages /\ x.row = r.row
        <5>1. Card(r).count \in Nat
          BY <2>1, <4>1 DEF Sound, Holds, Card, GoodCard, CardRows
        <5>2. MessageCount(r) \in Nat
          BY <5>1, OrdinalIsNat DEF MessageCount
        <5>. QED
          BY <1>3, <4>3, <5>2 DEF Messages, Requests
      <4>5. log' = [log EXCEPT ![Program(r).topic] = Append(@, x)] /\ UNCHANGED prog
        BY <2>7, <4>3 DEF MessageAdded, Submit, db
      <4>6. PICK m \in DOMAIN log : m = Program(r).topic
        BY <4>2
      <4>7. m \in DOMAIN log' /\ k \in DOMAIN log'[m] /\ log'[m][k] = x
        BY <3>1, <4>4, <4>5, <4>6, LogAdded
      <4>. QED
        BY <3>2, <4>1, <4>2, <4>4, <4>5, <4>6, <4>7 DEF MessageAt
    <3>7. q.op = "punch" /\ q.row # 0 => card'[q.card].count = Ordinal(q.row)'
      BY <2>1, <2>2, <2>3, <2>4, <3>2 DEF OnRow
    <3>. QED
      BY <1>3, <3>4, <3>5, <3>6, <3>7, OnwardOnRow
  <2>8. CASE (FilePunch(t) \/ FileRedemption(t)) /\ RowFiledFor(q, r) /\ S \subseteq CardSteps
    <3>1. PICK y : y = NewRow(t)
      OBVIOUS
    <3>2. /\ y.kind = r.op /\ y.seq = 0 /\ y.card = r.card /\ r.card \in Cards /\ r.step = "file"
          /\ DOMAIN rows' = DOMAIN rows \cup {Len(rows) + 1} /\ Len(rows') = Len(rows) + 1
          /\ rows'[Len(rows) + 1] = y
          /\ \A i \in DOMAIN rows : rows'[i] = rows[i]
      BY <1>3, <2>8, <3>1, FileEffect
    <3>3. /\ q.op = r.op /\ q.venue = r.venue /\ q.card = r.card /\ q.row = Len(rows) + 1
          /\ q.seq = r.seq /\ q.queue = r.queue /\ q.phase = r.phase /\ r.op \in {"punch", "redeem"}
      BY <1>3, <2>8, <3>2 DEF RowFiledFor, FilePunch, FileRedemption
    <3>4. r.seq = 0 /\ r.queue = {}
      BY <2>1, <3>2, <3>3 DEF OnRow, Sound, Reached
    <3>5. QueueOK(q, rows') /\ ItemOK(q, rows', S)
      BY <2>8, <3>2, <3>3, <3>4 DEF QueueOK, ItemOK, RowKind
    <3>6. q.op = "punch" => card'[q.card].count = Ordinal(q.row)'
      <4>. SUFFICES ASSUME r.op = "punch" PROVE card'[q.card].count = Ordinal(q.row)'
        BY <3>3
      <4>0. PICK i \in {Len(rows) + 1} : i = q.row
        BY <3>3
      <4>1. PICK c \in Cards, k \in {card[r.card].cycle} : c = r.card
        BY <3>2
      <4>2. k \in Nat /\ card \in [Cards -> CardRows]
        BY <4>1 DEF IInv, DbOK, CardsOK, CardRows
      <4>3. y.card = c /\ y.cycle = k /\ y.kind = "punch"
        BY <1>3, <3>1, <3>2, <4>1 DEF NewRow
      <4>4. card'[c].count = Cardinality(Punches(c, k)) + 1
        <5>1. FilePunch(t)
          BY <1>3, <2>8 DEF FileRedemption
        <5>2. PICK m : m = Cardinality(Punches(c, k)) + 1
          OBVIOUS
        <5>3. card' = [card EXCEPT ![c].count = m]
          BY <1>3, <4>1, <5>1, <5>2 DEF FilePunch
        <5>. QED
          BY <4>2, <5>2, <5>3 DEF CardRows
      <4>5. {j \in Punches(c, k)' : j <= i} = Punches(c, k) \cup {i}
        BY <3>2, <4>0, <4>3, RowsShape DEF Punches
      <4>6. i \notin Punches(c, k) /\ IsFiniteSet(Punches(c, k))
        BY <1>2, <4>0, <4>2, RowsShape DEF Punches
      <4>7. Cardinality(Punches(c, k) \cup {i}) = Cardinality(Punches(c, k)) + 1
        BY <4>6, FS_AddElement
      <4>8. Ordinal(i)' = Cardinality({j \in Punches(c, k)' : j <= i})
        BY <3>2, <4>0, <4>3 DEF Ordinal, Punches
      <4>9. card'[c].count = Ordinal(i)'
        BY <4>4, <4>5, <4>7, <4>8
      <4>. QED
        BY <3>3, <4>0, <4>1, <4>9
    <3>. QED
      BY <1>3, <3>3, <3>4, <3>5, <3>6, OnwardOnRow
  <2>9. CASE /\ Pick(t) /\ q.op = "reconcile" /\ q.seq = 0 /\ q.phase = r.phase
             /\ \/ q.row = 0 /\ q.queue = r.queue
                \/ /\ q.row \in r.queue /\ q.queue = r.queue \ {q.row}
                   /\ S = {"submit"} /\ q.card = rows[q.row].card
    <3>1. QueueOK(q, rows')
      BY <2>5, <2>9 DEF QueueOK
    <3>2. ItemOK(q, rows', S)
      BY <2>5, <2>9 DEF ItemOK, RowKind, CardSteps
    <3>. QED
      BY <1>3, <2>9, <3>1, <3>2, OnwardOnRow
  <2>10. CASE /\ UNCHANGED rows /\ q.row = 0 /\ q.seq = 0
              /\ \/ q.queue = {}
                 \/ /\ q.op = "reconcile" /\ q.phase \in {"punch", "redeem"}
                    /\ q.queue \subseteq Unpublished(q.phase)
    <3>1. QueueOK(q, rows') /\ (q.op # "reconcile" => q.queue = {})
      BY <2>10 DEF QueueOK, Unpublished
    <3>2. ItemOK(q, rows', S)
      BY <2>10 DEF ItemOK
    <3>. QED
      BY <1>3, <2>10, <3>1, <3>2, OnwardOnRow
  <2>. QED
    BY <1>3, <2>6, <2>7, <2>8, <2>9, <2>10 DEF Follows
<1>4. ASSUME NEW t \in Sessions, NEW r \in Requests, req[t] = r, req'[t] = r PROVE OnRow(r)'
  <2>1. Sound(r) /\ OnRow(r)
    BY <1>4, Suspended DEF IInv, RowInv, RequestsOnRows
  <2>2. r.row # 0 => r.row \in DOMAIN rows /\ rows'[r.row].kind = rows[r.row].kind
                     /\ Ordinal(r.row)' = Ordinal(r.row)
    BY <2>1, RowsStay, OrdinalStays DEF Sound, Holds
  <2>3. \A i \in r.queue : i \in DOMAIN rows /\ rows'[i].kind = rows[i].kind
    BY <2>1, RowsStay DEF Sound, Holds
  <2>4. ~WriteProof(t)
    <3>1. ASSUME WriteProof(t) PROVE FALSE
      <4>1. r.step = "proof" /\ req \in [Sessions -> Requests]
        BY <1>4, <3>1 DEF WriteProof, IInv, ReqsOK
      <4>2. PICK n : Onward(n, r, {}) /\ req' = [req EXCEPT ![t] = n]
        BY <1>4, <3>1, AccountTakes DEF Takes
      <4>3. n.step # "proof"
        BY <4>2, IdlePlaced DEF Onward, Over, Parked
      <4>. QED
        BY <1>4, <4>1, <4>2, <4>3
    <3>. QED
      BY <3>1
  <2>5. /\ r.row # 0 => rows'[r.row].seq = 0
        /\ \A i \in r.queue : rows'[i].seq = 0
        /\ r.row # 0 => card'[r.card].count = card[r.card].count
    BY <1>4, <2>1, <2>4, ItemStays DEF OnRow
  <2>6. r.row # 0 /\ r.seq # 0 => MessageAt(r.venue, r.seq, r.row)'
    <3>. SUFFICES ASSUME r.row # 0, r.seq # 0 PROVE MessageAt(r.venue, r.seq, r.row)'
      OBVIOUS
    <3>1. r.venue \in Venues /\ MessageAt(r.venue, r.seq, r.row)
      BY <2>1 DEF OnRow, Sound, Reached, OnCard, OnVenue
    <3>2. PICK v \in Venues, k \in {r.seq}, i \in {r.row} : v = r.venue
      BY <3>1
    <3>3. MessageAt(v, k, i)'
      BY <1>1, <3>1, <3>2, MessageStays
    <3>. QED
      BY <3>2, <3>3
  <2>. QED
    BY <2>1, <2>2, <2>3, <2>5, <2>6 DEF OnRow, RowKind
<1>5. OnRow(Idle)'
  BY DEF OnRow, Idle, Bare
<1>6. ASSUME NEW t \in Sessions, NEW n \in Requests, req'[t] = n PROVE OnRow(n)'
  <2>1. PICK r \in Requests : req[t] = r
    BY DEF IInv, ReqsOK
  <2>. QED
    BY <1>3, <1>4, <1>5, <1>6, <2>1, RecordsFollow
<1>. QED
  BY <1>6 DEF RequestsOnRows

LEMMA AlwaysOnRows == ASSUME HostSerialises PROVE Spec => []RowInv
<1>1. Init => RowInv
  <2>. SUFFICES ASSUME Init PROVE RowInv
    OBVIOUS
  <2>1. \A i \in DOMAIN rows : rows[i].seq = 0
    BY DEF Init, EarlierRows, Punch
  <2>2. \A w \in Sessions : req[w] = Idle
    BY DEF Init
  <2>3. OnRow(Idle)
    BY DEF OnRow, Idle, Bare
  <2>. QED
    BY <2>1, <2>2, <2>3 DEF RowInv, RowsResolve, RequestsOnRows
<1>2. IInv /\ Alone /\ RowInv /\ [Next]_vars => RowInv'
  BY RowsResolveNext, RequestsOnRowsNext DEF RowInv
<1>. QED
  BY <1>1, <1>2, AlwaysAlone, PTL DEF Spec

\* A published row's number is that of its own message in the topic its program
\* names (ProofsResolve): no second topic takes the first one's place.
THEOREM ProofsShowTheirMessages == ASSUME HostSerialises PROVE Spec => []ProofsResolve
<1>1. RowInv => ProofsResolve
  BY DEF RowInv, RowsResolve, MessageAt, ProofsResolve, MessageShown
<1>. QED
  BY <1>1, AlwaysOnRows, PTL
-----------------------------------------------------------------------------
(* Every message about a row says the same *)

\* What a message about row i has to count.
PlaceOf(i) == IF rows[i].kind = "punch" THEN Ordinal(i) ELSE 0
MessagesTrue ==
    \A t \in DOMAIN log : \A k \in DOMAIN log[t] : \A i \in DOMAIN rows :
        log[t][k].row = i => log[t][k].count = PlaceOf(i)

\* Who writes a message or opens a topic.
LEMMA LogChangers ==
    ASSUME [Next]_vars
    PROVE  \/ UNCHANGED log
           \/ \E w \in Sessions : CreateTopic(w) /\ log' = Append(log, <<>>)
           \/ \E w \in Sessions : Submit(w) /\ MessageAdded(req[w])
<1>1. ASSUME NEW w \in Sessions, CreateTopic(w) PROVE UNCHANGED log \/ log' = Append(log, <<>>)
  BY <1>1 DEF CreateTopic, Call
<1>2. ASSUME NEW w \in Sessions, Submit(w) PROVE UNCHANGED log \/ MessageAdded(req[w])
  BY <1>2 DEF Submit, Call, MessageAdded
<1>3. ASSUME NEW w \in Sessions,
             \/ CreateCollection(w) \/ SaveToken(w) \/ SaveTopic(w) \/ FindAccount(w) \/ WriteProof(w)
             \/ CreateAccount(w) \/ KeepAccount(w) \/ SaveSerial(w) \/ FilePunch(w)
             \/ SaveHolder(w) \/ NextPhase(w) \/ FileRedemption(w) \/ MintCard(w) \/ TransferCard(w)
             \/ UpdateMetadata(w) \/ RefreshMetadata(w) \/ Pick(w) \/ BeginReconcile(w) \/ Crash(w)
             \/ \E v \in Venues : OptIn(w, v)
             \/ \E c \in Cards : Begin(w, "punch", c) \/ Begin(w, "redeem", c) \/ Recount(w, c)
      PROVE  UNCHANGED log
  BY <1>3 DEF CreateCollection, SaveToken, SaveTopic, FindAccount, CreateAccount, KeepAccount,
     SaveSerial, WriteProof, SaveHolder, NextPhase, FilePunch, FileRedemption, MintCard,
     TransferCard, UpdateMetadata, RefreshMetadata, Repoint,
     Pick, BeginReconcile, Crash, OptIn, Begin, Recount, db, network
<1>4. ASSUME NEW v \in Venues, Pause(v) PROVE UNCHANGED log
  BY <1>4 DEF Pause, network
<1>5. ASSUME UNCHANGED vars PROVE UNCHANGED log
  BY <1>5 DEF vars
<1>. QED
  BY <1>1, <1>2, <1>3, <1>4, <1>5 DEF Next, Proceed, Arrive

\* The message a request asks for: its topic exists, and what it says of a row
\* is the row's place.
LEMMA SubmitSaysPlace ==
    ASSUME IInv, Alone, RowInv, NEW w \in Sessions, Submit(w), NEW r, r = req[w]
    PROVE  /\ Program(r).topic \in DOMAIN log
           /\ r.row \in Nat /\ MessageCount(r) \in Nat
           /\ r.row \in DOMAIN rows => MessageCount(r) = PlaceOf(r.row)
<1>1. /\ r \in Requests /\ Sound(r) /\ OnRow(r) /\ Copies(r, prog, card) /\ r.step = "submit"
  BY Suspended DEF IInv, RowInv, RequestsOnRows, Alone, Submit
<1>2. /\ r.venue \in Venues /\ r.progs[r.venue] # None /\ r.card \in Cards /\ r.cards[r.card] # None
      /\ Program(r).topic # 0
  BY <1>1 DEF Sound, Reached, CardSteps, OnCard, OnVenue
<1>3. Program(r).topic \in DOMAIN log
  <2>1. GoodProgram(Program(r), r.venue)
    BY <1>1, <1>2 DEF Sound, Holds, Program
  <2>. QED
    BY <1>2, <2>1, SameDomains DEF GoodProgram, IInv
<1>4. Card(r).count \in Nat /\ Card(r).count = card[r.card].count
  BY <1>1, <1>2 DEF Sound, Holds, Card, GoodCard, CardRows, Copies
<1>5. r.row \in Nat /\ MessageCount(r) \in Nat
  BY <1>1, <1>4, OrdinalIsNat DEF MessageCount, Requests
<1>6. ASSUME r.row \in DOMAIN rows PROVE MessageCount(r) = PlaceOf(r.row)
  <2>1. rows[r.row] \in MirrorRows /\ r.row # 0
    BY <1>6, RowsShape, ElementOfSeq
  <2>2. rows[r.row].kind = RowKind(r) /\ rows[r.row].kind \in {"punch", "redeem"}
    BY <1>1, <2>1 DEF OnRow, MirrorRows
  <2>3. r.op = "punch" => card[r.card].count = Ordinal(r.row)
    BY <1>1, <2>1 DEF OnRow
  <2>. QED
    BY <1>4, <2>2, <2>3 DEF RowKind, MessageCount, PlaceOf
<1>. QED
  BY <1>3, <1>5, <1>6

LEMMA MessagesTrueNext ==
    ASSUME IInv, Alone, RowInv, MessagesFiled, MessagesTrue, [Next]_vars PROVE MessagesTrue'
<1>1. \A i \in DOMAIN rows : PlaceOf(i)' = PlaceOf(i)
  BY RowsStay, OrdinalStays DEF PlaceOf
<1>2. 0 \notin DOMAIN rows'
  <2>1. IInv'
    BY NextSound
  <2>2. rows' \in Seq(MirrorRows)
    BY <2>1 DEF IInv, DbOK, RowsOK
  <2>. QED
    BY <2>2
<1>. SUFFICES ASSUME NEW t \in DOMAIN log', NEW k \in DOMAIN log'[t], NEW i \in DOMAIN rows', log'[t][k].row = i
              PROVE  log'[t][k].count = PlaceOf(i)'
  BY DEF MessagesTrue
<1>3. ASSUME t \in DOMAIN log, k \in DOMAIN log[t], log'[t][k] = log[t][k]
      PROVE  log'[t][k].count = PlaceOf(i)'
  <2>1. i \in DOMAIN rows
    BY <1>2, <1>3 DEF MessagesFiled, Told
  <2>. QED
    BY <1>1, <1>3, <2>1 DEF MessagesTrue
<1>4. CASE UNCHANGED log
  BY <1>3, <1>4
<1>5. CASE log' = Append(log, <<>>)
  <2>1. log \in Seq(Seq(Messages))
    BY DEF IInv, NetworkOK
  <2>2. t \in DOMAIN log /\ log'[t] = log[t]
    <3>1. \/ t \in DOMAIN log /\ log'[t] = log[t]
          \/ log'[t] = <<>>
      BY <1>5, <2>1
    <3>. QED
      BY <3>1
  <2>. QED
    BY <1>3, <2>2
<1>6. ASSUME NEW w \in Sessions, Submit(w), NEW r, r = req[w], MessageAdded(r)
      PROVE  log'[t][k].count = PlaceOf(i)'
  <2>1. PICK m, x : m = Program(r).topic /\ x = [row |-> r.row, count |-> MessageCount(r)]
    OBVIOUS
  <2>2. /\ m \in DOMAIN log /\ x \in Messages
        /\ x.row \in DOMAIN rows => x.count = PlaceOf(x.row)
    BY <1>6, <2>1, SubmitSaysPlace DEF Messages
  <2>3. log' = [log EXCEPT ![m] = Append(@, x)] /\ UNCHANGED rows
    BY <1>6, <2>1 DEF MessageAdded, Submit, db
  <2>4. \/ t \in DOMAIN log /\ k \in DOMAIN log[t] /\ log'[t][k] = log[t][k]
        \/ log'[t][k] = x
    BY <2>2, <2>3, LogAdded
  <2>. QED
    BY <1>1, <1>3, <2>2, <2>3, <2>4
<1>. QED
  BY <1>4, <1>5, <1>6, LogChangers

LEMMA AlwaysTrueMessages == ASSUME HostSerialises PROVE Spec => []MessagesTrue
<1>1. Init => MessagesTrue
  BY DEF Init, MessagesTrue
<1>2. IInv /\ Alone /\ RowInv /\ MessagesFiled /\ MessagesTrue /\ [Next]_vars => MessagesTrue'
  BY MessagesTrueNext
<1>. QED
  BY <1>1, <1>2, AlwaysAlone, AlwaysOnRows, MessagesFiledAlways, PTL DEF Spec

\* Every message about a row carries the row's place in its cycle, whenever it
\* was sent (ReplaysAgree): the live count of the card and the replay's own
\* reckoning (ledger.py, _punch_ordinal) never differ.
THEOREM MessagesCountAlike == ASSUME HostSerialises PROVE Spec => []ReplaysAgree
<1>1. MessagesTrue => ReplaysAgree
  BY DEF MessagesTrue, ReplaysAgree, MessagesOf, PlaceOf
<1>. QED
  BY <1>1, AlwaysTrueMessages, PTL
-----------------------------------------------------------------------------
(* Whatever the network has twice has a cause *)

CollectionsOf(v) == {t \in DOMAIN tokens : tokens[t] = v}
TopicsOf(v) == {t \in DOMAIN topics : topics[t] = v}

\* The database knows it, or a session holds the answer it has still to save.
TokenKnown(v) ==
    prog[v].token # 0 \/ \E w \in Sessions : req[w].step = "savetoken" /\ req[w].venue = v
TopicKnown(v) ==
    prog[v].topic # 0 \/ \E w \in Sessions : req[w].step = "savetopic" /\ req[w].venue = v
NftKnown(c) ==
    card[c].serial # 0 \/ \E w \in Sessions : req[w].step = "serial" /\ req[w].card = c
MessageKnown(i) ==
    rows[i].seq # 0 \/ \E w \in Sessions : req[w].row = i /\ req[w].seq # 0

\* Of what is in S one is known, and every other cost a fault.
Caused(S, known, f) == IsFiniteSet(S) /\ Cardinality(S) <= (IF known THEN 1 ELSE 0) + f

CauseInv ==
    /\ \A v \in Venues : /\ Caused(CollectionsOf(v), TokenKnown(v), faults)
                         /\ Caused(TopicsOf(v), TopicKnown(v), faults)
    /\ \A c \in Cards : Caused(NftsOf(c), NftKnown(c), faults)
    /\ \A i \in DOMAIN rows : Caused(MessagesOf(i), MessageKnown(i), faults)

\* A step adds at most one to S, when none was known; the answer makes it known,
\* or the step is a fault.
Adds(S, T, known, after, f, g) ==
    T = S \/ \E x : T = S \cup {x} /\ ~known /\ (g = f => after)

LEMMA CausedStep ==
    ASSUME NEW S, NEW T, NEW b \in BOOLEAN, NEW e \in BOOLEAN, NEW f \in Nat, NEW g \in Nat,
           Caused(S, b, f), Adds(S, T, b, e, f, g), g = f + 1 \/ (g = f /\ (b => e))
    PROVE  Caused(T, e, g)
<1>1. IsFiniteSet(S) /\ Cardinality(S) \in Nat /\ Cardinality(S) <= (IF b THEN 1 ELSE 0) + f
  BY FS_CardinalityType DEF Caused
<1>2. CASE T = S
  BY <1>1, <1>2 DEF Caused
<1>3. ASSUME NEW x, T = S \cup {x}, ~b, g = f => e PROVE Caused(T, e, g)
  <2>1. IsFiniteSet(T) /\ Cardinality(T) \in {Cardinality(S), Cardinality(S) + 1}
    BY <1>1, <1>3, FS_AddElement
  <2>. QED
    BY <1>1, <1>3, <2>1 DEF Caused
<1>. QED
  BY <1>2, <1>3 DEF Adds

\* Who changes a session's record: its own step.
LEMMA OwnStep ==
    ASSUME IInv, Alone, [Next]_vars, NEW t \in Sessions, req'[t] # req[t]
    PROVE  Proceed(t) \/ Arrive(t) \/ BeginReconcile(t) \/ Crash(t)
<1>1. req \in [Sessions -> Requests]
  BY DEF IInv, ReqsOK
<1>2. ASSUME NEW w \in Sessions, Proceed(w) \/ Arrive(w) \/ BeginReconcile(w) \/ Crash(w) PROVE t = w
  <2>1. PICK n : req' = [req EXCEPT ![w] = n]
    BY <1>2, StepMakes DEF Makes, Becomes
  <2>. QED
    BY <1>1, <2>1
<1>3. ASSUME NEW v \in Venues, Pause(v) PROVE FALSE
  BY <1>3 DEF Pause
<1>. QED
  BY <1>2, <1>3 DEF Next, vars

\* What a request that is not dying does with the answer it holds.
LEMMA AnswerUsed ==
    ASSUME NEW t \in Sessions, Proceed(t) \/ Arrive(t) \/ BeginReconcile(t)
    PROVE  /\ req[t].step = "savetoken" => SaveToken(t)
           /\ req[t].step = "savetopic" => SaveTopic(t)
           /\ req[t].step = "serial" => SaveSerial(t)
           /\ req[t].step = "metadata" => UpdateMetadata(t)
           /\ req[t].step = "proof" => WriteProof(t)
<1>1. CASE Arrive(t) \/ BeginReconcile(t)
  BY <1>1 DEF Arrive, OptIn, Begin, Recount, BeginReconcile, Busy
<1>2. CASE Proceed(t)
  BY <1>2 DEF Proceed, FilePunch, FileRedemption, CreateCollection, SaveToken, CreateTopic, SaveTopic,
     FindAccount, CreateAccount, KeepAccount, MintCard, SaveSerial, TransferCard, SaveHolder, Submit,
     UpdateMetadata, WriteProof, NextPhase, Pick, RefreshMetadata
<1>. QED
  BY <1>1, <1>2

\* Who calls the network.
LEMMA NetworkChangers ==
    ASSUME [Next]_vars
    PROVE  \/ UNCHANGED network
           \/ \E w \in Sessions :
                  \/ CreateCollection(w) \/ CreateTopic(w) \/ CreateAccount(w) \/ MintCard(w)
                  \/ TransferCard(w) \/ Submit(w) \/ UpdateMetadata(w) \/ RefreshMetadata(w)
<1>1. ASSUME NEW w \in Sessions,
             \/ SaveToken(w) \/ SaveTopic(w) \/ FindAccount(w) \/ WriteProof(w)
             \/ KeepAccount(w) \/ SaveSerial(w) \/ FilePunch(w)
             \/ SaveHolder(w) \/ NextPhase(w) \/ FileRedemption(w)
             \/ Pick(w) \/ BeginReconcile(w) \/ Crash(w)
             \/ \E v \in Venues : OptIn(w, v)
             \/ \E c \in Cards : Begin(w, "punch", c) \/ Begin(w, "redeem", c) \/ Recount(w, c)
      PROVE  UNCHANGED network
  BY <1>1 DEF SaveToken, SaveTopic, FindAccount, KeepAccount,
     SaveSerial, WriteProof, SaveHolder, NextPhase, FilePunch, FileRedemption,
     Pick, BeginReconcile, Crash, OptIn, Begin, Recount
<1>2. ASSUME NEW v \in Venues, Pause(v) PROVE UNCHANGED network
  BY <1>2 DEF Pause
<1>3. ASSUME UNCHANGED vars PROVE UNCHANGED network
  BY <1>3 DEF vars, network
<1>. QED
  BY <1>1, <1>2, <1>3 DEF Next, Proceed, Arrive

LEMMA FaultsCount ==
    ASSUME IInv, [Next]_vars
    PROVE  /\ faults' = faults \/ faults' = faults + 1
           /\ \A w \in Sessions : Crash(w) => faults' = faults + 1 /\ UNCHANGED <<db, network>>
<1>1. ASSUME NEW w \in Sessions,
             \/ CreateCollection(w) \/ SaveToken(w) \/ CreateTopic(w) \/ SaveTopic(w) \/ FindAccount(w)
             \/ CreateAccount(w) \/ KeepAccount(w) \/ Submit(w) \/ MintCard(w) \/ SaveSerial(w)
             \/ TransferCard(w) \/ SaveHolder(w) \/ UpdateMetadata(w) \/ WriteProof(w)
      PROVE  faults' = faults \/ faults' = faults + 1
  BY <1>1 DEF CreateCollection, SaveToken, CreateTopic, SaveTopic, FindAccount, CreateAccount,
     KeepAccount, Submit, MintCard, SaveSerial, TransferCard, SaveHolder, UpdateMetadata,
     WriteProof, Repoint, Call
<1>2. ASSUME NEW w \in Sessions,
             \/ FilePunch(w) \/ FileRedemption(w) \/ RefreshMetadata(w) \/ NextPhase(w) \/ Pick(w)
             \/ BeginReconcile(w) \/ Crash(w) \/ \E v \in Venues : OptIn(w, v)
             \/ \E c \in Cards : Begin(w, "punch", c) \/ Begin(w, "redeem", c) \/ Recount(w, c)
      PROVE  faults' = faults \/ faults' = faults + 1
  BY <1>2 DEF FilePunch, FileRedemption, RefreshMetadata, NextPhase, Pick, BeginReconcile, Crash,
     OptIn, Begin, Recount, Repoint, Call
<1>3. ASSUME NEW v \in Venues, Pause(v) PROVE faults' = faults
  BY <1>3 DEF Pause
<1>4. \A w \in Sessions : Crash(w) => faults' = faults + 1 /\ UNCHANGED <<db, network>>
  BY DEF Crash
<1>. QED
  BY <1>1, <1>2, <1>3, <1>4 DEF Next, Proceed, Arrive, vars

\* What is known stays known, unless its request dies.
LEMMA KnownStays ==
    ASSUME IInv, Alone, RowInv, [Next]_vars, \A w \in Sessions : ~Crash(w)
    PROVE  /\ \A v \in Venues : (TokenKnown(v) => TokenKnown(v)') /\ (TopicKnown(v) => TopicKnown(v)')
           /\ \A c \in Cards : NftKnown(c) => NftKnown(c)'
           /\ \A i \in DOMAIN rows : MessageKnown(i) => MessageKnown(i)'
<1>1. ReferencesStay
  BY ReferencesSettled
<1>2. req \in [Sessions -> Requests] /\ card \in [Cards -> CardRows] /\ prog \in [Venues -> ProgramRows]
  BY DEF IInv, ReqsOK, DbOK, CardsOK, ProgramsOK
<1>3. ASSUME NEW w \in Sessions, req'[w] # req[w]
      PROVE  /\ req[w].step = "savetoken" => SaveToken(w)
             /\ req[w].step = "savetopic" => SaveTopic(w)
             /\ req[w].step = "serial" => SaveSerial(w)
             /\ req[w].step = "metadata" => UpdateMetadata(w)
             /\ req[w].step = "proof" => WriteProof(w)
  <2>1. Proceed(w) \/ Arrive(w) \/ BeginReconcile(w)
    BY <1>3, OwnStep
  <2>. QED
    BY <2>1, AnswerUsed
<1>4. ASSUME NEW v \in Venues, TokenKnown(v) PROVE TokenKnown(v)'
  <2>1. CASE prog[v].token # 0
    BY <1>1, <2>1 DEF ReferencesStay, TokenKnown
  <2>2. ASSUME NEW w \in Sessions, req[w].step = "savetoken", req[w].venue = v PROVE TokenKnown(v)'
    <3>1. CASE req'[w] = req[w]
      BY <2>2, <3>1 DEF TokenKnown
    <3>2. CASE SaveToken(w)
      <4>1. PICK r \in Requests : req[w] = r /\ Sound(r)
        BY Suspended DEF IInv
      <4>2. r.got \in DOMAIN tokens /\ r.got # 0
        <5>1. r.got \in DOMAIN tokens
          BY <2>2, <4>1 DEF Sound, Reached
        <5>. QED
          BY <5>1 DEF IInv, NetworkOK
      <4>3. prog' = [prog EXCEPT ![v].token = r.got]
        BY <2>2, <3>2, <4>1 DEF SaveToken
      <4>4. prog'[v].token = r.got
        BY <1>2, <4>3 DEF ProgramRows
      <4>. QED
        BY <4>2, <4>4 DEF TokenKnown
    <3>. QED
      BY <1>3, <2>2, <3>1, <3>2
  <2>. QED
    BY <1>4, <2>1, <2>2 DEF TokenKnown
<1>5. ASSUME NEW v \in Venues, TopicKnown(v) PROVE TopicKnown(v)'
  <2>1. CASE prog[v].topic # 0
    BY <1>1, <2>1 DEF ReferencesStay, TopicKnown
  <2>2. ASSUME NEW w \in Sessions, req[w].step = "savetopic", req[w].venue = v PROVE TopicKnown(v)'
    <3>1. CASE req'[w] = req[w]
      BY <2>2, <3>1 DEF TopicKnown
    <3>2. CASE SaveTopic(w)
      <4>1. PICK r \in Requests : req[w] = r /\ Sound(r)
        BY Suspended DEF IInv
      <4>2. r.got \in DOMAIN topics /\ r.got # 0
        <5>1. r.got \in DOMAIN topics
          BY <2>2, <4>1 DEF Sound, Reached
        <5>. QED
          BY <5>1 DEF IInv, NetworkOK
      <4>3. prog' = [prog EXCEPT ![v].topic = r.got]
        BY <2>2, <3>2, <4>1 DEF SaveTopic
      <4>4. prog'[v].topic = r.got
        BY <1>2, <4>3 DEF ProgramRows
      <4>. QED
        BY <4>2, <4>4 DEF TopicKnown
    <3>. QED
      BY <1>3, <2>2, <3>1, <3>2
  <2>. QED
    BY <1>5, <2>1, <2>2 DEF TopicKnown
<1>6. ASSUME NEW c \in Cards, NftKnown(c) PROVE NftKnown(c)'
  <2>1. CASE card[c].serial # 0
    BY <1>1, <2>1 DEF ReferencesStay, NftKnown
  <2>2. ASSUME NEW w \in Sessions, req[w].step = "serial", req[w].card = c PROVE NftKnown(c)'
    <3>1. CASE req'[w] = req[w]
      BY <2>2, <3>1 DEF NftKnown
    <3>2. CASE SaveSerial(w)
      <4>1. PICK r \in Requests : req[w] = r /\ Sound(r)
        BY Suspended DEF IInv
      <4>2. r.got # 0
        BY <2>2, <4>1 DEF Sound, Reached
      <4>3. card' = [card EXCEPT ![c].serial = r.got]
        BY <2>2, <3>2, <4>1 DEF SaveSerial
      <4>4. card'[c].serial = r.got
        BY <1>2, <4>3 DEF CardRows
      <4>. QED
        BY <4>2, <4>4 DEF NftKnown
    <3>. QED
      BY <1>3, <2>2, <3>1, <3>2
  <2>. QED
    BY <1>6, <2>1, <2>2 DEF NftKnown
<1>7. ASSUME NEW i \in DOMAIN rows, MessageKnown(i) PROVE MessageKnown(i)'
  <2>1. CASE rows[i].seq # 0
    <3>1. KeepsReferences
      BY ReferencesKept
    <3>. QED
      BY <1>7, <2>1, <3>1 DEF KeepsReferences, MessageKnown
  <2>2. ASSUME NEW w \in Sessions, req[w].row = i, req[w].seq # 0 PROVE MessageKnown(i)'
    <3>1. CASE req'[w] = req[w]
      BY <2>2, <3>1 DEF MessageKnown
    <3>2. PICK r \in Requests : req[w] = r /\ OnRow(r)
      BY <1>2 DEF RowInv, RequestsOnRows
    <3>3. i # 0
      BY RowsShape
    <3>4. r.step \in {"metadata", "proof"} /\ r.row = i /\ r.seq # 0
      BY <2>2, <3>2, <3>3 DEF OnRow
    <3>5. CASE UpdateMetadata(w)
      <4>1. req' = [req EXCEPT ![w] = ToProof(r)]
        BY <3>2, <3>5 DEF UpdateMetadata, Repoint, Call
      <4>2. req'[w] = At(r, "proof")
        BY <1>2, <3>3, <3>4, <4>1 DEF ToProof
      <4>3. req'[w].row = r.row /\ req'[w].seq = r.seq
        BY <4>2 DEF At, Requests
      <4>. QED
        BY <3>4, <4>3 DEF MessageKnown
    <3>6. CASE WriteProof(w)
      <4>1. rows'[i].seq = r.seq
        BY <3>2, <3>4, <3>6, ProofEffect
      <4>. QED
        BY <3>4, <4>1 DEF MessageKnown
    <3>. QED
      BY <1>3, <3>1, <3>2, <3>4, <3>5, <3>6
  <2>. QED
    BY <1>7, <2>1, <2>2 DEF MessageKnown
<1>. QED
  BY <1>4, <1>5, <1>6, <1>7

\* A session that stands at a venue's or a card's step has the venue to itself.
LEMMA OnlyHere ==
    ASSUME Alone, NEW w \in Sessions, Busy(w)
    PROVE  \A s \in Sessions : s # w /\ Busy(s) => req[s].venue # req[w].venue
BY DEF Alone, Apart

LEMMA CollectionsAdd ==
    ASSUME IInv, Alone, [Next]_vars, NEW v \in Venues
    PROVE  Adds(CollectionsOf(v), CollectionsOf(v)', TokenKnown(v), TokenKnown(v)', faults, faults')
<1>1. ASSUME NEW w \in Sessions, CreateCollection(w)
      PROVE  Adds(CollectionsOf(v), CollectionsOf(v)', TokenKnown(v), TokenKnown(v)', faults, faults')
  <2>1. PICK r \in Requests : req[w] = r /\ Sound(r) /\ Placed(r) /\ Copies(r, prog, card)
    BY Suspended DEF IInv, Alone
  <2>2. r.step = "token" /\ r.venue \in Venues /\ r.progs[r.venue] # None /\ Busy(w)
    BY <1>1, <2>1 DEF CreateCollection, Sound, Reached, VenueSteps, OnVenue, Busy
  <2>3. prog[r.venue].token = 0
    BY <2>1, <2>2 DEF Placed, Program, Copies, SameIds
  <2>4. v = r.venue => ~TokenKnown(v)
    BY <2>1, <2>2, <2>3, OnlyHere DEF TokenKnown, Busy
  <2>5. tokens \in Seq(Venues) /\ req \in [Sessions -> Requests]
    BY DEF IInv, NetworkOK, ReqsOK
  <2>6. PICK n : n = [At(r, "savetoken") EXCEPT !.got = Len(tokens) + 1]
    OBVIOUS
  <2>7. n.step = "savetoken" /\ n.venue = r.venue
    BY <2>5, <2>6 DEF At, Requests
  <2>8. \/ UNCHANGED tokens
        \/ /\ tokens' = Append(tokens, r.venue)
           /\ req' = [req EXCEPT ![w] = n] \/ faults' = faults + 1
    BY <1>1, <2>1, <2>6 DEF CreateCollection, Call
  <2>9. CASE UNCHANGED tokens
    BY <2>9 DEF Adds, CollectionsOf
  <2>10. CASE tokens' = Append(tokens, r.venue)
    <3>1. CollectionsOf(v)' = IF v = r.venue THEN CollectionsOf(v) \cup {Len(tokens) + 1} ELSE CollectionsOf(v)
      BY <2>2, <2>5, <2>10 DEF CollectionsOf
    <3>2. v = r.venue /\ faults' = faults => TokenKnown(v)'
      <4>1. faults # faults + 1
        BY DEF IInv, NetworkOK
      <4>2. req' = [req EXCEPT ![w] = n] => req'[w] = n
        BY <2>5
      <4>3. tokens' # tokens
        BY <2>2, <2>5, <2>10
      <4>. QED
        BY <2>7, <2>8, <4>1, <4>2, <4>3 DEF TokenKnown
    <3>. QED
      BY <2>4, <3>1, <3>2 DEF Adds
  <2>. QED
    BY <2>8, <2>9, <2>10
<1>2. ASSUME UNCHANGED tokens
      PROVE  Adds(CollectionsOf(v), CollectionsOf(v)', TokenKnown(v), TokenKnown(v)', faults, faults')
  BY <1>2 DEF Adds, CollectionsOf
<1>3. ASSUME NEW w \in Sessions, \/ CreateTopic(w) \/ CreateAccount(w) \/ MintCard(w)
                                 \/ TransferCard(w) \/ Submit(w) \/ UpdateMetadata(w) \/ RefreshMetadata(w)
      PROVE  UNCHANGED tokens
  BY <1>3 DEF CreateTopic, CreateAccount, MintCard, TransferCard, Submit, UpdateMetadata,
     RefreshMetadata, Repoint
<1>. QED
  BY <1>1, <1>2, <1>3, NetworkChangers DEF network

LEMMA TopicsAdd ==
    ASSUME IInv, Alone, [Next]_vars, NEW v \in Venues
    PROVE  Adds(TopicsOf(v), TopicsOf(v)', TopicKnown(v), TopicKnown(v)', faults, faults')
<1>1. ASSUME NEW w \in Sessions, CreateTopic(w)
      PROVE  Adds(TopicsOf(v), TopicsOf(v)', TopicKnown(v), TopicKnown(v)', faults, faults')
  <2>1. PICK r \in Requests : req[w] = r /\ Sound(r) /\ Placed(r) /\ Copies(r, prog, card)
    BY Suspended DEF IInv, Alone
  <2>2. r.step = "topic" /\ r.venue \in Venues /\ r.progs[r.venue] # None /\ Busy(w)
    BY <1>1, <2>1 DEF CreateTopic, Sound, Reached, VenueSteps, OnVenue, Busy
  <2>3. prog[r.venue].topic = 0
    BY <2>1, <2>2 DEF Placed, Program, Copies, SameIds
  <2>4. v = r.venue => ~TopicKnown(v)
    BY <2>1, <2>2, <2>3, OnlyHere DEF TopicKnown, Busy
  <2>5. topics \in Seq(Venues) /\ req \in [Sessions -> Requests]
    BY DEF IInv, NetworkOK, ReqsOK
  <2>6. PICK n : n = [At(r, "savetopic") EXCEPT !.got = Len(topics) + 1]
    OBVIOUS
  <2>7. n.step = "savetopic" /\ n.venue = r.venue
    BY <2>5, <2>6 DEF At, Requests
  <2>8. \/ UNCHANGED topics
        \/ /\ topics' = Append(topics, r.venue)
           /\ req' = [req EXCEPT ![w] = n] \/ faults' = faults + 1
    BY <1>1, <2>1, <2>6 DEF CreateTopic, Call
  <2>9. CASE UNCHANGED topics
    BY <2>9 DEF Adds, TopicsOf
  <2>10. CASE topics' = Append(topics, r.venue)
    <3>1. TopicsOf(v)' = IF v = r.venue THEN TopicsOf(v) \cup {Len(topics) + 1} ELSE TopicsOf(v)
      BY <2>2, <2>5, <2>10 DEF TopicsOf
    <3>2. v = r.venue /\ faults' = faults => TopicKnown(v)'
      <4>1. faults # faults + 1
        BY DEF IInv, NetworkOK
      <4>2. req' = [req EXCEPT ![w] = n] => req'[w] = n
        BY <2>5
      <4>3. topics' # topics
        BY <2>2, <2>5, <2>10
      <4>. QED
        BY <2>7, <2>8, <4>1, <4>2, <4>3 DEF TopicKnown
    <3>. QED
      BY <2>4, <3>1, <3>2 DEF Adds
  <2>. QED
    BY <2>8, <2>9, <2>10
<1>2. ASSUME UNCHANGED topics
      PROVE  Adds(TopicsOf(v), TopicsOf(v)', TopicKnown(v), TopicKnown(v)', faults, faults')
  BY <1>2 DEF Adds, TopicsOf
<1>3. ASSUME NEW w \in Sessions, \/ CreateCollection(w) \/ CreateAccount(w) \/ MintCard(w)
                                 \/ TransferCard(w) \/ Submit(w) \/ UpdateMetadata(w) \/ RefreshMetadata(w)
      PROVE  UNCHANGED topics
  BY <1>3 DEF CreateCollection, CreateAccount, MintCard, TransferCard, Submit, UpdateMetadata,
     RefreshMetadata, Repoint
<1>. QED
  BY <1>1, <1>2, <1>3, NetworkChangers DEF network

\* The pairs NftsOf and MessagesOf are made of.
LEMMA NftMembers ==
    \A c, p : p \in NftsOf(c) <=>
        \E t \in DOMAIN nfts : \E k \in DOMAIN nfts[t] : p = <<t, k>> /\ nfts[t][k].card = c
<1>1. ASSUME NEW c, NEW p, p \in NftsOf(c)
      PROVE  \E t \in DOMAIN nfts : \E k \in DOMAIN nfts[t] : p = <<t, k>> /\ nfts[t][k].card = c
  <2>1. PICK t \in DOMAIN nfts : p \in {t} \X DOMAIN nfts[t] /\ nfts[p[1]][p[2]].card = c
    BY <1>1 DEF NftsOf
  <2>2. p = <<t, p[2]>> /\ p[1] = t /\ p[2] \in DOMAIN nfts[t]
    BY <2>1
  <2>. QED
    BY <2>1, <2>2
<1>2. ASSUME NEW c, NEW t \in DOMAIN nfts, NEW k \in DOMAIN nfts[t], nfts[t][k].card = c
      PROVE  <<t, k>> \in NftsOf(c)
  BY <1>2 DEF NftsOf
<1>. QED
  BY <1>1, <1>2

LEMMA NftMembersAfter ==
    (\A c, p : p \in NftsOf(c) <=>
        \E t \in DOMAIN nfts : \E k \in DOMAIN nfts[t] : p = <<t, k>> /\ nfts[t][k].card = c)'
BY NftMembers, PTL

LEMMA MessageMembers ==
    \A i, p : p \in MessagesOf(i) <=>
        \E t \in DOMAIN log : \E k \in DOMAIN log[t] : p = <<t, k>> /\ log[t][k].row = i
<1>1. ASSUME NEW i, NEW p, p \in MessagesOf(i)
      PROVE  \E t \in DOMAIN log : \E k \in DOMAIN log[t] : p = <<t, k>> /\ log[t][k].row = i
  <2>1. PICK t \in DOMAIN log : p \in {t} \X DOMAIN log[t] /\ log[p[1]][p[2]].row = i
    BY <1>1 DEF MessagesOf
  <2>2. p = <<t, p[2]>> /\ p[1] = t /\ p[2] \in DOMAIN log[t]
    BY <2>1
  <2>. QED
    BY <2>1, <2>2
<1>2. ASSUME NEW i, NEW t \in DOMAIN log, NEW k \in DOMAIN log[t], log[t][k].row = i
      PROVE  <<t, k>> \in MessagesOf(i)
  BY <1>2 DEF MessagesOf
<1>. QED
  BY <1>1, <1>2

LEMMA MessageMembersAfter ==
    (\A i, p : p \in MessagesOf(i) <=>
        \E t \in DOMAIN log : \E k \in DOMAIN log[t] : p = <<t, k>> /\ log[t][k].row = i)'
BY MessageMembers, PTL

LEMMA NftsAdd ==
    ASSUME IInv, Alone, [Next]_vars, NEW c \in Cards
    PROVE  Adds(NftsOf(c), NftsOf(c)', NftKnown(c), NftKnown(c)', faults, faults')
<1>1. CASE UNCHANGED nfts
  BY <1>1 DEF Adds, NftsOf
<1>2. CASE CollectionOpened
  <2>1. nfts \in Seq(Seq(Nfts)) /\ nfts' = Append(nfts, <<>>)
    BY <1>2 DEF CollectionOpened, IInv, NetworkOK
  <2>2. /\ DOMAIN nfts' = DOMAIN nfts \cup {Len(nfts) + 1} /\ \A t \in DOMAIN nfts : nfts'[t] = nfts[t]
        /\ nfts'[Len(nfts) + 1] = <<>> /\ DOMAIN <<>> = {}
    BY <2>1
  <2>3. \A p : p \in NftsOf(c)' <=> p \in NftsOf(c)
    BY <2>2, NftMembers, NftMembersAfter
  <2>. QED
    BY <2>3 DEF Adds
<1>3. ASSUME NEW t, NEW k, NEW y, NftBecomes(t, k, y), y.card = nfts[t][k].card
      PROVE  Adds(NftsOf(c), NftsOf(c)', NftKnown(c), NftKnown(c)', faults, faults')
  <2>1. \A p : p \in NftsOf(c)' <=> p \in NftsOf(c)
    BY <1>3, NftMembers, NftMembersAfter DEF NftBecomes
  <2>. QED
    BY <2>1 DEF Adds
<1>4. \A t \in DOMAIN nfts : \A k \in DOMAIN nfts[t] : nfts[t][k] \in Nfts
  BY DEF IInv, NetworkOK
<1>5. ASSUME NEW w \in Sessions, TransferCard(w)
      PROVE  Adds(NftsOf(c), NftsOf(c)', NftKnown(c), NftKnown(c)', faults, faults')
  <2>1. PICK r : r = req[w]
    OBVIOUS
  <2>2. \/ UNCHANGED nfts
        \/ \E t \in DOMAIN nfts : \E k \in DOMAIN nfts[t] : \E a : NftBecomes(t, k, [nfts[t][k] EXCEPT !.holder = a])
    BY <1>5, <2>1, TransferEffect
  <2>3. ASSUME NEW t \in DOMAIN nfts, NEW k \in DOMAIN nfts[t], NEW a, NftBecomes(t, k, [nfts[t][k] EXCEPT !.holder = a])
        PROVE  Adds(NftsOf(c), NftsOf(c)', NftKnown(c), NftKnown(c)', faults, faults')
    <3>1. PICK y : y = [nfts[t][k] EXCEPT !.holder = a]
      OBVIOUS
    <3>2. y.card = nfts[t][k].card
      BY <1>4, <3>1 DEF Nfts
    <3>. QED
      BY <1>3, <2>3, <3>1, <3>2
  <2>. QED
    BY <1>1, <2>2, <2>3
<1>6. ASSUME NEW w \in Sessions, UpdateMetadata(w) \/ RefreshMetadata(w)
      PROVE  Adds(NftsOf(c), NftsOf(c)', NftKnown(c), NftKnown(c)', faults, faults')
  <2>1. PICK r : r = req[w]
    OBVIOUS
  <2>2. \/ UNCHANGED nfts
        \/ \E t \in DOMAIN nfts : \E k \in DOMAIN nfts[t] : \E m : NftBecomes(t, k, [nfts[t][k] EXCEPT !.meta = m])
    BY <1>6, <2>1, RepointEffect
  <2>3. ASSUME NEW t \in DOMAIN nfts, NEW k \in DOMAIN nfts[t], NEW m, NftBecomes(t, k, [nfts[t][k] EXCEPT !.meta = m])
        PROVE  Adds(NftsOf(c), NftsOf(c)', NftKnown(c), NftKnown(c)', faults, faults')
    <3>1. PICK y : y = [nfts[t][k] EXCEPT !.meta = m]
      OBVIOUS
    <3>2. y.card = nfts[t][k].card
      BY <1>4, <3>1 DEF Nfts
    <3>. QED
      BY <1>3, <2>3, <3>1, <3>2
  <2>. QED
    BY <1>1, <2>2, <2>3
<1>7. ASSUME NEW w \in Sessions, MintCard(w)
      PROVE  Adds(NftsOf(c), NftsOf(c)', NftKnown(c), NftKnown(c)', faults, faults')
  <2>1. PICK r \in Requests : req[w] = r /\ Sound(r) /\ Placed(r) /\ Copies(r, prog, card)
    BY Suspended DEF IInv, Alone
  <2>2. r.step = "mint" /\ r.card \in Cards /\ r.cards[r.card] # None /\ r.venue = VenueOf(r.card) /\ Busy(w)
    BY <1>7, <2>1 DEF MintCard, Sound, Reached, CardSteps, NftSteps, OnCard, Busy
  <2>3. card[r.card].serial = 0
    BY <2>1, <2>2 DEF Placed, Card, Copies
  <2>4. c = r.card => ~NftKnown(c)
    <3>. SUFFICES ASSUME NEW s \in Sessions, req[s].step = "serial" PROVE req[s].card # r.card
      BY <2>3 DEF NftKnown
    <3>1. PICK q \in Requests : req[s] = q /\ Sound(q)
      BY Suspended DEF IInv
    <3>2. q.venue = VenueOf(q.card) /\ s # w /\ Busy(s)
      BY <2>1, <2>2, <3>1 DEF Sound, Reached, CardSteps, NftSteps, OnCard, Busy
    <3>3. q.venue # r.venue
      BY <2>1, <2>2, <3>1, <3>2, OnlyHere
    <3>. QED
      BY <2>2, <3>1, <3>2, <3>3
  <2>5. req \in [Sessions -> Requests] /\ faults # faults + 1
    BY DEF IInv, NetworkOK, ReqsOK
  <2>6. PICK t, k, y : /\ t = Program(r).token /\ k = Len(nfts[t]) + 1
                       /\ y = [card |-> r.card, holder |-> 0, meta |-> Version(r)]
    OBVIOUS
  <2>7. PICK n : n = [At(r, "serial") EXCEPT !.got = k]
    OBVIOUS
  <2>8. n.step = "serial" /\ n.card = r.card /\ y.card = r.card
    BY <2>6, <2>7 DEF At, Requests
  <2>9. \/ UNCHANGED nfts
        \/ NftAdded(t, y) /\ (req' = [req EXCEPT ![w] = n] \/ faults' = faults + 1)
    BY <1>7, <2>1, <2>6, <2>7, MintEffect
  <2>10. CASE NftAdded(t, y)
    <3>1. \A p : p \in NftsOf(c)' <=> p \in NftsOf(c) \/ (c = r.card /\ p = <<t, k>>)
      BY <2>6, <2>8, <2>10, NftMembers, NftMembersAfter DEF NftAdded
    <3>2. nfts' # nfts
      BY <2>6, <2>10 DEF NftAdded
    <3>3. c = r.card /\ faults' = faults => NftKnown(c)'
      BY <2>5, <2>8, <2>9, <3>2 DEF NftKnown
    <3>4. NftsOf(c)' = IF c = r.card THEN NftsOf(c) \cup {<<t, k>>} ELSE NftsOf(c)
      BY <3>1
    <3>. QED
      BY <2>4, <3>3, <3>4 DEF Adds
  <2>. QED
    BY <1>1, <2>9, <2>10
<1>. QED
  BY <1>1, <1>2, <1>5, <1>6, <1>7, NftChangers

LEMMA MessagesAdd ==
    ASSUME IInv, Alone, RowInv, [Next]_vars, NEW i \in DOMAIN rows
    PROVE  Adds(MessagesOf(i), MessagesOf(i)', MessageKnown(i), MessageKnown(i)', faults, faults')
<1>1. CASE UNCHANGED log
  BY <1>1 DEF Adds, MessagesOf
<1>2. CASE log' = Append(log, <<>>)
  <2>1. log \in Seq(Seq(Messages))
    BY DEF IInv, NetworkOK
  <2>2. /\ DOMAIN log' = DOMAIN log \cup {Len(log) + 1} /\ \A t \in DOMAIN log : log'[t] = log[t]
        /\ log'[Len(log) + 1] = <<>> /\ DOMAIN <<>> = {}
    BY <1>2, <2>1
  <2>3. \A p : p \in MessagesOf(i)' <=> p \in MessagesOf(i)
    BY <2>2, MessageMembers, MessageMembersAfter
  <2>. QED
    BY <2>3 DEF Adds
<1>3. ASSUME NEW w \in Sessions, Submit(w), MessageAdded(req[w])
      PROVE  Adds(MessagesOf(i), MessagesOf(i)', MessageKnown(i), MessageKnown(i)', faults, faults')
  <2>1. PICK r \in Requests : req[w] = r /\ Sound(r) /\ OnRow(r)
    BY Suspended DEF IInv, RowInv, RequestsOnRows
  <2>2. r.step = "submit" /\ r.venue = VenueOf(r.card) /\ Busy(w)
    BY <1>3, <2>1 DEF Submit, Sound, Reached, CardSteps, OnCard, Busy
  <2>3. i # 0
    BY RowsShape
  <2>4. i = r.row => ~MessageKnown(i)
    <3>. SUFFICES ASSUME i = r.row, NEW s \in Sessions, req[s].row = i, req[s].seq # 0 PROVE FALSE
      BY <2>1, <2>3 DEF MessageKnown, OnRow
    <3>1. PICK q \in Requests : req[s] = q /\ Sound(q) /\ OnRow(q)
      BY Suspended DEF IInv, RowInv, RequestsOnRows
    <3>2. q.row = i /\ q.step \in {"metadata", "proof"}
      BY <2>3, <3>1 DEF OnRow
    <3>3. q.venue = VenueOf(q.card) /\ rows[i].card = q.card /\ Busy(s) /\ s # w
      BY <2>1, <2>2, <2>3, <3>1, <3>2 DEF Sound, Reached, CardSteps, OnCard, Busy
    <3>4. rows[i].card = r.card
      BY <2>1, <2>2, <2>3 DEF Sound, Reached, CardSteps, OnCard
    <3>5. q.venue # r.venue
      BY <2>1, <2>2, <3>1, <3>3, OnlyHere
    <3>. QED
      BY <2>2, <3>3, <3>4, <3>5
  <2>5. req \in [Sessions -> Requests] /\ faults # faults + 1
    BY DEF IInv, NetworkOK, ReqsOK
  <2>6. PICK t, k, x : /\ t = Program(r).topic /\ k = Len(log[t]) + 1
                       /\ x = [row |-> r.row, count |-> MessageCount(r)]
    OBVIOUS
  <2>7. t \in DOMAIN log /\ x \in Messages /\ x.row = r.row /\ k \in Nat \ {0}
    <3>1. t \in DOMAIN log /\ x \in Messages /\ x.row = r.row
      BY <1>3, <2>1, <2>6, SubmitSaysPlace DEF Messages
    <3>2. log[t] \in Seq(Messages)
      BY <3>1 DEF IInv, NetworkOK
    <3>. QED
      BY <2>6, <3>1, <3>2
  <2>8. log' = [log EXCEPT ![t] = Append(@, x)]
    BY <1>3, <2>1, <2>6 DEF MessageAdded
  <2>9. PICK q : q = [r EXCEPT !.seq = k]
    OBVIOUS
  <2>10. /\ q \in Requests /\ q.row = r.row /\ q.seq = k
         /\ r.row # 0 => ToMetadata(q).row = r.row /\ ToMetadata(q).seq = k
    <3>1. q \in Requests /\ q.row = r.row /\ q.seq = k
      BY <2>7, <2>9 DEF Requests
    <3>2. At(q, "metadata").row = q.row /\ At(q, "metadata").seq = q.seq
          /\ At(q, "proof").row = q.row /\ At(q, "proof").seq = q.seq
      BY <3>1 DEF At, Requests
    <3>. QED
      BY <2>7, <3>1, <3>2 DEF ToMetadata, ToProof
  <2>11. /\ k \notin DOMAIN log[t] /\ DOMAIN log' = DOMAIN log /\ DOMAIN log'[t] = DOMAIN log[t] \cup {k}
         /\ log'[t][k] = x
         /\ \A j \in DOMAIN log \ {t} : log'[j] = log[j]
         /\ \A j \in DOMAIN log : \A m \in DOMAIN log[j] : m \in DOMAIN log'[j] /\ log'[j][m] = log[j][m]
    BY <2>6, <2>7, <2>8, LogAdded
  <2>12. req' = [req EXCEPT ![w] = ToMetadata(q)] \/ faults' = faults + 1
    <3>1. \/ log' = log
          \/ req' = [req EXCEPT ![w] = ToMetadata(q)]
          \/ faults' = faults + 1
      BY <1>3, <2>1, <2>6, <2>9 DEF Submit, Call
    <3>2. log' # log
      BY <2>11
    <3>. QED
      BY <3>1, <3>2
  <2>13. \A p : p \in MessagesOf(i)' <=> p \in MessagesOf(i) \/ (i = r.row /\ p = <<t, k>>)
    BY <2>7, <2>11, MessageMembers, MessageMembersAfter
  <2>14. i = r.row /\ faults' = faults => MessageKnown(i)'
    <3>1. ASSUME i = r.row, faults' = faults PROVE MessageKnown(i)'
      <4>1. req'[w] = ToMetadata(q)
        BY <2>5, <2>12, <3>1
      <4>. QED
        BY <2>3, <2>7, <2>10, <3>1, <4>1 DEF MessageKnown
    <3>. QED
      BY <3>1
  <2>15. MessagesOf(i)' = IF i = r.row THEN MessagesOf(i) \cup {<<t, k>>} ELSE MessagesOf(i)
    BY <2>13
  <2>. QED
    BY <2>4, <2>14, <2>15 DEF Adds
<1>. QED
  BY <1>1, <1>2, <1>3, LogChangers

LEMMA CauseNext ==
    ASSUME IInv, Alone, RowInv, MessagesFiled, CauseInv, [Next]_vars PROVE CauseInv'
<1>1. faults \in Nat /\ faults' \in Nat /\ (faults' = faults \/ faults' = faults + 1)
  BY FaultsCount DEF IInv, NetworkOK
<1>2. \A v \in Venues : /\ TokenKnown(v) \in BOOLEAN /\ TokenKnown(v)' \in BOOLEAN
                        /\ TopicKnown(v) \in BOOLEAN /\ TopicKnown(v)' \in BOOLEAN
  BY DEF TokenKnown, TopicKnown
<1>3. /\ \A c \in Cards : NftKnown(c) \in BOOLEAN /\ NftKnown(c)' \in BOOLEAN
      /\ \A i \in DOMAIN rows : MessageKnown(i) \in BOOLEAN /\ MessageKnown(i)' \in BOOLEAN
  BY DEF NftKnown, MessageKnown
<1>4. \/ faults' = faults + 1
      \/ /\ faults' = faults
         /\ \A v \in Venues : (TokenKnown(v) => TokenKnown(v)') /\ (TopicKnown(v) => TopicKnown(v)')
         /\ \A c \in Cards : NftKnown(c) => NftKnown(c)'
         /\ \A i \in DOMAIN rows : MessageKnown(i) => MessageKnown(i)'
  BY <1>1, FaultsCount, KnownStays
<1>5. ASSUME NEW v \in Venues
      PROVE  /\ Caused(CollectionsOf(v)', TokenKnown(v)', faults')
             /\ Caused(TopicsOf(v)', TopicKnown(v)', faults')
  <2>1. Caused(CollectionsOf(v), TokenKnown(v), faults) /\ Caused(TopicsOf(v), TopicKnown(v), faults)
    BY DEF CauseInv
  <2>2. Caused(CollectionsOf(v)', TokenKnown(v)', faults')
    BY <1>1, <1>2, <1>4, <2>1, CollectionsAdd, CausedStep
  <2>3. Caused(TopicsOf(v)', TopicKnown(v)', faults')
    BY <1>1, <1>2, <1>4, <2>1, TopicsAdd, CausedStep
  <2>. QED
    BY <2>2, <2>3
<1>6. ASSUME NEW c \in Cards PROVE Caused(NftsOf(c)', NftKnown(c)', faults')
  <2>1. Caused(NftsOf(c), NftKnown(c), faults)
    BY DEF CauseInv
  <2>. QED
    BY <1>1, <1>3, <1>4, <2>1, NftsAdd, CausedStep
<1>7. ASSUME NEW i \in DOMAIN rows PROVE Caused(MessagesOf(i)', MessageKnown(i)', faults')
  <2>1. Caused(MessagesOf(i), MessageKnown(i), faults)
    BY DEF CauseInv
  <2>. QED
    BY <1>1, <1>3, <1>4, <2>1, MessagesAdd, CausedStep
<1>8. ASSUME NEW i \in DOMAIN rows', i \notin DOMAIN rows
      PROVE  Caused(MessagesOf(i)', MessageKnown(i)', faults')
  <2>1. PICK w \in Sessions : FilePunch(w) \/ FileRedemption(w)
    <3>1. ASSUME NEW w \in Sessions, WriteProof(w) PROVE FALSE
      BY <1>8, <3>1, ProofEffect
    <3>. QED
      BY <1>8, <3>1, RowChangers
  <2>2. UNCHANGED log
    BY <2>1 DEF FilePunch, FileRedemption, network
  <2>3. i # 0
    <3>1. rows' \in Seq(MirrorRows)
      BY NextSound DEF IInv, DbOK, RowsOK
    <3>. QED
      BY <1>8, <3>1
  <2>4. MessagesOf(i) = {}
    BY <1>8, <2>3, ToldMeansSent DEF MessagesFiled
  <2>5. MessagesOf(i)' = {}
    BY <2>2, <2>4 DEF MessagesOf
  <2>. QED
    BY <1>1, <2>5, FS_EmptySet DEF Caused
<1>. QED
  BY <1>5, <1>6, <1>7, <1>8 DEF CauseInv

LEMMA AlwaysCaused == ASSUME HostSerialises PROVE Spec => []CauseInv
<1>1. Init => CauseInv
  <2>. SUFFICES ASSUME Init PROVE CauseInv
    OBVIOUS
  <2>1. tokens = <<>> /\ topics = <<>> /\ nfts = <<>> /\ log = <<>> /\ faults = 0
    BY DEF Init
  <2>2. DOMAIN tokens = {} /\ DOMAIN topics = {} /\ DOMAIN nfts = {} /\ DOMAIN log = {}
    BY <2>1
  <2>3. /\ \A v : CollectionsOf(v) = {} /\ TopicsOf(v) = {}
        /\ \A c : NftsOf(c) = {}
        /\ \A i : MessagesOf(i) = {}
    BY <2>2 DEF CollectionsOf, TopicsOf, NftsOf, MessagesOf
  <2>4. \A b \in BOOLEAN : Caused({}, b, 0)
    BY FS_EmptySet DEF Caused
  <2>. QED
    BY <2>1, <2>3, <2>4 DEF CauseInv, TokenKnown, TopicKnown, NftKnown, MessageKnown
<1>2. IInv /\ Alone /\ RowInv /\ MessagesFiled /\ CauseInv /\ [Next]_vars => CauseInv'
  BY CauseNext
<1>. QED
  BY <1>1, <1>2, AlwaysAlone, AlwaysOnRows, MessagesFiledAlways, PTL DEF Spec

\* A second collection or topic of a venue, NFT of a card or message of a row
\* was made by a lost answer or for a dead request (DuplicatesHaveACause).
THEOREM DuplicatesCostFaults == ASSUME HostSerialises PROVE Spec => []DuplicatesHaveACause
<1>1. IInv /\ CauseInv => DuplicatesHaveACause
  <2>. SUFFICES ASSUME IInv, CauseInv PROVE DuplicatesHaveACause
    OBVIOUS
  <2>1. ASSUME NEW S, NEW b \in BOOLEAN, Caused(S, b, faults) PROVE Cardinality(S) <= 1 + faults
    BY <2>1, FS_CardinalityType DEF Caused, IInv, NetworkOK
  <2>2. \A v \in Venues : TokenKnown(v) \in BOOLEAN /\ TopicKnown(v) \in BOOLEAN
    BY DEF TokenKnown, TopicKnown
  <2>3. /\ \A c \in Cards : NftKnown(c) \in BOOLEAN
        /\ \A i \in DOMAIN rows : MessageKnown(i) \in BOOLEAN
    BY DEF NftKnown, MessageKnown
  <2>4. /\ \A v \in Venues : /\ Cardinality(CollectionsOf(v)) <= 1 + faults
                            /\ Cardinality(TopicsOf(v)) <= 1 + faults
        /\ \A c \in Cards : Cardinality(NftsOf(c)) <= 1 + faults
        /\ \A i \in DOMAIN rows : Cardinality(MessagesOf(i)) <= 1 + faults
    BY <2>1, <2>2, <2>3 DEF CauseInv
  <2>. QED
    BY <2>4 DEF DuplicatesHaveACause, CollectionsOf, TopicsOf
<1>. QED
  BY <1>1, AlwaysAlone, AlwaysCaused, PTL
-----------------------------------------------------------------------------
(* Nobody keeps an account another request is keeping                      *)

\* An account a request has opened and not yet kept is nobody's and its alone.
KeepsOwn ==
    \A s \in Sessions : req[s].step = "keep" =>
        /\ \A u \in Users : account[u] # req[s].got
        /\ \A t \in Sessions : req[t].step = "keep" /\ req[t].got = req[s].got => s = t

\* Who keeps an account: a request that has opened one, and then holds it no more.
LEMMA AccountKept ==
    ASSUME IInv, Alone, [Next]_vars
    PROVE  \/ UNCHANGED account
           \/ \E w \in Sessions : /\ KeepAccount(w) /\ req'[w].step # "keep" /\ UNCHANGED accounts
                                  /\ \A u \in Users : account'[u] \in {account[u], req[w].got}
<1>1. ASSUME NEW w \in Sessions, KeepAccount(w)
      PROVE  /\ req'[w].step # "keep" /\ UNCHANGED accounts
             /\ \A u \in Users : account'[u] \in {account[u], req[w].got}
  <2>1. UNCHANGED accounts /\ req[w].step = "keep"
    BY <1>1 DEF KeepAccount, network
  <2>2. \A u \in Users : account'[u] \in {account[u], req[w].got}
    BY <1>1 DEF KeepAccount, IInv, DbOK, AccountsOK
  <2>3. req'[w].step # "keep"
    <3>1. PICK r : r = req[w]
      OBVIOUS
    <3>2. req \in [Sessions -> Requests]
      BY DEF IInv, ReqsOK
    <3>3. CASE Quits(w)
      BY <3>2, <3>3, IdlePlaced DEF Quits
    <3>4. CASE Takes(w, r, {"mint", "transfer"} \cup Publishing)
      BY <3>2, <3>4, IdlePlaced DEF Takes, Onward, Over, Parked, Publishing
    <3>. QED
      BY <1>1, <3>1, <3>3, <3>4, AccountTakes
  <2>. QED
    BY <2>1, <2>2, <2>3
<1>2. ASSUME NEW w \in Sessions,
             \/ CreateCollection(w) \/ SaveToken(w) \/ CreateTopic(w) \/ SaveTopic(w) \/ FindAccount(w)
             \/ CreateAccount(w) \/ MintCard(w) \/ TransferCard(w) \/ Submit(w) \/ SaveSerial(w)
             \/ UpdateMetadata(w) \/ WriteProof(w) \/ NextPhase(w) \/ Pick(w) \/ RefreshMetadata(w)
             \/ SaveHolder(w) \/ FilePunch(w) \/ FileRedemption(w)
             \/ BeginReconcile(w) \/ Crash(w) \/ \E v \in Venues : OptIn(w, v)
             \/ \E c \in Cards : Begin(w, "punch", c) \/ Begin(w, "redeem", c) \/ Recount(w, c)
      PROVE  UNCHANGED account
  BY <1>2 DEF CreateCollection, SaveToken, CreateTopic, SaveTopic, FindAccount, CreateAccount,
     MintCard, TransferCard, Submit, UpdateMetadata, WriteProof, NextPhase, Pick, SaveSerial, SaveHolder,
     RefreshMetadata, Repoint, BeginReconcile, Crash, OptIn, Begin, Recount, FilePunch, FileRedemption, db
<1>3. ASSUME NEW v \in Venues, Pause(v) PROVE UNCHANGED account
  BY <1>3 DEF Pause
<1>4. ASSUME UNCHANGED vars PROVE UNCHANGED account
  BY <1>4 DEF vars
<1>. QED
  BY <1>1, <1>2, <1>3, <1>4 DEF Next, Proceed, Arrive

\* A request that waits to keep an account opened it a step before it waits.
LEMMA AccountOpened ==
    ASSUME IInv, Alone, [Next]_vars, NEW t \in Sessions, req'[t].step = "keep"
    PROVE  \/ req'[t] = req[t]
           \/ /\ CreateAccount(t) /\ req'[t].got = Len(accounts) + 1 /\ UNCHANGED account
              /\ \A s \in Sessions \ {t} : req'[s] = req[s]
<1>1. req \in [Sessions -> Requests]
  BY DEF IInv, ReqsOK
<1>2. ASSUME CreateAccount(t)
      PROVE  /\ req'[t].got = Len(accounts) + 1 /\ UNCHANGED account
             /\ \A s \in Sessions \ {t} : req'[s] = req[s]
  <2>1. PICK r \in Requests : r = req[t]
    BY <1>1
  <2>2. PICK n : n = NftDone(r)
    OBVIOUS
  <2>3. n.step # "keep"
    BY <2>2, NftDoneOn, IdlePlaced DEF Onward, Over, Parked, Publishing
  <2>4. PICK q : q = [At(r, "keep") EXCEPT !.got = Len(accounts) + 1]
    OBVIOUS
  <2>5. q.got = Len(accounts) + 1
    BY <2>4 DEF At, Requests
  <2>6. req' = [req EXCEPT ![t] = q] \/ req' = [req EXCEPT ![t] = n]
    BY <1>2, <2>1, <2>2, <2>4 DEF CreateAccount, Call
  <2>7. UNCHANGED account
    BY <1>2 DEF CreateAccount, db
  <2>. QED
    BY <1>1, <2>3, <2>5, <2>6, <2>7
<1>. QED
  BY <1>2, AnswersAwaited

LEMMA KeepsOwnNext == ASSUME IInv, Alone, KeepsOwn, [Next]_vars PROVE KeepsOwn'
<1>1. /\ \A u \in Users : account[u] = 0 \/ account[u] \in 1 .. Len(accounts)
      /\ Len(accounts) \in Nat
  BY DEF IInv, DbOK, AccountsOK, NetworkOK
<1>2. \A t \in Sessions : req[t].step = "keep" => req[t].got \in 1 .. Len(accounts)
  <2>1. ASSUME NEW t \in Sessions, req[t].step = "keep" PROVE req[t].got \in DOMAIN accounts
    <3>1. PICK r \in Requests : req[t] = r /\ Sound(r)
      BY Suspended DEF IInv
    <3>. QED
      BY <2>1, <3>1 DEF Sound, Reached
  <2>. QED
    BY <2>1 DEF IInv, NetworkOK
<1>3. CASE \E t \in Sessions : req'[t].step = "keep" /\ req'[t] # req[t]
  <2>1. PICK t \in Sessions : req'[t].step = "keep" /\ req'[t] # req[t]
    BY <1>3
  <2>2. /\ req'[t].got = Len(accounts) + 1 /\ UNCHANGED account
        /\ \A s \in Sessions \ {t} : req'[s] = req[s]
    BY <2>1, AccountOpened
  <2>. QED
    BY <1>1, <1>2, <2>1, <2>2 DEF KeepsOwn
<1>4. CASE \A t \in Sessions : req'[t].step = "keep" => req'[t] = req[t]
  <2>1. CASE UNCHANGED account
    BY <1>4, <2>1 DEF KeepsOwn
  <2>2. ASSUME NEW w \in Sessions, KeepAccount(w), req'[w].step # "keep",
               \A u \in Users : account'[u] \in {account[u], req[w].got}
        PROVE  KeepsOwn'
    <3>1. req[w].step = "keep"
      BY <2>2 DEF KeepAccount
    <3>. QED
      BY <1>4, <2>2, <3>1 DEF KeepsOwn
  <2>. QED
    BY <2>1, <2>2, AccountKept
<1>. QED
  BY <1>3, <1>4
-----------------------------------------------------------------------------
(* Which steps a request takes *)

Serving == {"punch", "redeem", "recount"}

\* An opt-in only sets up its venue, and a request that serves a card has minted
\* nothing before its row is filed.
Orderly(r) ==
    /\ r.op = "optin" => r.step \in VenueSteps
    /\ r.op \in Serving => r.step \in {"file"} \cup NftSteps \cup Publishing
    /\ r.op \in Serving /\ r.step = "file" => ~r.minted
InOrder == \A w \in Sessions : \A r \in Requests : req[w] = r => Orderly(r)

LEMMA IdleOrderly == Orderly(Idle)
BY IdlePlaced DEF Orderly, Serving

LEMMA OnwardOrderly ==
    ASSUME NEW n, NEW q, NEW S, Onward(n, q, S), q.op = "optin" => S \subseteq VenueSteps,
           q.op \in Serving => \/ S \subseteq NftSteps \cup Publishing
                               \/ S = {"file"} /\ ~q.minted
    PROVE  Orderly(n)
<1>1. CASE n = Idle
  BY <1>1, IdleOrderly
<1>2. CASE Parked(n, q)
  BY <1>2 DEF Parked, Orderly, Serving
<1>3. CASE Goes(n, q) /\ n.step \in S
  BY <1>3 DEF Goes, Orderly, Serving, NftSteps, Publishing
<1>. QED
  BY <1>1, <1>2, <1>3 DEF Onward, Over

\* Where the step of an opt-in may lead, and that of a request that serves a card.
Keeps(r, S) ==
    /\ r.op = "optin" => S \subseteq VenueSteps
    /\ r.op \in Serving => S \subseteq NftSteps \cup Publishing

LEMMA ProceedKeeps ==
    ASSUME IInv, Alone, NEW w \in Sessions, Proceed(w), NEW r, r = req[w], Orderly(r)
    PROVE  Quits(w) \/ \E q, S : /\ Takes(w, q, S) /\ q.op = r.op /\ Keeps(r, S)
                                 /\ q.op \in Serving => q.card = r.card
<1> DEFINE G == Quits(w) \/ \E q, S : /\ Takes(w, q, S) /\ q.op = r.op /\ Keeps(r, S)
                                       /\ q.op \in Serving => q.card = r.card
<1>1. ASSUME NEW S, Keeps(r, S), NEW q, Takes(w, q, S), q.op = r.op, q.op \in Serving => q.card = r.card
      PROVE  G
  BY <1>1
<1>3. r \in Requests /\ Placed(r)
  BY Held
<1>4. ASSUME r.step \in VenueSteps PROVE \A S : S \subseteq VenueSteps => Keeps(r, S)
  BY <1>4 DEF Orderly, Keeps, VenueSteps, NftSteps, Publishing
<1>5. ASSUME r.step \notin VenueSteps PROVE \A S : S \subseteq NftSteps \cup Publishing => Keeps(r, S)
  BY <1>5 DEF Orderly, Keeps
<1>6. CASE CreateCollection(w) \/ CreateTopic(w) \/ SaveToken(w) \/ SaveTopic(w)
  <2>1. r.step \in VenueSteps
    BY <1>6 DEF CreateCollection, CreateTopic, SaveToken, SaveTopic, VenueSteps
  <2>2. \E q, S : Takes(w, q, S) /\ q.op = r.op /\ q.card = r.card /\ S \subseteq VenueSteps
    BY <1>6, NetworkTakes, SaveTakes DEF VenueSteps, Alike
  <2>. QED
    BY <1>1, <1>4, <2>1, <2>2
<1>7. CASE \/ CreateAccount(w) \/ MintCard(w) \/ TransferCard(w) \/ UpdateMetadata(w) \/ RefreshMetadata(w)
           \/ FindAccount(w) \/ KeepAccount(w) \/ WriteProof(w)
  <2>1. r.step \notin VenueSteps
    BY <1>7 DEF CreateAccount, MintCard, TransferCard, UpdateMetadata, RefreshMetadata,
       FindAccount, KeepAccount, WriteProof, VenueSteps
  <2>2. Quits(w) \/ \E S : Takes(w, r, S) /\ S \subseteq NftSteps \cup Publishing
    BY <1>7, NetworkTakes, AccountTakes DEF NftSteps, Publishing
  <2>. QED
    BY <1>1, <1>5, <2>1, <2>2
<1>8. CASE SaveSerial(w) \/ SaveHolder(w) \/ FilePunch(w) \/ FileRedemption(w)
  <2>1. r.step \notin VenueSteps
    BY <1>8 DEF SaveSerial, SaveHolder, FilePunch, FileRedemption, VenueSteps
  <2>2. \E q, S : Takes(w, q, S) /\ q.op = r.op /\ q.card = r.card /\ S \subseteq NftSteps \cup Publishing
    BY <1>8, SaveTakes, FileTakes DEF NftSteps, Publishing, Alike, RowFiledFor
  <2>. QED
    BY <1>1, <1>5, <2>1, <2>2
<1>9. CASE Submit(w)
  <2>1. r.step \notin VenueSteps
    BY <1>9 DEF Submit, VenueSteps
  <2>2. ASSUME NEW q, Answered(q, r) PROVE q.op = r.op /\ q.card = r.card
    BY <1>3, <2>2 DEF Answered, Requests
  <2>3. \E q, S : Takes(w, q, S) /\ q.op = r.op /\ q.card = r.card /\ S \subseteq NftSteps \cup Publishing
    BY <1>9, <2>2, SubmitTakes DEF Publishing
  <2>. QED
    BY <1>1, <1>5, <2>1, <2>3
<1>10. CASE NextPhase(w) \/ Pick(w)
  <2>1. r.op = "reconcile"
    BY <1>3, <1>10 DEF NextPhase, Pick, Placed
  <2>2. Quits(w) \/ \E q, S : Takes(w, q, S) /\ q.op = "reconcile"
    BY <1>10, NextPhaseTakes, PickTakes DEF Turns
  <2>3. \A S : Keeps(r, S)
    BY <2>1 DEF Keeps, Serving
  <2>. QED
    BY <1>1, <2>1, <2>2, <2>3 DEF Serving
<1>. QED
  BY <1>6, <1>7, <1>8, <1>9, <1>10 DEF Proceed

LEMMA InOrderNext == ASSUME IInv, Alone, InOrder, [Next]_vars PROVE InOrder'
<1>1. req \in [Sessions -> Requests]
  BY DEF IInv, ReqsOK
<1>2. ASSUME NEW t \in Sessions, NEW n \in Requests, req'[t] = n PROVE Orderly(n)
  <2>1. PICK r \in Requests : req[t] = r /\ Orderly(r)
    BY <1>1 DEF InOrder
  <2>2. CASE n = r
    BY <2>1, <2>2
  <2>3. CASE n # r
    <3>1. Proceed(t) \/ Arrive(t) \/ BeginReconcile(t) \/ Crash(t)
      BY <1>2, <2>1, <2>3, OwnStep
    <3>2. ASSUME Quits(t) PROVE Orderly(n)
      BY <1>1, <1>2, <3>2, IdleOrderly DEF Quits
    <3>3. ASSUME NEW q, NEW S, Takes(t, q, S), q.op = "optin" => S \subseteq VenueSteps,
                 q.op \in Serving => \/ S \subseteq NftSteps \cup Publishing
                                     \/ S = {"file"} /\ ~q.minted
          PROVE  Orderly(n)
      <4>1. PICK m : Onward(m, q, S) /\ req' = [req EXCEPT ![t] = m]
        BY <3>3 DEF Takes
      <4>2. m = n
        BY <1>1, <1>2, <4>1
      <4>. QED
        BY <3>3, <4>1, <4>2, OnwardOrderly
    <3>4. CASE Proceed(t)
      BY <2>1, <3>2, <3>3, <3>4, ProceedKeeps DEF Keeps
    <3>5. CASE BeginReconcile(t)
      <4>1. \E q, S : Takes(t, q, S) /\ q.op = "reconcile"
        BY <3>5, BeginReconcileTakes DEF Turns
      <4>. QED
        BY <3>3, <4>1 DEF Serving
    <3>6. CASE Arrive(t)
      <4>1. ASSUME NEW v \in Venues, OptIn(t, v) PROVE Orderly(n)
        <5>1. \E q : Takes(t, q, {"token", "topic"}) /\ q.op = "optin"
          BY <4>1, ArriveTakes
        <5>. QED
          BY <3>3, <5>1 DEF Serving, VenueSteps
      <4>2. ASSUME NEW c \in Cards, NEW op \in {"punch", "redeem"}, Begin(t, op, c) PROVE Orderly(n)
        <5>1. \E q : Takes(t, q, {"file"}) /\ q.op = op /\ ~q.minted
          BY <4>2, ArriveTakes
        <5>. QED
          BY <3>3, <5>1
      <4>3. ASSUME NEW c \in Cards, Recount(t, c) PROVE Orderly(n)
        <5>1. \E q : Takes(t, q, {"account"} \cup Publishing) /\ q.op = "recount"
          BY <4>3, ArriveTakes
        <5>2. {"account"} \cup Publishing \subseteq NftSteps \cup Publishing
          BY DEF NftSteps
        <5>. QED
          BY <3>3, <5>1, <5>2
      <4>. QED
        BY <3>6, <4>1, <4>2, <4>3 DEF Arrive
    <3>7. CASE Crash(t)
      BY <3>2, <3>7, CrashTakes
    <3>. QED
      BY <3>1, <3>4, <3>5, <3>6, <3>7
  <2>. QED
    BY <2>2, <2>3
<1>. QED
  BY <1>2 DEF InOrder
-----------------------------------------------------------------------------
(* While every call is answered and no request dies                        *)

Smooth == failed = 0 /\ faults = 0

LEMMA FailuresCount == ASSUME IInv, [Next]_vars PROVE failed' = failed \/ failed' = failed + 1
<1>1. ASSUME NEW w \in Sessions,
             \/ CreateCollection(w) \/ CreateTopic(w) \/ CreateAccount(w) \/ Submit(w) \/ MintCard(w)
             \/ TransferCard(w) \/ UpdateMetadata(w) \/ RefreshMetadata(w)
      PROVE  failed' = failed \/ failed' = failed + 1
  BY <1>1 DEF CreateCollection, CreateTopic, CreateAccount, Submit, MintCard, TransferCard,
     UpdateMetadata, RefreshMetadata, Repoint, Call
<1>2. ASSUME NEW w \in Sessions,
             \/ SaveToken(w) \/ SaveTopic(w) \/ FindAccount(w) \/ KeepAccount(w) \/ SaveSerial(w)
             \/ SaveHolder(w) \/ WriteProof(w) \/ FilePunch(w) \/ FileRedemption(w) \/ NextPhase(w) \/ Pick(w)
             \/ BeginReconcile(w) \/ Crash(w) \/ \E v \in Venues : OptIn(w, v)
             \/ \E c \in Cards : Begin(w, "punch", c) \/ Begin(w, "redeem", c) \/ Recount(w, c)
      PROVE  failed' = failed
  BY <1>2 DEF SaveToken, SaveTopic, FindAccount, KeepAccount, SaveSerial, SaveHolder, WriteProof,
     FilePunch, FileRedemption, NextPhase, Pick, BeginReconcile, Crash, OptIn, Begin, Recount
<1>3. ASSUME NEW v \in Venues, Pause(v) PROVE failed' = failed
  BY <1>3 DEF Pause
<1>. QED
  BY <1>1, <1>2, <1>3 DEF Next, Proceed, Arrive, vars

LEMMA SmoothStep ==
    ASSUME IInv, [Next]_vars, Smooth'
    PROVE  Smooth /\ UNCHANGED <<failed, faults>> /\ \A w \in Sessions : ~Crash(w)
<1>1. failed \in Nat /\ faults \in Nat
  BY DEF IInv, NetworkOK
<1>. QED
  BY <1>1, FailuresCount, FaultsCount DEF Smooth

Ready(v) == prog[v].token # 0 /\ prog[v].topic # 0
SettingUp(v) == \E w \in Sessions : req[w].op = "optin" /\ req[w].venue = v
Used(c) == card[c].count # 0 \/ \E i \in DOMAIN rows : rows[i].card = c

\* Wherever there may be something to mirror there is a collection and a topic to
\* mirror it in, but at the venues that left before there was a mirror.
Prepared ==
    Smooth =>
        /\ \A v \in Venues : prog[v].on => Ready(v) \/ SettingUp(v)
        /\ \A c \in Cards : Used(c) /\ VenueOf(c) \notin Retired => Ready(VenueOf(c))
        /\ \A w \in Sessions :
               req[w].op \in Serving /\ req[w].venue \notin Retired => Ready(req[w].venue)

LEMMA ReadyStays == ASSUME ReferencesStay, NEW v \in Venues, Ready(v) PROVE Ready(v)'
BY DEF ReferencesStay, Ready

\* Who turns a program on.
LEMMA SwitchedOn ==
    ASSUME IInv, [Next]_vars, NEW v \in Venues, prog'[v].on, ~prog[v].on
    PROVE  \E w \in Sessions : OptIn(w, v)
<1>1. prog \in [Venues -> ProgramRows]
  BY DEF IInv, DbOK, ProgramsOK
<1>2. ASSUME NEW w \in Sessions, SaveToken(w) PROVE FALSE
  <2>1. PICK u, k : prog' = [prog EXCEPT ![u].token = k]
    BY <1>2 DEF SaveToken
  <2>. QED
    BY <1>1, <2>1 DEF ProgramRows
<1>3. ASSUME NEW w \in Sessions, SaveTopic(w) PROVE FALSE
  <2>1. PICK u, k : prog' = [prog EXCEPT ![u].topic = k]
    BY <1>3 DEF SaveTopic
  <2>. QED
    BY <1>1, <2>1 DEF ProgramRows
<1>4. ASSUME NEW w \in Sessions,
             \/ CreateCollection(w) \/ SaveSerial(w) \/ CreateTopic(w) \/ SaveHolder(w) \/ FindAccount(w)
             \/ CreateAccount(w) \/ KeepAccount(w) \/ MintCard(w) \/ TransferCard(w) \/ Submit(w)
             \/ UpdateMetadata(w) \/ WriteProof(w) \/ NextPhase(w) \/ Pick(w) \/ RefreshMetadata(w)
             \/ FilePunch(w) \/ FileRedemption(w) \/ BeginReconcile(w) \/ Crash(w)
             \/ \E c \in Cards : Begin(w, "punch", c) \/ Begin(w, "redeem", c) \/ Recount(w, c)
      PROVE  FALSE
  BY <1>4 DEF CreateCollection, SaveSerial, CreateTopic, SaveHolder, FindAccount, CreateAccount,
     KeepAccount, MintCard, TransferCard, Submit, UpdateMetadata, WriteProof, NextPhase, Pick,
     RefreshMetadata, Repoint, BeginReconcile, Crash, FilePunch, FileRedemption, Begin, Recount, db
<1>5. ASSUME NEW u \in Venues, Pause(u) PROVE FALSE
  BY <1>1, <1>5 DEF Pause, ProgramRows
<1>6. ASSUME NEW w \in Sessions, NEW u \in Venues, OptIn(w, u) PROVE u = v
  BY <1>1, <1>6 DEF OptIn, ProgramRows
<1>. QED
  BY <1>2, <1>3, <1>4, <1>5, <1>6 DEF Next, Proceed, Arrive, vars

LEMMA ToTokenSets ==
    ASSUME NEW q \in Requests, q.op = "optin", NEW n, n = ToToken(q) \/ n = ToTopic(q)
    PROVE  \/ n.op = "optin" /\ n.venue = q.venue
           \/ Program(q).topic # 0 /\ (n = ToToken(q) => Program(q).token # 0)
<1>1. n = At(q, "token") \/ n = At(q, "topic") => n.op = "optin" /\ n.venue = q.venue
  BY DEF At, Requests
<1>. QED
  BY <1>1 DEF ToToken, ToTopic

\* An opt-in goes on until its venue has a collection and a topic.
LEMMA SettingUpGoesOn ==
    ASSUME IInv, Alone, InOrder, [Next]_vars, Smooth', NEW v \in Venues, SettingUp(v)
    PROVE  SettingUp(v)' \/ Ready(v)'
<1>1. PICK w \in Sessions : req[w].op = "optin" /\ req[w].venue = v
  BY DEF SettingUp
<1>2. PICK r : r = req[w]
  OBVIOUS
<1>3. /\ r \in Requests /\ Sound(r) /\ Placed(r) /\ Copies(r, prog, card) /\ Orderly(r)
      /\ Busy(w) <=> r.step # "idle"
  BY <1>2, Held DEF InOrder
<1>4. /\ req \in [Sessions -> Requests] /\ prog \in [Venues -> ProgramRows]
      /\ r.progs \in [Venues -> ProgramRows \cup {None}]
  BY <1>2 DEF IInv, ReqsOK, DbOK, ProgramsOK, Requests
<1>5. /\ r.op = "optin" /\ r.venue = v /\ r.step \in VenueSteps /\ r.progs[v] # None
      /\ SameIds(r.progs[v], prog[v]) /\ Busy(w)
  BY <1>1, <1>2, <1>3 DEF Orderly, Copies, VenueSteps, Sound, Reached, OnVenue
<1>6. CASE req'[w] = r
  BY <1>5, <1>6 DEF SettingUp
<1>7. CASE req'[w] # r
  <2>1. /\ CreateCollection(w) \/ SaveToken(w) \/ CreateTopic(w) \/ SaveTopic(w)
        /\ failed' # failed + 1 /\ faults' # faults + 1
    <3>1. Proceed(w)
      BY <1>2, <1>5, <1>7, OwnStep, SmoothStep DEF Arrive, OptIn, Begin, Recount, BeginReconcile
    <3>2. failed' # failed + 1 /\ faults' # faults + 1
      BY SmoothStep DEF IInv, NetworkOK
    <3>. QED
      BY <1>2, <1>5, <3>1, <3>2 DEF Proceed, VenueSteps, FilePunch, FileRedemption, FindAccount,
         CreateAccount, KeepAccount, MintCard, SaveSerial, TransferCard, SaveHolder, Submit,
         UpdateMetadata, WriteProof, NextPhase, Pick, RefreshMetadata
  <2>2. CASE CreateCollection(w) \/ CreateTopic(w)
    <3>1. PICK step, g, n : n = [At(r, step) EXCEPT !.got = g] /\ req' = [req EXCEPT ![w] = n]
      BY <1>2, <2>1, <2>2 DEF CreateCollection, CreateTopic, Call
    <3>2. n.op = "optin" /\ n.venue = v
      BY <1>3, <1>5, <3>1, Goings DEF Goes
    <3>. QED
      BY <1>4, <3>1, <3>2 DEF SettingUp
  <2>3. CASE SaveToken(w)
    <3>1. PICK p : p = [prog[v] EXCEPT !.token = r.got]
      OBVIOUS
    <3>2. r.got # 0 /\ r.got \in Nat
      BY <1>2, <1>3, <2>3 DEF SaveToken, Sound, Reached, IInv, NetworkOK
    <3>3. p \in ProgramRows /\ prog' = [prog EXCEPT ![v] = p] /\ prog'[v] = p /\ p.token # 0
      BY <1>2, <1>4, <1>5, <2>3, <3>1, <3>2 DEF SaveToken, ProgramRows
    <3>4. PICK q : q = [r EXCEPT !.progs[v] = p, !.got = 0]
      OBVIOUS
    <3>5. q \in Requests /\ q.op = "optin" /\ q.venue = v /\ q.progs[v] = p
      BY <1>3, <1>4, <1>5, <3>3, <3>4 DEF Requests
    <3>6. PICK n : n = ToTopic(q)
      OBVIOUS
    <3>7. req' = [req EXCEPT ![w] = n]
      BY <1>2, <1>5, <2>3, <3>3, <3>4, <3>6 DEF SaveToken
    <3>8. (n.op = "optin" /\ n.venue = v) \/ p.topic # 0
      BY <3>5, <3>6, ToTokenSets DEF Program
    <3>. QED
      BY <1>4, <3>3, <3>7, <3>8 DEF SettingUp, Ready
  <2>4. CASE SaveTopic(w)
    <3>1. r.got # 0 /\ r.got \in Nat /\ Program(r).token # 0
      BY <1>2, <1>3, <2>4 DEF SaveTopic, Sound, Reached, IInv, NetworkOK, Placed
    <3>2. prog' = [prog EXCEPT ![v].topic = r.got]
      BY <1>2, <1>5, <2>4 DEF SaveTopic
    <3>. QED
      BY <1>4, <1>5, <3>1, <3>2 DEF Ready, Program, SameIds, ProgramRows
  <2>. QED
    BY <2>1, <2>2, <2>3, <2>4
<1>. QED
  BY <1>6, <1>7

\* Who files a row of a card.
Filing(w) == FilePunch(w) \/ FileRedemption(w)
FilingAt(c) == \E w \in Sessions : Filing(w) /\ req[w].card = c

LEMMA FiledRow ==
    ASSUME IInv, [Next]_vars, NEW c \in Cards, ~FilingAt(c)
    PROVE  \A i \in DOMAIN rows' : rows'[i].card = c => i \in DOMAIN rows
<1>1. ASSUME NEW w \in Sessions, Filing(w), NEW i \in DOMAIN rows', rows'[i].card = c
      PROVE  i \in DOMAIN rows
  BY <1>1, FileEffect DEF Filing, FilingAt
<1>2. ASSUME NEW w \in Sessions, WriteProof(w) PROVE DOMAIN rows' = DOMAIN rows
  BY <1>2, ProofEffect
<1>. QED
  BY <1>1, <1>2, RowChangers DEF Filing

LEMMA FilersServe ==
    ASSUME IInv, NEW w \in Sessions, Filing(w)
    PROVE  /\ req[w].op \in Serving /\ req[w].step = "file" /\ req[w].card \in Cards
           /\ req[w].venue = VenueOf(req[w].card)
<1>1. PICK r \in Requests : req[w] = r /\ Sound(r)
  BY Suspended DEF IInv
<1>. QED
  BY <1>1 DEF Filing, FilePunch, FileRedemption, Sound, Reached, Serving

\* Who begins to serve a card, and what it finds.
LEMMA NewcomerReady ==
    ASSUME HostSerialises, IInv, Alone, InOrder, Prepared, Smooth, NEW w \in Sessions, Arrive(w),
           req'[w].op \in Serving, req'[w].venue \notin Retired
    PROVE  req'[w].venue \in Venues /\ Ready(req'[w].venue)
<1>1. req \in [Sessions -> Requests] /\ card \in [Cards -> CardRows]
  BY DEF IInv, ReqsOK, DbOK, CardsOK
<1>2. ASSUME NEW q, NEW S, Takes(w, q, S), q.op # "reconcile" PROVE q.op = req'[w].op /\ q.venue = req'[w].venue
  <2>1. PICK n : Onward(n, q, S) /\ req' = [req EXCEPT ![w] = n]
    BY <1>2 DEF Takes
  <2>. QED
    BY <1>1, <1>2, <2>1, IdlePlaced DEF Onward, Over, Parked, Goes, Serving
<1>3. ASSUME NEW v \in Venues, OptIn(w, v) PROVE FALSE
  <2>1. PICK q : Takes(w, q, {"token", "topic"}) /\ q.op = "optin"
    BY <1>3, ArriveTakes
  <2>. QED
    BY <1>2, <2>1 DEF Serving
<1>4. ASSUME NEW c \in Cards, req'[w].venue = VenueOf(c), Used(c) PROVE req'[w].venue \in Venues /\ Ready(req'[w].venue)
  BY <1>4 DEF Prepared, Cards, VenueOf
<1>5. ASSUME NEW c \in Cards, NEW op \in {"punch", "redeem"}, Begin(w, op, c)
      PROVE  req'[w].venue \in Venues /\ Ready(req'[w].venue)
  <2>1. req'[w].venue = VenueOf(c) /\ VenueOf(c) \in Venues
    <3>1. PICK q : Takes(w, q, {"file"}) /\ q.op = op /\ q.venue = VenueOf(c)
      BY <1>5, ArriveTakes
    <3>. QED
      BY <1>2, <3>1 DEF Cards, VenueOf
  <2>2. CASE op = "punch"
    <3>1. prog[VenueOf(c)].on /\ VenueFree(VenueOf(c))
      BY <1>5, <2>2 DEF Begin
    <3>2. ~SettingUp(VenueOf(c))
      <4>1. ASSUME NEW s \in Sessions, req[s].op = "optin" PROVE Busy(s)
        BY <1>1, <4>1 DEF InOrder, Orderly, VenueSteps, Busy
      <4>. QED
        BY <3>1, <4>1 DEF SettingUp, VenueFree
    <3>. QED
      BY <2>1, <3>1, <3>2 DEF Prepared
  <2>3. CASE op = "redeem"
    <3>1. card[c].count >= Required
      BY <1>5, <2>3 DEF Begin
    <3>2. card[c].count # 0
      BY <1>1, <3>1, LedgerNumbers DEF CardRows
    <3>. QED
      BY <1>4, <2>1, <3>2 DEF Used
  <2>. QED
    BY <2>2, <2>3
<1>6. ASSUME NEW c \in Cards, Recount(w, c) PROVE req'[w].venue \in Venues /\ Ready(req'[w].venue)
  <2>1. PICK q : Takes(w, q, {"account"} \cup Publishing) /\ q.op = "recount" /\ q.venue = VenueOf(c)
    <3>1. \A d \in Cards : Recount(w, d) =>
             \E q : /\ Takes(w, q, {"account"} \cup Publishing) /\ q.op = "recount"
                    /\ q.venue = VenueOf(d) /\ q.row = 0 /\ q.seq = 0 /\ q.queue = {}
                    /\ q.card = d /\ ~q.minted
      BY ArriveTakes
    <3>. QED
      BY <1>6, <3>1
  <2>2. Used(c)
    BY <1>6 DEF Recount, HasPunch, Used
  <2>. QED
    BY <1>2, <1>4, <2>1, <2>2
<1>. QED
  BY <1>3, <1>5, <1>6 DEF Arrive

LEMMA BeginReconcileOp ==
    ASSUME IInv, NEW w \in Sessions, BeginReconcile(w) PROVE req'[w].op \in {"reconcile", "none"}
<1>1. PICK q, S, n : q.op = "reconcile" /\ Onward(n, q, S) /\ req' = [req EXCEPT ![w] = n]
  BY BeginReconcileTakes DEF Turns, Takes
<1>. QED
  BY <1>1, IdlePlaced DEF Onward, Over, Parked, Goes, IInv, ReqsOK

LEMMA PreparedNext ==
    ASSUME HostSerialises, IInv, Alone, InOrder, Prepared, [Next]_vars PROVE Prepared'
<1>. SUFFICES ASSUME Smooth' PROVE Prepared'
  BY DEF Prepared
<1>1. Smooth /\ ReferencesStay
  BY SmoothStep, ReferencesSettled
<1>2. \A v \in Venues : Ready(v) => Ready(v)'
  BY <1>1, ReadyStays
<1>3. ASSUME NEW v \in Venues, prog'[v].on PROVE Ready(v)' \/ SettingUp(v)'
  <2>1. CASE prog[v].on
    BY <1>1, <1>2, <2>1, SettingUpGoesOn DEF Prepared
  <2>2. CASE ~prog[v].on
    <3>1. PICK w \in Sessions : OptIn(w, v)
      BY <1>3, <2>2, SwitchedOn
    <3>2. PICK q, n : /\ q = [Bare("optin", "idle", v, None) EXCEPT !.progs[v] = prog'[v]]
                      /\ n = ToToken(q) /\ req' = [req EXCEPT ![w] = n]
      BY <3>1 DEF OptIn
    <3>3. prog'[v] \in ProgramRows
      BY <3>1, NextSound DEF IInv, DbOK, ProgramsOK
    <3>4. q \in Requests /\ q.op = "optin" /\ q.venue = v /\ q.progs[v] = prog'[v]
      BY <3>2, <3>3 DEF Bare, Requests, Ops, Steps, Phases
    <3>5. (n.op = "optin" /\ n.venue = v) \/ (prog'[v].topic # 0 /\ prog'[v].token # 0)
      BY <3>2, <3>4, ToTokenSets DEF Program
    <3>6. req'[w] = n
      BY <3>2 DEF IInv, ReqsOK
    <3>. QED
      BY <3>5, <3>6 DEF SettingUp, Ready
  <2>. QED
    BY <2>1, <2>2
<1>4. ASSUME NEW c \in Cards, Used(c)', VenueOf(c) \notin Retired PROVE Ready(VenueOf(c))'
  <2>1. PICK v \in Venues : v = VenueOf(c)
    BY DEF VenueOf, Cards
  <2>2. CASE Used(c)
    BY <1>1, <1>2, <1>4, <2>1, <2>2 DEF Prepared
  <2>3. CASE ~Used(c)
    <3>1. FilingAt(c)
      BY <1>4, <2>3, ProgressStays, FiledRow, RowsStay DEF Used, FilingAt, Filing
    <3>. QED
      BY <1>1, <1>2, <1>4, <2>1, <3>1, FilersServe DEF FilingAt, Prepared
  <2>. QED
    BY <2>2, <2>3
<1>5. ASSUME NEW w \in Sessions, req'[w].op \in Serving, req'[w].venue \notin Retired,
             NEW v, v = req'[w].venue
      PROVE  Ready(v)'
  <2>1. v = req'[w].venue
    BY <1>5
  <2>2. v \in Venues /\ Ready(v)
    <3>1. CASE req'[w] = req[w]
      <4>1. PICK r \in Requests : req[w] = r /\ Sound(r) /\ Orderly(r)
        BY Suspended DEF IInv, InOrder
      <4>2. v \in Venues
        BY <1>5, <2>1, <3>1, <4>1 DEF Sound, Reached, Orderly, CardSteps, OnCard, OnVenue, Publishing
      <4>. QED
        BY <1>1, <1>5, <2>1, <3>1, <4>2 DEF Prepared
    <3>2. CASE req'[w] # req[w]
      <4>1. Proceed(w) \/ Arrive(w) \/ BeginReconcile(w)
        BY <3>2, OwnStep, SmoothStep
      <4>2. PICK n : Becomes(w, n)
        BY <4>1, StepMakes DEF Makes
      <4>3. req'[w] = n
        BY <4>2 DEF Becomes, IInv, ReqsOK
      <4>4. n.step # "idle" /\ n.op # "reconcile"
        BY <1>5, <4>2, <4>3, IdlePlaced DEF Becomes, Serving
      <4>5. CASE Busy(w)
        <5>1. n.op = req[w].op /\ n.venue = req[w].venue
          BY <4>2, <4>4, <4>5 DEF Becomes, PlaceKept
        <5>2. PICK r \in Requests : req[w] = r /\ Sound(r) /\ Orderly(r)
          BY Suspended DEF IInv, InOrder
        <5>3. v \in Venues
          BY <1>5, <2>1, <4>3, <5>1, <5>2 DEF Sound, Reached, Orderly, CardSteps, OnCard, OnVenue, Publishing
        <5>. QED
          BY <1>1, <1>5, <2>1, <4>3, <5>1, <5>3 DEF Prepared
      <4>6. CASE ~Busy(w)
        <5>1. Arrive(w)
          BY <1>5, <4>1, <4>3, <4>4, <4>6, Proceeding, BeginReconcileOp DEF Serving
        <5>. QED
          BY <1>1, <1>5, <2>1, <5>1, NewcomerReady
      <4>. QED
        BY <4>5, <4>6
    <3>. QED
      BY <3>1, <3>2
  <2>. QED
    BY <1>2, <2>2
<1>6. ASSUME NEW w \in Sessions, req'[w].op \in Serving, req'[w].venue \notin Retired
      PROVE  prog'[req'[w].venue].token # 0 /\ prog'[req'[w].venue].topic # 0
  <2>1. PICK v : v = req'[w].venue
    OBVIOUS
  <2>2. Ready(v)'
    BY <1>5, <1>6, <2>1
  <2>. QED
    BY <2>1, <2>2 DEF Ready
<1>7. \A w \in Sessions : (req[w].op \in Serving /\ req[w].venue \notin Retired => Ready(req[w].venue))'
  BY <1>6 DEF Ready
<1>. QED
  BY <1>3, <1>4, <1>7 DEF Prepared
-----------------------------------------------------------------------------
(* Who touches a card's NFT                                                *)

Progress(c) == <<card[c].cycle, card[c].count>>

\* A request that hands over or repoints an NFT does so to its own card's.
LEMMA OwnNft ==
    ASSUME IInv, Alone, HeldInv, NEW w \in Sessions, NEW r, r = req[w],
           r.step \in {"transfer", "metadata", "refresh"},
           NEW t \in DOMAIN nfts, NEW k \in DOMAIN nfts[t], t = Program(r).token, k = Card(r).serial
    PROVE  /\ r.card \in Cards /\ nfts[t][k].card = r.card /\ Version(r) = Progress(r.card)
           /\ k = card[r.card].serial /\ t = prog[VenueOf(r.card)].token
<1>1. r \in Requests /\ Sound(r) /\ Copies(r, prog, card)
  BY Held
<1>2. /\ r.card \in Cards /\ r.venue \in Venues /\ r.venue = VenueOf(r.card)
      /\ r.progs[r.venue] # None /\ r.cards[r.card] # None
  BY <1>1 DEF Sound, Reached, CardSteps, NftSteps, OnCard, OnVenue
<1>3. Card(r) = card[r.card] /\ Program(r).token = prog[r.venue].token
  BY <1>1, <1>2 DEF Copies, SameIds, Card, Program
<1>4. k # 0
  <2>1. nfts[t] \in Seq(Nfts)
    BY DEF IInv, NetworkOK
  <2>. QED
    BY <2>1
<1>5. InCollection(r.card, k)
  BY <1>2, <1>3, <1>4 DEF HeldInv, SerialsResolve
<1>. QED
  BY <1>2, <1>3, <1>5 DEF InCollection, Version, Progress

\* An NFT changes hands when its card's request hands it over, and its metadata
\* only ever becomes its card's progress.
LEMMA OldNft ==
    ASSUME IInv, Alone, HeldInv, [Next]_vars,
           NEW t \in DOMAIN nfts, NEW k \in DOMAIN nfts[t], NEW c, c = nfts[t][k].card
    PROVE  \/ nfts'[t][k] = nfts[t][k]
           \/ /\ nfts'[t][k].meta = nfts[t][k].meta
              /\ \E w \in Sessions :
                     /\ TransferCard(w) /\ req[w].card = c
                     /\ UNCHANGED faults => req'[w].step = "holder" /\ req'[w].card = c
           \/ /\ nfts'[t][k].holder = nfts[t][k].holder
              /\ nfts'[t][k].meta = Progress(c) /\ UNCHANGED card
<1>1. /\ req \in [Sessions -> Requests] /\ nfts[t][k] \in Nfts /\ nfts[t] \in Seq(Nfts)
      /\ nfts \in Seq(Seq(Nfts)) /\ faults \in Nat
  BY DEF IInv, ReqsOK, NetworkOK
<1>2. CASE CollectionOpened
  BY <1>1, <1>2 DEF CollectionOpened
<1>3. ASSUME NEW w \in Sessions, MintCard(w) PROVE nfts'[t][k] = nfts[t][k]
  <2>1. PICK r : r = req[w]
    OBVIOUS
  <2>2. UNCHANGED nfts \/ \E j, y : NftAdded(j, y)
    BY <1>3, <2>1, MintEffect
  <2>. QED
    BY <2>2 DEF NftAdded
<1>4. ASSUME NEW w \in Sessions, TransferCard(w)
      PROVE  \/ nfts'[t][k] = nfts[t][k]
             \/ /\ nfts'[t][k].meta = nfts[t][k].meta /\ req[w].card = c
                /\ UNCHANGED faults => req'[w].step = "holder" /\ req'[w].card = c
  <2>1. PICK r \in Requests : r = req[w]
    BY <1>1
  <2>2. r.step = "transfer"
    BY <1>4, <2>1 DEF TransferCard
  <2>3. CASE UNCHANGED nfts
    BY <2>3
  <2>4. ASSUME NEW j \in DOMAIN nfts, NEW i \in DOMAIN nfts[j], j = Program(r).token, i = Card(r).serial,
               NftBecomes(j, i, [nfts[j][i] EXCEPT !.holder = r.account]),
               \/ UNCHANGED <<failed, faults>> /\ req' = [req EXCEPT ![w] = At(r, "holder")]
               \/ faults' = faults + 1
        PROVE  \/ nfts'[t][k] = nfts[t][k]
               \/ /\ nfts'[t][k].meta = nfts[t][k].meta /\ req[w].card = c
                  /\ UNCHANGED faults => req'[w].step = "holder" /\ req'[w].card = c
    <3>1. CASE j # t \/ i # k
      BY <2>4, <3>1 DEF NftBecomes
    <3>2. CASE j = t /\ i = k
      <4>1. PICK y : y = [nfts[t][k] EXCEPT !.holder = r.account]
        OBVIOUS
      <4>2. y.meta = nfts[t][k].meta
        BY <1>1, <4>1 DEF Nfts
      <4>3. nfts'[t][k] = y
        BY <2>4, <3>2, <4>1 DEF NftBecomes
      <4>0. r = req[w] /\ r.step = "transfer" /\ t = Program(r).token /\ k = Card(r).serial
        BY <2>1, <2>2, <2>4, <3>2
      <4>4. r.card = c
        BY <4>0, OwnNft
      <4>5. PICK q : q = At(r, "holder")
        OBVIOUS
      <4>6. q.step = "holder" /\ q.card = c
        BY <4>4, <4>5 DEF At, Requests
      <4>7. UNCHANGED faults => req'[w] = q
        BY <1>1, <2>4, <4>5
      <4>. QED
        BY <2>1, <4>2, <4>3, <4>4, <4>6, <4>7
    <3>. QED
      BY <3>1, <3>2
  <2>5. \/ UNCHANGED nfts
        \/ \E j \in DOMAIN nfts : \E i \in DOMAIN nfts[j] :
               /\ j = Program(r).token /\ i = Card(r).serial
               /\ NftBecomes(j, i, [nfts[j][i] EXCEPT !.holder = r.account])
               /\ \/ UNCHANGED <<failed, faults>> /\ req' = [req EXCEPT ![w] = At(r, "holder")]
                  \/ faults' = faults + 1
    BY <1>4, <2>1, TransferEffect
  <2>. QED
    BY <2>3, <2>4, <2>5
<1>5. ASSUME NEW w \in Sessions, UpdateMetadata(w) \/ RefreshMetadata(w)
      PROVE  \/ nfts'[t][k] = nfts[t][k]
             \/ /\ nfts'[t][k].holder = nfts[t][k].holder
                /\ nfts'[t][k].meta = Progress(c) /\ UNCHANGED card
  <2>1. PICK r \in Requests : r = req[w]
    BY <1>1
  <2>2. r.step \in {"metadata", "refresh"}
    BY <1>5, <2>1 DEF UpdateMetadata, RefreshMetadata
  <2>3. UNCHANGED card
    BY <1>5, RepointEffect DEF db
  <2>4. ASSUME NEW j \in DOMAIN nfts, NEW i \in DOMAIN nfts[j], j = Program(r).token, i = Card(r).serial,
               NftBecomes(j, i, [nfts[j][i] EXCEPT !.meta = Version(r)])
        PROVE  \/ nfts'[t][k] = nfts[t][k]
               \/ nfts'[t][k].holder = nfts[t][k].holder /\ nfts'[t][k].meta = Progress(c)
    <3>1. CASE j # t \/ i # k
      BY <2>4, <3>1 DEF NftBecomes
    <3>2. CASE j = t /\ i = k
      <4>1. PICK y : y = [nfts[t][k] EXCEPT !.meta = Version(r)]
        OBVIOUS
      <4>2. y.meta = Version(r) /\ y.holder = nfts[t][k].holder
        BY <1>1, <4>1 DEF Nfts
      <4>3. nfts'[t][k] = y
        BY <2>4, <3>2, <4>1 DEF NftBecomes
      <4>0. r = req[w] /\ t = Program(r).token /\ k = Card(r).serial
        BY <2>1, <2>4, <3>2
      <4>4. r.card = c /\ Version(r) = Progress(r.card)
        BY <2>2, <4>0, OwnNft
      <4>. QED
        BY <4>2, <4>3, <4>4
    <3>. QED
      BY <3>1, <3>2
  <2>5. \/ UNCHANGED nfts
        \/ \E j \in DOMAIN nfts : \E i \in DOMAIN nfts[j] :
               /\ j = Program(r).token /\ i = Card(r).serial
               /\ NftBecomes(j, i, [nfts[j][i] EXCEPT !.meta = Version(r)])
    BY <1>5, <2>1, RepointEffect
  <2>. QED
    BY <2>3, <2>4, <2>5
<1>. QED
  BY <1>2, <1>3, <1>4, <1>5, NftChangers

\* A new NFT is in the treasury.
LEMMA NewNft ==
    ASSUME IInv, Alone, HeldInv, [Next]_vars, NEW t \in DOMAIN nfts', NEW k \in DOMAIN nfts'[t],
           t \notin DOMAIN nfts \/ k \notin DOMAIN nfts[t]
    PROVE  nfts'[t][k].holder = 0
<1>1. nfts \in Seq(Seq(Nfts))
  BY DEF IInv, NetworkOK
<1>2. CASE CollectionOpened
  <2>1. nfts' = Append(nfts, <<>>)
    BY <1>2 DEF CollectionOpened
  <2>. QED
    BY <1>1, <2>1
<1>3. ASSUME NEW w \in Sessions, MintCard(w) PROVE nfts'[t][k].holder = 0
  <2>1. PICK r : r = req[w]
    OBVIOUS
  <2>2. UNCHANGED nfts \/ NftAdded(Program(r).token, [card |-> r.card, holder |-> 0, meta |-> Version(r)])
    BY <1>3, <2>1, MintEffect
  <2>3. PICK j, y : j = Program(r).token /\ y = [card |-> r.card, holder |-> 0, meta |-> Version(r)]
    OBVIOUS
  <2>4. NftAdded(j, y) /\ y.holder = 0
    BY <2>2, <2>3
  <2>. QED
    BY <2>4 DEF NftAdded
<1>4. ASSUME NEW w \in Sessions, TransferCard(w) \/ UpdateMetadata(w) \/ RefreshMetadata(w) PROVE FALSE
  <2>1. PICK r : r = req[w]
    OBVIOUS
  <2>2. UNCHANGED nfts \/ \E j, i, y : NftBecomes(j, i, y)
    <3>1. CASE TransferCard(w)
      <4>1. \/ UNCHANGED nfts
            \/ \E j \in DOMAIN nfts : \E i \in DOMAIN nfts[j] :
                   NftBecomes(j, i, [nfts[j][i] EXCEPT !.holder = r.account])
        BY <2>1, <3>1, TransferEffect
      <4>. QED
        BY <4>1
    <3>2. CASE UpdateMetadata(w) \/ RefreshMetadata(w)
      BY <2>1, <3>2, RepointEffect
    <3>. QED
      BY <1>4, <3>1, <3>2
  <2>. QED
    BY <2>2 DEF NftBecomes
<1>. QED
  BY <1>2, <1>3, <1>4, NftChangers
-----------------------------------------------------------------------------
(* What has left the treasury                                              *)

\* The card's row names a holder, or a request is about to write it.
Owned(c) == card[c].holder # 0 \/ \E w \in Sessions : req[w].step = "holder" /\ req[w].card = c

\* While every call is answered no NFT leaves the treasury unknown to its card.
HandedOver ==
    Smooth => \A t \in DOMAIN nfts : \A k \in DOMAIN nfts[t] :
                  nfts[t][k].holder # 0 => Owned(nfts[t][k].card)

LEMMA OwnedStays ==
    ASSUME IInv, Alone, [Next]_vars, Smooth', NEW c \in Cards, Owned(c) PROVE Owned(c)'
<1>1. CASE card[c].holder # 0
  BY <1>1, ReferencesSettled DEF ReferencesStay, Owned
<1>2. ASSUME NEW w \in Sessions, req[w].step = "holder", req[w].card = c PROVE Owned(c)'
  <2>1. CASE req'[w] = req[w]
    BY <1>2, <2>1 DEF Owned
  <2>2. CASE req'[w] # req[w]
    <3>1. Proceed(w)
      BY <1>2, <2>2, OwnStep, SmoothStep DEF Arrive, OptIn, Begin, Recount, BeginReconcile, Busy
    <3>2. SaveHolder(w)
      BY <1>2, <3>1 DEF Proceed, FilePunch, FileRedemption, CreateCollection, SaveToken, CreateTopic,
         SaveTopic, FindAccount, CreateAccount, KeepAccount, MintCard, SaveSerial, TransferCard, Submit,
         UpdateMetadata, WriteProof, NextPhase, Pick, RefreshMetadata
    <3>3. PICK r \in Requests : req[w] = r /\ Sound(r)
      BY Suspended DEF IInv
    <3>4. r.account # 0 /\ card' = [card EXCEPT ![c].holder = r.account]
      BY <1>2, <3>2, <3>3 DEF SaveHolder, Sound, Reached
    <3>5. card \in [Cards -> CardRows]
      BY DEF IInv, DbOK, CardsOK
    <3>. QED
      BY <3>4, <3>5 DEF Owned, CardRows
  <2>. QED
    BY <2>1, <2>2
<1>. QED
  BY <1>1, <1>2 DEF Owned

LEMMA HandedOverNext ==
    ASSUME IInv, Alone, HeldInv, HandedOver, [Next]_vars PROVE HandedOver'
<1>. SUFFICES ASSUME Smooth', NEW t \in DOMAIN nfts', NEW k \in DOMAIN nfts'[t], nfts'[t][k].holder # 0,
                     NEW c, c = nfts'[t][k].card
              PROVE  Owned(c)'
  BY DEF HandedOver, Owned
<1>1. Smooth /\ UNCHANGED faults
  BY SmoothStep
<1>2. t \in DOMAIN nfts /\ k \in DOMAIN nfts[t]
  BY NewNft
<1>3. c = nfts[t][k].card /\ c \in Cards
  <2>1. nfts[t][k] \in Nfts
    BY <1>2 DEF IInv, NetworkOK
  <2>. QED
    BY <1>2, <2>1, NetworkKept DEF NetworkGrows, Nfts
<1>4. CASE nfts[t][k].holder # 0
  BY <1>1, <1>2, <1>3, <1>4, OwnedStays DEF HandedOver
<1>5. CASE nfts[t][k].holder = 0
  BY <1>1, <1>2, <1>3, <1>5, OldNft DEF Owned
<1>. QED
  BY <1>4, <1>5
-----------------------------------------------------------------------------
(* What a card's mirror amounts to, and what leaves it alone               *)

\* The NFT k of the card's collection points at its progress.
TrueAt(c, k) == InCollection(c, k) /\ nfts[prog[VenueOf(c)].token][k].meta = Progress(c)
Pointed(c) == \E k \in Nat \ {0} : card[c].serial = k /\ TrueAt(c, k)

\* Every row of the card but j is published; a punched card is in its user's
\* hands; and so points at its progress.
Published(c, j) == \A i \in DOMAIN rows : rows[i].card = c /\ i # j => rows[i].seq # 0
Handed(c) == HasPunch(c) => card[c].holder # 0
Shown(c) == HasPunch(c) => card[c].holder # 0 /\ Pointed(c)
Exact(c) == Published(c, 0) /\ Shown(c)

LEMMA TrueStays ==
    ASSUME IInv, Alone, HeldInv, [Next]_vars, NEW c \in Cards, ~FilingAt(c), NEW k, TrueAt(c, k)
    PROVE  TrueAt(c, k)'
<1>1. NetworkGrows /\ ReferencesStay
  BY NetworkKept, ReferencesSettled
<1>2. InCollection(c, k) /\ InCollection(c, k)'
  BY <1>1, CollectionKept DEF TrueAt
<1>3. card'[c].count = card[c].count /\ card'[c].cycle = card[c].cycle
  BY ProgressStays DEF FilingAt, Filing
<1>4. PICK v \in Venues : v = VenueOf(c)
  BY DEF VenueOf, Cards
<1>5. prog'[v].token = prog[v].token
  BY <1>1, <1>2, <1>4 DEF ReferencesStay, InCollection
<1>6. PICK t \in DOMAIN nfts : t = prog[v].token /\ k \in DOMAIN nfts[t] /\ nfts[t][k].card = c
                               /\ nfts[t][k].meta = Progress(c)
  BY <1>2, <1>4 DEF InCollection, TrueAt
<1>7. nfts'[t][k].meta = Progress(c)
  BY <1>6, OldNft
<1>. QED
  BY <1>2, <1>3, <1>4, <1>5, <1>6, <1>7 DEF TrueAt, Progress, VenueOf

LEMMA PublishedStays ==
    ASSUME IInv, [Next]_vars, NEW c \in Cards, ~FilingAt(c), NEW j, Published(c, j)
    PROVE  Published(c, j)'
<1>1. \A i \in DOMAIN rows' : rows'[i].card = c => i \in DOMAIN rows /\ rows[i].card = c
  BY FiledRow, RowsStay
<1>2. \A i \in DOMAIN rows : rows[i].seq # 0 => rows'[i].seq # 0
  <2>1. \A w \in Sessions : WriteProof(w) => req[w].seq # 0
    BY ProofEffect
  <2>. QED
    BY <2>1, RowsStay
<1>. QED
  BY <1>1, <1>2 DEF Published

LEMMA MirrorStays ==
    ASSUME IInv, Alone, HeldInv, [Next]_vars, NEW c \in Cards, ~FilingAt(c)
    PROVE  /\ HasPunch(c)' => HasPunch(c)
           /\ Handed(c) => Handed(c)'
           /\ Pointed(c) => Pointed(c)'
           /\ Shown(c) => Shown(c)'
<1>1. ReferencesStay
  BY ReferencesSettled
<1>2. \A i \in DOMAIN rows' : rows'[i].card = c =>
          i \in DOMAIN rows /\ rows[i].card = c /\ rows'[i].kind = rows[i].kind
  BY FiledRow, RowsStay
<1>5. HasPunch(c)' => HasPunch(c)
  BY <1>2 DEF HasPunch
<1>6. Handed(c) => Handed(c)'
  BY <1>1, <1>5 DEF Handed, ReferencesStay
<1>7. ASSUME Pointed(c) PROVE Pointed(c)'
  <2>1. PICK k \in Nat \ {0} : card[c].serial = k /\ TrueAt(c, k)
    BY <1>7 DEF Pointed
  <2>2. card'[c].serial = k
    BY <1>1, <2>1 DEF ReferencesStay
  <2>3. TrueAt(c, k)'
    BY <2>1, TrueStays
  <2>. QED
    BY <2>2, <2>3 DEF Pointed
<1>8. Shown(c) => Shown(c)'
  BY <1>1, <1>5, <1>7 DEF Shown, ReferencesStay
<1>. QED
  BY <1>5, <1>6, <1>7, <1>8
-----------------------------------------------------------------------------
(* A request that serves a card                                            *)

Serves(r, c) == r.op \in Serving /\ r.step \in NftSteps \cup Publishing /\ r.card = c

\* What it has seen to by the step it is suspended at.
Underway(r) ==
    /\ Published(r.card, r.row)
    /\ r.minted => Pointed(r.card)
    /\ r.step = "serial" => TrueAt(r.card, r.got)
    /\ r.step \in Publishing => Handed(r.card)
    /\ r.step \in {"metadata", "proof"} /\ r.row # 0 => r.seq # 0
    /\ r.step = "proof" => Shown(r.card)

LEMMA UnderwayStays ==
    ASSUME IInv, Alone, HeldInv, [Next]_vars, NEW r, r.card \in Cards, ~FilingAt(r.card), Underway(r)
    PROVE  Underway(r)'
<1>1. PICK c, j, k : c \in Cards /\ c = r.card /\ j = r.row /\ k = r.got
  OBVIOUS
<1>2. ~FilingAt(c)
  BY <1>1
<1>3. /\ Handed(c) => Handed(c)'
      /\ Pointed(c) => Pointed(c)'
      /\ Shown(c) => Shown(c)'
  BY <1>1, <1>2, MirrorStays
<1>4. TrueAt(c, k) => TrueAt(c, k)'
  BY <1>1, <1>2, TrueStays
<1>5. Published(c, j) => Published(c, j)'
  BY <1>1, <1>2, PublishedStays
<1>. QED
  BY <1>1, <1>3, <1>4, <1>5 DEF Underway

\* q is at its card, with the rows of the card and its venue as they are.
Serviced(q, c) ==
    /\ q \in Requests /\ q.op \in Serving /\ q.card = c
    /\ Card(q) = card[c] /\ SameIds(Program(q), prog[VenueOf(c)]) /\ Ready(VenueOf(c))
    /\ Published(c, q.row) /\ (q.minted => Pointed(c))
    /\ card[c].holder # 0 => card[c].serial # 0

\* The call is over and the card's mirror exact, or it is still seeing to it.
After(n, c) == (n = Idle /\ Exact(c)) \/ (Serves(n, c) /\ Underway(n))

LEMMA GoesService ==
    ASSUME NEW c, NEW q, Serviced(q, c), NEW n, Goes(n, q), n.step \in NftSteps \cup Publishing,
           n.step = "serial" => TrueAt(c, n.got),
           n.step \in Publishing => Handed(c),
           n.step \in {"metadata", "proof"} /\ q.row # 0 => q.seq # 0,
           n.step = "proof" => Shown(c)
    PROVE  After(n, c)
<1>1. n.op \in Serving /\ n.card = c /\ n.row = q.row /\ n.seq = q.seq /\ n.minted = q.minted
  BY DEF Goes, Serviced
<1>2. Underway(n)
  BY <1>1 DEF Underway, Serviced
<1>. QED
  BY <1>1, <1>2 DEF After, Serves

LEMMA AtService ==
    ASSUME NEW c, NEW q, Serviced(q, c), NEW step, step \in (NftSteps \cup Publishing) \ {"serial"},
           step \in Publishing => Handed(c),
           step \in {"metadata", "proof"} /\ q.row # 0 => q.seq # 0,
           step = "proof" => Shown(c)
    PROVE  After(At(q, step), c)
<1>1. PICK n : n = At(q, step)
  OBVIOUS
<1>2. Goes(n, q) /\ n.step = step
  BY <1>1, AtGoes DEF Serviced
<1>3. After(n, c)
  BY <1>2, GoesService
<1>. QED
  BY <1>1, <1>3

LEMMA ProofService ==
    ASSUME NEW c, NEW q, Serviced(q, c), q.row # 0 => q.seq # 0, Shown(c)
    PROVE  After(ToProof(q), c)
<1>1. Handed(c)
  BY DEF Shown, Handed
<1>2. CASE q.row # 0
  <2>1. After(At(q, "proof"), c)
    BY <1>1, AtService DEF Publishing, NftSteps
  <2>. QED
    BY <1>2, <2>1 DEF ToProof
<1>3. CASE q.row = 0
  <2>1. ToProof(q) = Idle
    BY <1>3 DEF ToProof, Ended, Serviced, Serving
  <2>. QED
    BY <1>3, <2>1 DEF After, Exact, Serviced
<1>. QED
  BY <1>2, <1>3

LEMMA MetadataService ==
    ASSUME NEW c, NEW q, Serviced(q, c), q.row # 0 => q.seq # 0, Handed(c)
    PROVE  After(ToMetadata(q), c)
<1>1. q.op # "reconcile"
  BY DEF Serviced, Serving
<1>2. CASE ~q.minted /\ Program(q).token # 0 /\ Card(q).serial # 0
  <2>1. After(At(q, "metadata"), c)
    BY AtService DEF Publishing, NftSteps
  <2>. QED
    BY <1>1, <1>2, <2>1 DEF ToMetadata
<1>3. CASE q.minted \/ Program(q).token = 0 \/ Card(q).serial = 0
  <2>1. Shown(c)
    BY <1>3 DEF Serviced, Handed, Shown, SameIds, Ready
  <2>2. After(ToProof(q), c)
    BY <2>1, ProofService
  <2>. QED
    BY <1>3, <2>2 DEF ToMetadata
<1>. QED
  BY <1>2, <1>3

LEMMA SubmitService ==
    ASSUME NEW c, NEW q, Serviced(q, c), Handed(c)
    PROVE  After(ToSubmit(q), c)
<1>1. Program(q).topic # 0
  BY DEF Serviced, SameIds, Ready
<1>2. After(At(q, "submit"), c)
  BY AtService DEF Publishing, NftSteps
<1>. QED
  BY <1>1, <1>2 DEF ToSubmit

LEMMA NftDoneService ==
    ASSUME NEW c, NEW q, Serviced(q, c), Handed(c)
    PROVE  After(NftDone(q), c)
<1>1. PICK p : p = [q EXCEPT !.account = 0]
  OBVIOUS
<1>2. Serviced(p, c)
  BY <1>1 DEF Serviced, Requests, Card, Program
<1>3. NftDone(q) = ToSubmit(p)
  BY <1>1 DEF NftDone, Serviced, Serving
<1>. QED
  BY <1>2, <1>3, SubmitService

LEMMA TransferService ==
    ASSUME NEW c, NEW q, Serviced(q, c) PROVE After(ToTransfer(q), c)
<1>1. CASE Card(q).holder = 0
  <2>1. After(At(q, "transfer"), c)
    BY AtService DEF Publishing, NftSteps
  <2>. QED
    BY <1>1, <2>1 DEF ToTransfer
<1>2. CASE Card(q).holder # 0
  <2>1. Handed(c)
    BY <1>2 DEF Serviced, Handed
  <2>. QED
    BY <1>2, <2>1, NftDoneService DEF ToTransfer
<1>. QED
  BY <1>1, <1>2

LEMMA MintService ==
    ASSUME NEW c, NEW q, Serviced(q, c) PROVE After(ToMint(q), c)
<1>1. After(At(q, "mint"), c)
  BY AtService DEF Publishing, NftSteps
<1>. QED
  BY <1>1, TransferService DEF ToMint

LEMMA NftService ==
    ASSUME NEW c, NEW q, Serviced(q, c) PROVE After(ToNft(q), c)
<1>1. After(At(q, "account"), c)
  BY AtService DEF Publishing, NftSteps
<1>2. Program(q).token # 0
  BY DEF Serviced, SameIds, Ready
<1>3. CASE Card(q).holder # 0
  <2>1. Handed(c)
    BY <1>3 DEF Serviced, Handed
  <2>2. Card(q).serial # 0
    BY <1>3 DEF Serviced
  <2>. QED
    BY <1>3, <2>1, <2>2, NftDoneService DEF ToNft
<1>. QED
  BY <1>1, <1>2, <1>3 DEF ToNft

\* The same of the state a step leaves behind.
Services ==
    \A c \in Cards : \A q : Serviced(q, c) =>
        /\ \A n : Goes(n, q) /\ n.step \in NftSteps /\ (n.step = "serial" => TrueAt(c, n.got)) =>
               After(n, c)
        /\ \A n : n = ToMint(q) \/ n = ToTransfer(q) \/ n = ToNft(q) => After(n, c)
        /\ \A n : Handed(c) /\ (n = NftDone(q) \/ n = ToSubmit(q)) => After(n, c)
        /\ \A n : Handed(c) /\ (q.row # 0 => q.seq # 0) /\ n = ToMetadata(q) => After(n, c)
        /\ \A n : Shown(c) /\ (q.row # 0 => q.seq # 0) /\ n = ToProof(q) => After(n, c)

LEMMA ServicesHold == Services
<1>. SUFFICES ASSUME NEW c \in Cards, NEW q, Serviced(q, c)
              PROVE  /\ \A n : Goes(n, q) /\ n.step \in NftSteps /\ (n.step = "serial" => TrueAt(c, n.got)) =>
                            After(n, c)
                     /\ \A n : n = ToMint(q) \/ n = ToTransfer(q) \/ n = ToNft(q) => After(n, c)
                     /\ \A n : Handed(c) /\ (n = NftDone(q) \/ n = ToSubmit(q)) => After(n, c)
                     /\ \A n : Handed(c) /\ (q.row # 0 => q.seq # 0) /\ n = ToMetadata(q) => After(n, c)
                     /\ \A n : Shown(c) /\ (q.row # 0 => q.seq # 0) /\ n = ToProof(q) => After(n, c)
  BY DEF Services
<1>1. ASSUME NEW n, Goes(n, q), n.step \in NftSteps, n.step = "serial" => TrueAt(c, n.got)
      PROVE  After(n, c)
  <2>1. n.step \notin Publishing /\ n.step \notin {"metadata", "proof"} /\ n.step # "proof"
    BY <1>1 DEF NftSteps, Publishing
  <2>. QED
    BY <1>1, <2>1, GoesService
<1>. QED
  BY <1>1, MintService, TransferService, NftService, NftDoneService, SubmitService,
     MetadataService, ProofService

LEMMA ServicesAfter == Services'
BY ServicesHold, PTL
-----------------------------------------------------------------------------
(* The steps of a request that serves a card, while nothing fails          *)

\* What the steps rest on.
MirrorInv == IInv /\ Alone /\ HeldInv /\ KeepsOwn /\ InOrder /\ Prepared /\ HandedOver

LEMMA ServingRecord ==
    ASSUME IInv, Alone, NEW w \in Sessions, NEW r, req[w] = r, NEW c \in Cards, Serves(r, c)
    PROVE  /\ r \in Requests /\ Sound(r) /\ Placed(r) /\ Busy(w) /\ OnCard(r)
           /\ r.op \in Serving /\ r.card = c /\ r.venue = VenueOf(c) /\ VenueOf(c) \in Venues
           /\ Card(r) = card[c] /\ SameIds(Program(r), prog[VenueOf(c)])
<1>1. r \in Requests /\ Sound(r) /\ Placed(r) /\ Copies(r, prog, card) /\ (Busy(w) <=> r.step # "idle")
  BY Held
<1>2. OnCard(r) /\ r.op \in Serving /\ r.card = c /\ r.step # "idle"
  BY <1>1 DEF Serves, Sound, Reached, CardSteps, NftSteps, Publishing
<1>. QED
  BY <1>1, <1>2 DEF OnCard, OnVenue, Copies, Card, Program

\* Nobody else is at the venue of a request that serves or files.
LEMMA AloneAtCard ==
    ASSUME IInv, Alone, NEW w \in Sessions, Busy(w), NEW c \in Cards, req[w].venue = VenueOf(c),
           NEW s \in Sessions, NEW r, req[s] = r, Serves(r, c)
    PROVE  s = w
<1>1. Busy(s) /\ r.venue = VenueOf(c)
  BY ServingRecord
<1>. QED
  BY <1>1, OnlyHere

\* A step of it that writes at most its own card leaves it served as it was.
LEMMA ServedOn ==
    ASSUME MirrorInv, [Next]_vars, Smooth', NEW c \in Cards, VenueOf(c) \notin Retired, ~FilingAt(c),
           NEW w \in Sessions, NEW r, req[w] = r, Serves(r, c), Underway(r), UNCHANGED prog,
           NEW q \in Requests, q.op = r.op, q.card = c, q.venue = r.venue, q.row = r.row,
           q.progs = r.progs, Card(q) = card'[c], q.minted => Pointed(c)'
    PROVE  Serviced(q, c)'
<1>1. /\ IInv /\ Alone /\ HeldInv /\ InOrder /\ Prepared
  BY DEF MirrorInv
<1>2. /\ r.op \in Serving /\ r.card = c /\ r.venue = VenueOf(c) /\ VenueOf(c) \in Venues
      /\ SameIds(Program(r), prog[VenueOf(c)])
  BY <1>1, ServingRecord
<1>3. Smooth /\ ReferencesStay /\ SerialsResolve'
  BY <1>1, SmoothStep, ReferencesSettled, SerialsResolveNext
<1>4. PICK v \in Venues : v = VenueOf(c)
  BY <1>2
<1>5. Ready(v)'
  <2>1. Ready(v)
    BY <1>1, <1>2, <1>3, <1>4 DEF Prepared
  <2>. QED
    BY <1>3, <2>1, ReadyStays
<1>6. PICK j : j = r.row
  OBVIOUS
<1>7. Published(c, j)'
  <2>1. Published(c, j)
    BY <1>2, <1>6 DEF Underway
  <2>. QED
    BY <1>1, <2>1, PublishedStays
<1>8. SameIds(Program(q), prog'[v])
  BY <1>2, <1>4 DEF Program, SameIds
<1>9. card'[c].holder # 0 => card'[c].serial # 0
  BY <1>3 DEF SerialsResolve
<1>10. (q.minted => Pointed(c)') /\ q.row = j /\ q.op \in Serving /\ q.card = c /\ Card(q) = card'[c]
  BY <1>2, <1>6
<1>. QED
  BY <1>4, <1>5, <1>7, <1>8, <1>9, <1>10 DEF Serviced, VenueOf

LEMMA NoneFiles ==
    ASSUME IInv, Alone, NEW w \in Sessions, NEW r, req[w] = r, NEW c \in Cards, Serves(r, c)
    PROVE  ~FilingAt(c)
<1>1. ASSUME NEW s \in Sessions, Filing(s), req[s].card = c PROVE FALSE
  <2>1. req[s].step = "file" /\ req[s].venue = VenueOf(c) /\ Busy(s)
    BY <1>1, FilersServe DEF Busy
  <2>2. s = w
    BY <2>1, AloneAtCard
  <2>. QED
    BY <2>1, <2>2 DEF Serves, NftSteps, Publishing
<1>. QED
  BY <1>1 DEF FilingAt

\* What holds in such a step, and the request's record on its way through it.
LEMMA Unfailing ==
    ASSUME MirrorInv, [Next]_vars, Smooth', NEW c \in Cards,
           NEW w \in Sessions, NEW r, req[w] = r, Serves(r, c), Underway(r)
    PROVE  /\ failed' # failed + 1 /\ faults' # faults + 1 /\ ~FilingAt(c) /\ Smooth
           /\ r \in Requests /\ Sound(r) /\ Placed(r) /\ Busy(w) /\ OnCard(r)
           /\ r.op \in Serving /\ r.card = c /\ r.venue = VenueOf(c) /\ VenueOf(c) \in Venues
           /\ Card(r) = card[c] /\ SameIds(Program(r), prog[VenueOf(c)])
           /\ r.minted => Pointed(c) /\ Pointed(c)'
           /\ r.step \in Publishing => Handed(c) /\ Handed(c)'
<1>1. IInv /\ Alone /\ HeldInv
  BY DEF MirrorInv
<1>2. failed' # failed + 1 /\ faults' # faults + 1 /\ Smooth
  BY <1>1, SmoothStep DEF IInv, NetworkOK
<1>3. ~FilingAt(c)
  BY <1>1, NoneFiles
<1>4. (Pointed(c) => Pointed(c)') /\ (Handed(c) => Handed(c)')
  BY <1>1, <1>3, MirrorStays
<1>5. (r.minted => Pointed(c)) /\ (r.step \in Publishing => Handed(c))
  BY DEF Underway, Serves
<1>. QED
  BY <1>1, <1>2, <1>3, <1>4, <1>5, ServingRecord

LEMMA SameServed ==
    ASSUME MirrorInv, [Next]_vars, Smooth', NEW c \in Cards, VenueOf(c) \notin Retired,
           NEW w \in Sessions, NEW r, req[w] = r, Serves(r, c), Underway(r), UNCHANGED <<prog, card>>,
           NEW q \in Requests, q.op = r.op, q.card = r.card, q.venue = r.venue, q.row = r.row,
           q.progs = r.progs, q.cards = r.cards, q.minted = r.minted
    PROVE  Serviced(q, c)'
<1>1. /\ ~FilingAt(c) /\ r.card = c /\ Card(r) = card[c] /\ (r.minted => Pointed(c)')
  BY Unfailing
<1>2. Card(q) = card'[c] /\ (q.minted => Pointed(c)')
  BY <1>1 DEF Card
<1>. QED
  BY <1>1, <1>2, ServedOn

LEMMA AccountFound ==
    ASSUME MirrorInv, [Next]_vars, Smooth', NEW c \in Cards, VenueOf(c) \notin Retired,
           NEW w \in Sessions, NEW r, req[w] = r, Serves(r, c), Underway(r), FindAccount(w),
           NEW n, n = req'[w]
    PROVE  After(n, c)'
<1>1. r \in Requests /\ req \in [Sessions -> Requests] /\ account \in [Users -> Nat] /\ Owner(r.card) \in Users
  BY Unfailing DEF MirrorInv, IInv, ReqsOK, DbOK, AccountsOK, Owner, Cards
<1>2. UNCHANGED <<prog, card>>
  BY DEF FindAccount, db
<1>3. PICK a \in Nat : a = account[Owner(r.card)]
  BY <1>1
<1>4. n = IF a = 0 THEN At(r, "create") ELSE ToMint([r EXCEPT !.account = a])
  BY <1>1, <1>3 DEF FindAccount
<1>5. CASE a = 0
  <2>1. Serviced(r, c)'
    BY <1>1, <1>2, SameServed
  <2>2. Goes(n, r) /\ n.step = "create"
    BY <1>1, <1>4, <1>5, AtGoes
  <2>. QED
    BY <2>1, <2>2, ServicesAfter DEF Services, NftSteps
<1>6. CASE a # 0
  <2>1. PICK q : q = [r EXCEPT !.account = a]
    OBVIOUS
  <2>2. q \in Requests /\ q.op = r.op /\ q.card = r.card /\ q.venue = r.venue /\ q.row = r.row
        /\ q.progs = r.progs /\ q.cards = r.cards /\ q.minted = r.minted
    BY <1>1, <2>1 DEF Requests
  <2>3. Serviced(q, c)'
    BY <1>2, <2>2, SameServed
  <2>. QED
    BY <1>4, <1>6, <2>1, <2>3, ServicesAfter DEF Services
<1>. QED
  BY <1>5, <1>6

LEMMA AccountAsked ==
    ASSUME MirrorInv, [Next]_vars, Smooth', NEW c \in Cards, VenueOf(c) \notin Retired,
           NEW w \in Sessions, NEW r, req[w] = r, Serves(r, c), Underway(r), CreateAccount(w),
           NEW n, n = req'[w]
    PROVE  After(n, c)'
<1>1. /\ r \in Requests /\ req \in [Sessions -> Requests]
      /\ failed' # failed + 1 /\ faults' # faults + 1
  BY Unfailing DEF MirrorInv, IInv, ReqsOK
<1>2. UNCHANGED <<prog, card>>
  BY DEF CreateAccount, db
<1>3. PICK g : n = [At(r, "keep") EXCEPT !.got = g]
  BY <1>1 DEF CreateAccount, Call
<1>4. Goes(n, r) /\ n.step = "keep"
  BY <1>1, <1>3, Goings
<1>5. Serviced(r, c)'
  BY <1>1, <1>2, SameServed
<1>. QED
  BY <1>4, <1>5, ServicesAfter DEF Services, NftSteps

\* The account of a user who has at most one is not kept twice.
LEMMA OnlyAccount ==
    ASSUME IInv, KeepsOwn, NEW w \in Sessions, NEW r, req[w] = r, r.step = "keep",
           NEW u, u = Owner(r.card), OneAccount(u)
    PROVE  u \in Users /\ account[u] = 0
<1>1. PICK x \in Requests : req[w] = x /\ Sound(x)
  BY Suspended DEF IInv
<1>2. r.card \in Cards /\ r.got \in DOMAIN accounts /\ accounts[r.got] = u
  BY <1>1 DEF Sound, Reached, CardSteps, NftSteps, OnCard
<1>3. u \in Users
  BY <1>2 DEF Owner, Cards
<1>4. ASSUME account[u] # 0 PROVE FALSE
  <2>1. account[u] \in DOMAIN accounts /\ accounts[account[u]] = u /\ account[u] # r.got
    BY <1>3, <1>4 DEF IInv, DbOK, AccountsOK, KeepsOwn
  <2>2. PICK S : S = {a \in DOMAIN accounts : accounts[a] = u}
    OBVIOUS
  <2>3. IsFiniteSet(DOMAIN accounts)
    <3>1. DOMAIN accounts = 1 .. Len(accounts) /\ Len(accounts) \in Nat
      BY DEF IInv, NetworkOK
    <3>. QED
      BY <3>1, FS_Interval
  <2>4. IsFiniteSet(S) /\ account[u] \in S /\ r.got \in S
    BY <1>2, <2>1, <2>2, <2>3, FS_Subset
  <2>5. PICK T : T = S \ {r.got}
    OBVIOUS
  <2>6. IsFiniteSet(T) /\ Cardinality(T) = Cardinality(S) - 1
    BY <2>4, <2>5, FS_RemoveElement
  <2>7. Cardinality(T) \in Nat /\ Cardinality(T) # 0
    <3>1. T # {}
      BY <2>1, <2>4, <2>5
    <3>. QED
      BY <2>6, <3>1, FS_CardinalityType, FS_EmptySet
  <2>8. Cardinality(S) <= 1
    BY <2>2 DEF OneAccount
  <2>. QED
    BY <2>4, <2>6, <2>7, <2>8, FS_CardinalityType
<1>. QED
  BY <1>3, <1>4

LEMMA AccountKeeping ==
    ASSUME MirrorInv, [Next]_vars, Smooth', NEW c \in Cards, VenueOf(c) \notin Retired, OneAccount(Owner(c)),
           NEW w \in Sessions, NEW r, req[w] = r, Serves(r, c), Underway(r), KeepAccount(w),
           NEW n, n = req'[w]
    PROVE  After(n, c)'
<1>1. r \in Requests /\ req \in [Sessions -> Requests] /\ r.card = c
  BY Unfailing DEF MirrorInv, IInv, ReqsOK
<1>2. UNCHANGED <<prog, card>>
  BY DEF KeepAccount
<1>3. account[Owner(r.card)] = 0
  <2>1. PICK u : u = Owner(c)
    OBVIOUS
  <2>2. OneAccount(u) /\ u = Owner(r.card) /\ r.step = "keep"
    BY <1>1, <2>1 DEF KeepAccount
  <2>. QED
    BY <2>2, OnlyAccount DEF MirrorInv
<1>4. PICK q : q = [r EXCEPT !.account = r.got, !.got = 0]
  OBVIOUS
<1>5. n = ToMint(q)
  BY <1>1, <1>3, <1>4 DEF KeepAccount
<1>6. q \in Requests /\ q.op = r.op /\ q.card = r.card /\ q.venue = r.venue /\ q.row = r.row
      /\ q.progs = r.progs /\ q.cards = r.cards /\ q.minted = r.minted
  BY <1>1, <1>4 DEF Requests
<1>7. Serviced(q, c)'
  BY <1>2, <1>6, SameServed
<1>. QED
  BY <1>5, <1>7, ServicesAfter DEF Services

LEMMA Minting ==
    ASSUME MirrorInv, [Next]_vars, Smooth', NEW c \in Cards, VenueOf(c) \notin Retired,
           NEW w \in Sessions, NEW r, req[w] = r, Serves(r, c), Underway(r), MintCard(w),
           NEW n, n = req'[w]
    PROVE  After(n, c)'
<1>1. /\ r \in Requests /\ req \in [Sessions -> Requests]
      /\ failed' # failed + 1 /\ faults' # faults + 1
      /\ r.card = c /\ Card(r) = card[c] /\ SameIds(Program(r), prog[VenueOf(c)]) /\ Sound(r)
  BY Unfailing DEF MirrorInv, IInv, ReqsOK
<1>2. PICK t, k, y : /\ t = Program(r).token /\ k = Len(nfts[t]) + 1
                     /\ y = [card |-> r.card, holder |-> 0, meta |-> Version(r)]
  OBVIOUS
<1>3. /\ UNCHANGED <<db, tokens>> /\ r.step = "mint" /\ NftAdded(t, y)
      /\ req' = [req EXCEPT ![w] = [At(r, "serial") EXCEPT !.got = k]]
  <2>1. IInv
    BY DEF MirrorInv
  <2>. QED
    BY <1>1, <1>2, <2>1, MintEffect
<1>4. n = [At(r, "serial") EXCEPT !.got = k]
  BY <1>1, <1>3
<1>5. Goes(n, r) /\ n.step = "serial" /\ n.got = k
  <2>1. Goes(n, r) /\ n.step = "serial"
    BY <1>1, <1>4, Goings
  <2>. QED
    BY <1>1, <1>4, <2>1 DEF At, Requests
<1>6. UNCHANGED <<prog, card>>
  BY <1>3 DEF db
<1>7. TrueAt(c, k)'
  <2>1. k \in DOMAIN nfts'[t] /\ nfts'[t][k] = y /\ t \in DOMAIN nfts'
    BY <1>2, <1>3 DEF NftAdded
  <2>2. y.card = c /\ y.meta = Progress(c)'
    BY <1>1, <1>2, <1>6 DEF Version, Progress
  <2>3. t = prog'[VenueOf(c)].token /\ t # 0
    BY <1>1, <1>2, <1>3, <1>6 DEF SameIds, Sound, Reached, NftSteps
  <2>. QED
    BY <2>1, <2>2, <2>3 DEF TrueAt, InCollection, VenueOf
<1>8. Serviced(r, c)'
  BY <1>1, <1>6, SameServed
<1>. QED
  BY <1>5, <1>7, <1>8, ServicesAfter DEF Services, NftSteps

LEMMA SerialSaving ==
    ASSUME MirrorInv, [Next]_vars, Smooth', NEW c \in Cards, VenueOf(c) \notin Retired,
           NEW w \in Sessions, NEW r, req[w] = r, Serves(r, c), Underway(r), SaveSerial(w),
           NEW n, n = req'[w]
    PROVE  After(n, c)'
<1>1. /\ r \in Requests /\ req \in [Sessions -> Requests] /\ card \in [Cards -> CardRows]
      /\ r.card = c /\ Sound(r) /\ OnCard(r) /\ ~FilingAt(c)
      /\ r.cards \in [Cards -> CardRows \cup {None}]
  BY Unfailing DEF MirrorInv, IInv, ReqsOK, DbOK, CardsOK, Requests
<1>2. PICK k : k = r.got
  OBVIOUS
<1>3. k \in Nat \ {0} /\ TrueAt(c, k) /\ r.step = "serial" /\ UNCHANGED prog
  BY <1>1, <1>2 DEF SaveSerial, Sound, Reached, Requests, Underway
<1>4. PICK x : x = [card[c] EXCEPT !.serial = k]
  OBVIOUS
<1>5. x \in CardRows /\ x.serial = k
  BY <1>1, <1>3, <1>4 DEF CardRows
<1>6. card' = [card EXCEPT ![c] = x] /\ card'[c] = x
  BY <1>1, <1>2, <1>4 DEF SaveSerial
<1>7. PICK q : q = [r EXCEPT !.cards[c] = x, !.minted = TRUE, !.got = 0]
  OBVIOUS
<1>8. n = ToTransfer(q)
  BY <1>1, <1>6, <1>7 DEF SaveSerial
<1>9. q \in Requests /\ q.op = r.op /\ q.card = r.card /\ q.venue = r.venue /\ q.row = r.row
      /\ q.progs = r.progs /\ q.cards[c] = x
  BY <1>1, <1>5, <1>7 DEF Requests
<1>10. Pointed(c)'
  <2>1. TrueAt(c, k)'
    BY <1>1, <1>3, TrueStays DEF MirrorInv
  <2>2. card'[c].serial = k
    BY <1>5, <1>6
  <2>. QED
    BY <1>3, <2>1, <2>2 DEF Pointed
<1>11. Card(q) = card'[c]
  BY <1>1, <1>6, <1>9 DEF Card
<1>12. Serviced(q, c)'
  BY <1>1, <1>3, <1>9, <1>10, <1>11, ServedOn
<1>. QED
  BY <1>8, <1>12, ServicesAfter DEF Services

LEMMA Transferring ==
    ASSUME MirrorInv, [Next]_vars, Smooth', NEW c \in Cards, VenueOf(c) \notin Retired,
           NEW w \in Sessions, NEW r, req[w] = r, Serves(r, c), Underway(r), TransferCard(w),
           NEW n, n = req'[w]
    PROVE  After(n, c)'
<1>1. /\ r \in Requests /\ req \in [Sessions -> Requests]
      /\ failed' # failed + 1 /\ faults' # faults + 1 /\ Smooth
      /\ r.card = c /\ Card(r) = card[c] /\ SameIds(Program(r), prog[VenueOf(c)]) /\ Placed(r)
      /\ r.venue = VenueOf(c) /\ Busy(w)
  BY Unfailing DEF MirrorInv, IInv, ReqsOK
<1>2. IInv /\ Alone /\ HeldInv /\ HandedOver
  BY DEF MirrorInv
<1>3. /\ UNCHANGED db /\ r.step = "transfer"
      /\ \/ /\ req' = [req EXCEPT ![w] = NftDone(r)]
            /\ ~ \E t \in DOMAIN nfts : \E k \in DOMAIN nfts[t] :
                     t = Program(r).token /\ k = Card(r).serial /\ nfts[t][k].holder = 0
         \/ req' = [req EXCEPT ![w] = At(r, "holder")]
  <2>1. /\ UNCHANGED <<db, tokens, topics, accounts, log, extra>> /\ r.step = "transfer"
        /\ \/ /\ UNCHANGED nfts /\ req' = [req EXCEPT ![w] = NftDone(r)]
              /\ \/ failed' = failed + 1 /\ UNCHANGED faults
                 \/ /\ UNCHANGED <<failed, faults>>
                    /\ ~ \E t \in DOMAIN nfts : \E k \in DOMAIN nfts[t] :
                             t = Program(r).token /\ k = Card(r).serial /\ nfts[t][k].holder = 0
           \/ \E t \in DOMAIN nfts : \E k \in DOMAIN nfts[t] :
                  /\ t = Program(r).token /\ k = Card(r).serial /\ nfts[t][k].holder = 0
                  /\ NftBecomes(t, k, [nfts[t][k] EXCEPT !.holder = r.account])
                  /\ \/ UNCHANGED <<failed, faults>> /\ req' = [req EXCEPT ![w] = At(r, "holder")]
                     \/ faults' = faults + 1 /\ UNCHANGED failed /\ req' = [req EXCEPT ![w] = NftDone(r)]
    BY <1>2, TransferEffect
  <2>. QED
    BY <1>1, <2>1
<1>4. card[c].serial # 0 /\ card[c].holder = 0
  BY <1>1, <1>3 DEF Placed
<1>5. PICK t, k : t = prog[VenueOf(c)].token /\ k = card[c].serial
  OBVIOUS
<1>6. t \in DOMAIN nfts /\ k \in DOMAIN nfts[t] /\ nfts[t][k].card = c
  BY <1>2, <1>4, <1>5 DEF HeldInv, SerialsResolve, InCollection
<1>7. nfts[t][k].holder = 0
  <2>1. ASSUME NEW s \in Sessions, req[s].step = "holder", req[s].card = c PROVE FALSE
    <3>1. PICK x \in Requests : req[s] = x /\ Sound(x)
      BY <1>2, Suspended DEF IInv
    <3>2. Busy(s) /\ req[s].venue = VenueOf(c)
      BY <2>1, <3>1 DEF Busy, Sound, Reached, CardSteps, NftSteps, OnCard
    <3>3. s = w
      BY <1>1, <1>2, <3>2, OnlyHere
    <3>. QED
      BY <1>3, <2>1, <3>3
  <2>. QED
    BY <1>1, <1>2, <1>4, <1>6, <2>1 DEF HandedOver, Owned
<1>8. n = At(r, "holder")
  BY <1>1, <1>3, <1>5, <1>6, <1>7 DEF SameIds
<1>9. Goes(n, r) /\ n.step = "holder"
  BY <1>1, <1>8, AtGoes
<1>10. Serviced(r, c)'
  BY <1>1, <1>3, SameServed DEF db
<1>. QED
  BY <1>9, <1>10, ServicesAfter DEF Services, NftSteps

LEMMA HolderSaving ==
    ASSUME MirrorInv, [Next]_vars, Smooth', NEW c \in Cards, VenueOf(c) \notin Retired,
           NEW w \in Sessions, NEW r, req[w] = r, Serves(r, c), Underway(r), SaveHolder(w),
           NEW n, n = req'[w]
    PROVE  After(n, c)'
<1>1. /\ r \in Requests /\ req \in [Sessions -> Requests] /\ card \in [Cards -> CardRows]
      /\ r.card = c /\ Sound(r) /\ ~FilingAt(c) /\ (r.minted => Pointed(c)')
      /\ r.cards \in [Cards -> CardRows \cup {None}]
  BY Unfailing DEF MirrorInv, IInv, ReqsOK, DbOK, CardsOK, Requests
<1>2. PICK a : a = r.account
  OBVIOUS
<1>3. a \in Nat \ {0} /\ r.step = "holder" /\ UNCHANGED prog
  BY <1>1, <1>2 DEF SaveHolder, Sound, Reached, Requests
<1>4. PICK x : x = [card[c] EXCEPT !.holder = a]
  OBVIOUS
<1>5. x \in CardRows /\ x.holder = a
  BY <1>1, <1>3, <1>4 DEF CardRows
<1>6. card' = [card EXCEPT ![c] = x] /\ card'[c] = x
  BY <1>1, <1>2, <1>4 DEF SaveHolder
<1>7. PICK q : q = [r EXCEPT !.cards[c] = x]
  OBVIOUS
<1>8. n = NftDone(q)
  BY <1>1, <1>6, <1>7 DEF SaveHolder
<1>9. q \in Requests /\ q.op = r.op /\ q.card = r.card /\ q.venue = r.venue /\ q.row = r.row
      /\ q.progs = r.progs /\ q.cards[c] = x /\ q.minted = r.minted
  BY <1>1, <1>5, <1>7 DEF Requests
<1>10. Card(q) = card'[c]
  BY <1>1, <1>6, <1>9 DEF Card
<1>11. Serviced(q, c)'
  BY <1>1, <1>3, <1>9, <1>10, ServedOn
<1>12. Handed(c)'
  BY <1>3, <1>5, <1>6 DEF Handed
<1>. QED
  BY <1>8, <1>11, <1>12, ServicesAfter DEF Services

LEMMA Submitting ==
    ASSUME MirrorInv, [Next]_vars, Smooth', NEW c \in Cards, VenueOf(c) \notin Retired,
           NEW w \in Sessions, NEW r, req[w] = r, Serves(r, c), Underway(r), Submit(w),
           NEW n, n = req'[w]
    PROVE  After(n, c)'
<1>1. /\ r \in Requests /\ req \in [Sessions -> Requests]
      /\ failed' # failed + 1 /\ faults' # faults + 1
      /\ r.card = c /\ Sound(r) /\ SameIds(Program(r), prog[VenueOf(c)]) /\ VenueOf(c) \in Venues
      /\ (r.step \in Publishing => Handed(c)')
  BY Unfailing DEF MirrorInv, IInv, ReqsOK
<1>2. UNCHANGED <<prog, card>> /\ r.step = "submit"
  BY DEF Submit, db
<1>3. PICK k : k = Len(log[Program(r).topic]) + 1
  OBVIOUS
<1>4. k \in Nat \ {0}
  <2>1. /\ \A v \in Venues : prog[v].topic # 0 => prog[v].topic \in DOMAIN topics
        /\ log \in Seq(Seq(Messages)) /\ Len(log) = Len(topics) /\ topics \in Seq(Venues)
    BY DEF MirrorInv, IInv, NetworkOK, DbOK, ProgramsOK, GoodProgram
  <2>2. Program(r).topic # 0
    BY <1>1, <1>2 DEF Sound, Reached
  <2>3. PICK t : t = Program(r).topic
    OBVIOUS
  <2>4. t \in DOMAIN log
    BY <1>1, <2>1, <2>2, <2>3 DEF SameIds
  <2>5. log[t] \in Seq(Messages)
    BY <2>1, <2>4
  <2>. QED
    BY <1>3, <2>3, <2>5
<1>5. PICK q : q = [r EXCEPT !.seq = k]
  OBVIOUS
<1>6. n = ToMetadata(q)
  BY <1>1, <1>3, <1>5 DEF Submit, Call
<1>7. q \in Requests /\ q.op = r.op /\ q.card = r.card /\ q.venue = r.venue /\ q.row = r.row
      /\ q.progs = r.progs /\ q.cards = r.cards /\ q.minted = r.minted /\ q.seq = k
  BY <1>1, <1>4, <1>5 DEF Requests
<1>8. Serviced(q, c)'
  BY <1>2, <1>7, SameServed
<1>9. Handed(c)'
  BY <1>1, <1>2 DEF Publishing
<1>. QED
  BY <1>4, <1>6, <1>7, <1>8, <1>9, ServicesAfter DEF Services

LEMMA Repointing ==
    ASSUME MirrorInv, [Next]_vars, Smooth', NEW c \in Cards, VenueOf(c) \notin Retired,
           NEW w \in Sessions, NEW r, req[w] = r, Serves(r, c), Underway(r), UpdateMetadata(w),
           NEW n, n = req'[w]
    PROVE  After(n, c)'
<1>1. /\ r \in Requests /\ req \in [Sessions -> Requests] /\ card \in [Cards -> CardRows]
      /\ failed' # failed + 1 /\ faults' # faults + 1 /\ ~FilingAt(c)
      /\ r.card = c /\ Card(r) = card[c] /\ SameIds(Program(r), prog[VenueOf(c)])
      /\ (r.step \in Publishing => Handed(c) /\ Handed(c)')
  BY Unfailing DEF MirrorInv, IInv, ReqsOK, DbOK, CardsOK
<1>2. IInv /\ Alone /\ HeldInv /\ nfts \in Seq(Seq(Nfts))
  BY DEF MirrorInv, IInv, NetworkOK
<1>3. r.step = "metadata" /\ req' = [req EXCEPT ![w] = ToProof(r)]
  BY DEF UpdateMetadata, Repoint, Call
<1>4. UNCHANGED <<prog, card, rows>>
  BY DEF UpdateMetadata, Repoint, db
<1>5. Serviced(r, c)'
  BY <1>1, <1>4, SameServed
<1>6. ASSUME HasPunch(c)' PROVE card'[c].holder # 0 /\ Pointed(c)'
  <2>1. HasPunch(c)
    BY <1>4, <1>6 DEF HasPunch
  <2>2. card[c].holder # 0 /\ card[c].serial # 0
    BY <1>1, <1>2, <1>3, <2>1 DEF Handed, Publishing, HeldInv, SerialsResolve
  <2>3. PICK t, k : t = prog[VenueOf(c)].token /\ k = card[c].serial
    OBVIOUS
  <2>4. k \in Nat \ {0} /\ t # 0 /\ t \in DOMAIN nfts /\ k \in DOMAIN nfts[t] /\ nfts[t][k].card = c
    BY <1>1, <1>2, <2>2, <2>3 DEF HeldInv, SerialsResolve, InCollection, CardRows
  <2>5. PICK y : y = [nfts[t][k] EXCEPT !.meta = Version(r)]
    OBVIOUS
  <2>6. NftBecomes(t, k, y)
    <3>1. t = Program(r).token /\ k = Card(r).serial
      BY <1>1, <2>3 DEF SameIds
    <3>2. \E j \in DOMAIN nfts : \E i \in DOMAIN nfts[j] :
              /\ j = Program(r).token /\ i = Card(r).serial
              /\ NftBecomes(j, i, [nfts[j][i] EXCEPT !.meta = Version(r)])
      BY <1>1, <1>2, <2>4, <3>1, RepointEffect
    <3>. QED
      BY <2>5, <3>1, <3>2
  <2>7. y.card = c /\ y.meta = Progress(c)'
    <3>1. nfts[t][k] \in Nfts
      BY <1>2, <2>4
    <3>. QED
      BY <1>1, <1>4, <2>4, <2>5, <3>1 DEF Nfts, Version, Progress
  <2>8. t \in DOMAIN nfts' /\ k \in DOMAIN nfts'[t] /\ nfts'[t][k] = y
    BY <2>4, <2>6 DEF NftBecomes
  <2>9. TrueAt(c, k)'
    BY <1>4, <2>3, <2>4, <2>7, <2>8 DEF TrueAt, InCollection, VenueOf
  <2>. QED
    BY <1>4, <2>2, <2>3, <2>4, <2>9 DEF Pointed
<1>7. Shown(c)'
  BY <1>6 DEF Shown
<1>8. r.row # 0 => r.seq # 0
  BY <1>3 DEF Underway
<1>9. n = ToProof(r)
  BY <1>1, <1>3
<1>. QED
  BY <1>5, <1>7, <1>8, <1>9, ServicesAfter DEF Services

LEMMA ProofWriting ==
    ASSUME MirrorInv, [Next]_vars, Smooth', NEW c \in Cards,
           NEW w \in Sessions, NEW r, req[w] = r, Serves(r, c), Underway(r), WriteProof(w),
           NEW n, n = req'[w]
    PROVE  After(n, c)'
<1>1. r \in Requests /\ req \in [Sessions -> Requests] /\ ~FilingAt(c) /\ r.card = c /\ r.op \in Serving
  BY Unfailing DEF MirrorInv, IInv, ReqsOK
<1>2. IInv /\ Alone /\ HeldInv
  BY DEF MirrorInv
<1>3. /\ r.step = "proof" /\ r.seq # 0 /\ DOMAIN rows' = DOMAIN rows
      /\ \A i \in DOMAIN rows : rows'[i].card = rows[i].card
                                /\ rows'[i].seq = IF i = r.row THEN r.seq ELSE rows[i].seq
  BY <1>2, ProofEffect
<1>4. n = Idle
  BY <1>1 DEF WriteProof, Ended, Serving
<1>5. Published(c, 0)'
  BY <1>1, <1>3 DEF Underway, Published
<1>6. Shown(c)'
  BY <1>1, <1>2, <1>3, MirrorStays DEF Underway
<1>. QED
  BY <1>4, <1>5, <1>6 DEF After, Exact
-----------------------------------------------------------------------------
(* The beginnings of a request that serves a card                          *)

\* A row is filed of a card whose mirror is exact.
LEMMA FiledServed ==
    ASSUME MirrorInv, [Next]_vars, Smooth', NEW c \in Cards, VenueOf(c) \notin Retired, Exact(c),
           NEW w \in Sessions, NEW r, req[w] = r, Filing(w), r.card = c,
           NEW x, x = card'[c], NEW i, i = Len(rows'), NEW q, q = [r EXCEPT !.cards[c] = x, !.row = i]
    PROVE  Serviced(q, c)'
<1>1. /\ IInv /\ Alone /\ HeldInv /\ InOrder /\ Prepared
  BY DEF MirrorInv
<1>2. /\ r \in Requests /\ Sound(r) /\ Copies(r, prog, card) /\ Orderly(r)
      /\ r.cards \in [Cards -> CardRows \cup {None}]
  BY <1>1, Held DEF InOrder, Requests
<1>3. r.op \in Serving /\ r.step = "file" /\ r.venue = VenueOf(c) /\ UNCHANGED prog
  BY <1>1, FilersServe DEF Filing, FilePunch, FileRedemption
<1>4. ~r.minted /\ VenueOf(c) \in Venues /\ SameIds(Program(r), prog[VenueOf(c)])
  BY <1>2, <1>3 DEF Orderly, Sound, Reached, OnVenue, Copies, Program
<1>5. Smooth /\ ReferencesStay /\ SerialsResolve'
  BY <1>1, SmoothStep, ReferencesSettled, SerialsResolveNext
<1>6. PICK v \in Venues : v = VenueOf(c)
  BY <1>4
<1>7. Ready(v)'
  <2>1. Ready(v)
    BY <1>1, <1>3, <1>5, <1>6 DEF Prepared
  <2>. QED
    BY <1>5, <2>1, ReadyStays
<1>8. PICK y : y = NewRow(w)
  OBVIOUS
<1>9. /\ i \in Nat /\ DOMAIN rows' = DOMAIN rows \cup {i} /\ i \notin DOMAIN rows
      /\ \A j \in DOMAIN rows : rows'[j] = rows[j]
  <2>1. /\ DOMAIN rows' = DOMAIN rows \cup {Len(rows) + 1} /\ Len(rows') = Len(rows) + 1
        /\ \A j \in DOMAIN rows : rows'[j] = rows[j]
    BY <1>1, <1>8, FileEffect DEF Filing
  <2>2. rows \in Seq(MirrorRows)
    BY <1>1 DEF IInv, DbOK, RowsOK
  <2>. QED
    BY <2>1, <2>2
<1>10. Published(c, i)'
  BY <1>9 DEF Exact, Published
<1>11. x \in CardRows
  BY <1>1, NextSound DEF IInv, DbOK, CardsOK
<1>12. q \in Requests /\ q.op = r.op /\ q.card = c /\ q.venue = r.venue /\ q.row = i
       /\ q.progs = r.progs /\ q.cards[c] = x /\ q.minted = r.minted
  BY <1>2, <1>9, <1>11 DEF Requests
<1>13. SameIds(Program(q), prog'[v]) /\ Card(q) = card'[c]
  BY <1>3, <1>4, <1>6, <1>12 DEF Program, Card, SameIds
<1>14. card'[c].holder # 0 => card'[c].serial # 0
  BY <1>5 DEF SerialsResolve
<1>. QED
  BY <1>3, <1>4, <1>6, <1>7, <1>10, <1>12, <1>13, <1>14 DEF Serviced, VenueOf

LEMMA FilingServes ==
    ASSUME MirrorInv, [Next]_vars, Smooth', NEW c \in Cards, VenueOf(c) \notin Retired, Exact(c),
           NEW w \in Sessions, NEW r, req[w] = r, Filing(w), r.card = c, NEW n, n = req'[w]
    PROVE  After(n, c)'
<1>1. req \in [Sessions -> Requests] /\ IInv /\ Alone
  BY DEF MirrorInv, IInv, ReqsOK
<1>2. PICK x, i, q : x = card'[c] /\ i = Len(rows') /\ q = [r EXCEPT !.cards[c] = x, !.row = i]
  OBVIOUS
<1>3. Serviced(q, c)'
  BY <1>2, FiledServed
<1>4. CASE FilePunch(w)
  <2>1. n = ToNft(q)
    BY <1>1, <1>2, <1>4 DEF FilePunch
  <2>. QED
    BY <1>3, <2>1, ServicesAfter DEF Services
<1>5. CASE FileRedemption(w)
  <2>1. n = ToSubmit(q)
    BY <1>1, <1>2, <1>5 DEF FileRedemption
  <2>2. HasPunch(c)' => HasPunch(c)
    <3>1. PICK y : y = NewRow(w)
      OBVIOUS
    <3>2. /\ DOMAIN rows' = DOMAIN rows \cup {Len(rows) + 1} /\ rows'[Len(rows) + 1] = y
          /\ \A j \in DOMAIN rows : rows'[j] = rows[j]
          /\ y.kind = "redeem"
      BY <1>1, <1>5, <3>1, FileEffect DEF FileRedemption
    <3>. QED
      BY <3>2 DEF HasPunch
  <2>3. Handed(c)'
    BY <1>1, <2>2, ReferencesSettled DEF Exact, Shown, Handed, ReferencesStay
  <2>. QED
    BY <1>3, <2>1, <2>3, ServicesAfter DEF Services
<1>. QED
  BY <1>4, <1>5 DEF Filing

LEMMA RecountServes ==
    ASSUME MirrorInv, [Next]_vars, Smooth', NEW c \in Cards, VenueOf(c) \notin Retired, Exact(c),
           NEW w \in Sessions, Recount(w, c), NEW n, n = req'[w]
    PROVE  After(n, c)'
<1>1. /\ req \in [Sessions -> Requests] /\ IInv /\ Alone /\ HeldInv /\ Prepared
  BY DEF MirrorInv, IInv, ReqsOK
<1>2. PICK v \in Venues : v = VenueOf(c)
  BY DEF VenueOf, Cards
<1>3. UNCHANGED <<prog, card, rows, nfts>> /\ HasPunch(c)
  BY DEF Recount, db, network
<1>4. Smooth /\ ReferencesStay /\ SerialsResolve'
  BY <1>1, SmoothStep, ReferencesSettled, SerialsResolveNext
<1>5. Ready(v)'
  <2>1. Ready(v)
    BY <1>1, <1>2, <1>3, <1>4 DEF Prepared, Used, HasPunch
  <2>. QED
    BY <1>4, <2>1, ReadyStays
<1>6. PICK b : b = Bare("recount", "idle", v, c)
  OBVIOUS
<1>7. /\ b \in Requests /\ b.op = "recount" /\ b.venue = v /\ b.card = c /\ b.row = 0 /\ ~b.minted
      /\ b.progs = [u \in Venues |-> None] /\ b.cards = [d \in Cards |-> None]
  BY <1>6 DEF Bare, Requests, Ops, Steps, Phases
<1>8. Copies(b, prog, card)
  BY <1>7 DEF Copies
<1>9. PICK q : q = Load(b, v, c)
  OBVIOUS
<1>10. /\ q \in Requests /\ Copies(q, prog, card) /\ q.op = b.op /\ q.venue = b.venue /\ q.card = b.card
       /\ q.row = b.row /\ q.minted = b.minted /\ q.progs[v] # None /\ (c # None => q.cards[c] # None)
  BY <1>1, <1>2, <1>7, <1>8, <1>9, LoadCopies
<1>11. c # None
  BY LedgerNone DEF Cards
<1>12. Card(q) = card'[c] /\ SameIds(Program(q), prog'[v])
  BY <1>3, <1>7, <1>10, <1>11 DEF Copies, Card, Program, SameIds
<1>13. Published(c, 0)'
  BY <1>3 DEF Exact, Published
<1>14. card'[c].holder # 0 => card'[c].serial # 0
  BY <1>4 DEF SerialsResolve
<1>15. q.op \in Serving /\ q.card = c /\ q.row = 0 /\ ~q.minted
  BY <1>7, <1>10 DEF Serving
<1>16. Serviced(q, c)'
  BY <1>2, <1>5, <1>10, <1>12, <1>13, <1>14, <1>15 DEF Serviced, VenueOf
<1>17. n = ToNft(q)
  BY <1>1, <1>2, <1>6, <1>9 DEF Recount
<1>. QED
  BY <1>16, <1>17, ServicesAfter DEF Services
-----------------------------------------------------------------------------
(* A card nobody serves is mirrored exactly                                *)

Unserved(c) == \A w \in Sessions : \A r \in Requests : req[w] = r => ~Serves(r, c)
ServedAt(c) ==
    /\ Unserved(c) => Exact(c)
    /\ \A w \in Sessions : \A r \in Requests : req[w] = r /\ Serves(r, c) => Underway(r)

\* While every call is answered: the card of a user with one account, at a venue
\* that has not left, is exact or seen to.
Served ==
    Smooth => \A c \in Cards : OneAccount(Owner(c)) /\ VenueOf(c) \notin Retired => ServedAt(c)

\* A step of the request that serves the card, or is about to.
Attends(w, c) ==
    \/ Proceed(w) /\ \E r \in Requests : req[w] = r /\ Serves(r, c)
    \/ Filing(w) /\ req[w].card = c
    \/ Recount(w, c)

LEMMA ServingStep ==
    ASSUME MirrorInv, [Next]_vars, Smooth', NEW c \in Cards, VenueOf(c) \notin Retired, OneAccount(Owner(c)),
           NEW w \in Sessions, NEW r, req[w] = r, Serves(r, c), Underway(r), Proceed(w),
           NEW n, n = req'[w]
    PROVE  After(n, c)'
<1>1. r.step \in NftSteps \cup Publishing
  BY DEF Serves
<1>2. \/ FindAccount(w) \/ CreateAccount(w) \/ KeepAccount(w) \/ MintCard(w) \/ SaveSerial(w)
      \/ TransferCard(w) \/ SaveHolder(w) \/ Submit(w) \/ UpdateMetadata(w) \/ WriteProof(w)
  BY <1>1 DEF Proceed, FilePunch, FileRedemption, CreateCollection, SaveToken, CreateTopic, SaveTopic,
     NextPhase, Pick, RefreshMetadata, NftSteps, Publishing
<1>3. CASE FindAccount(w)
  BY <1>3, AccountFound
<1>4. CASE CreateAccount(w)
  BY <1>4, AccountAsked
<1>5. CASE KeepAccount(w)
  BY <1>5, AccountKeeping
<1>6. CASE MintCard(w)
  BY <1>6, Minting
<1>7. CASE SaveSerial(w)
  BY <1>7, SerialSaving
<1>8. CASE TransferCard(w)
  BY <1>8, Transferring
<1>9. CASE SaveHolder(w)
  BY <1>9, HolderSaving
<1>10. CASE Submit(w)
  BY <1>10, Submitting
<1>11. CASE UpdateMetadata(w)
  BY <1>11, Repointing
<1>12. CASE WriteProof(w)
  BY <1>12, ProofWriting
<1>. QED
  BY <1>2, <1>3, <1>4, <1>5, <1>6, <1>7, <1>8, <1>9, <1>10, <1>11, <1>12

\* Where a card's server comes from.
LEMMA BeginsToServe ==
    ASSUME MirrorInv, [Next]_vars, Smooth', NEW c \in Cards, NEW t \in Sessions,
           NEW n, req'[t] = n, Serves(n, c), n # req[t]
    PROVE  Attends(t, c)
<1>1. IInv /\ Alone /\ InOrder /\ req \in [Sessions -> Requests]
  BY DEF MirrorInv, IInv, ReqsOK
<1>2. PICK r \in Requests : req[t] = r /\ Orderly(r)
  BY <1>1 DEF InOrder
<1>3. Proceed(t) \/ Arrive(t) \/ BeginReconcile(t)
  BY <1>1, SmoothStep, OwnStep
<1>4. ASSUME NEW q, NEW S, Takes(t, q, S)
      PROVE  n.op = q.op /\ n.card = q.card /\ n.step \in S /\ q.op \in Serving /\ q.card = c
  <2>1. PICK m : Onward(m, q, S) /\ req' = [req EXCEPT ![t] = m]
    BY <1>4 DEF Takes
  <2>2. m = n
    BY <1>1, <2>1
  <2>. QED
    BY <2>1, <2>2, IdlePlaced DEF Onward, Over, Parked, Goes, Serves, Serving
<1>5. CASE Proceed(t)
  <2>1. ~Quits(t)
    BY <1>1, IdlePlaced DEF Quits, Serves, Serving
  <2>2. r.op \in Serving /\ r.card = c
    BY <1>1, <1>2, <1>4, <1>5, <2>1, ProceedKeeps
  <2>3. CASE r.step = "file"
    <3>1. Filing(t)
      BY <1>2, <1>5, <2>3 DEF Filing, Proceed, CreateCollection, SaveToken, CreateTopic, SaveTopic,
         FindAccount, CreateAccount, KeepAccount, MintCard, SaveSerial, TransferCard, SaveHolder, Submit,
         UpdateMetadata, WriteProof, NextPhase, Pick, RefreshMetadata
    <3>. QED
      BY <1>2, <2>2, <3>1 DEF Attends
  <2>4. CASE r.step # "file"
    <3>1. Serves(r, c)
      BY <1>2, <2>2, <2>4 DEF Serves, Orderly
    <3>. QED
      BY <1>2, <1>5, <3>1 DEF Attends
  <2>. QED
    BY <2>3, <2>4
<1>6. CASE BeginReconcile(t)
  BY <1>1, <1>6, BeginReconcileOp DEF Serves, Serving
<1>7. CASE Arrive(t)
  <2>1. ASSUME NEW v \in Venues, OptIn(t, v) PROVE FALSE
    <3>1. \E q : Takes(t, q, {"token", "topic"}) /\ q.op = "optin"
      BY <1>1, <2>1, ArriveTakes
    <3>. QED
      BY <1>4, <3>1 DEF Serving
  <2>2. ASSUME NEW d \in Cards, NEW op \in {"punch", "redeem"}, Begin(t, op, d) PROVE FALSE
    <3>1. \E q : Takes(t, q, {"file"})
      BY <1>1, <2>2, ArriveTakes
    <3>2. n.step = "file"
      BY <1>4, <3>1
    <3>. QED
      BY <3>2 DEF Serves, NftSteps, Publishing
  <2>3. ASSUME NEW d \in Cards, Recount(t, d) PROVE d = c
    <3>1. \A e \in Cards : Recount(t, e) =>
             \E q : /\ Takes(t, q, {"account"} \cup Publishing) /\ q.op = "recount"
                    /\ q.venue = VenueOf(e) /\ q.row = 0 /\ q.seq = 0 /\ q.queue = {}
                    /\ q.card = e /\ ~q.minted
      BY <1>1, ArriveTakes
    <3>2. \E q, S : Takes(t, q, S) /\ q.card = d
      BY <2>3, <3>1
    <3>. QED
      BY <1>4, <3>2
  <2>. QED
    BY <1>7, <2>1, <2>2, <2>3 DEF Arrive, Attends
<1>. QED
  BY <1>3, <1>5, <1>6, <1>7

LEMMA AttendedWell ==
    ASSUME HostSerialises, MirrorInv, [Next]_vars, Smooth', NEW c \in Cards, VenueOf(c) \notin Retired,
           OneAccount(Owner(c)), ServedAt(c), NEW w \in Sessions, Attends(w, c), NEW n, n = req'[w]
    PROVE  /\ After(n, c)'
           /\ \A s \in Sessions \ {w} : req'[s] = req[s] /\ \A r \in Requests : req[s] = r => ~Serves(r, c)
<1>1. IInv /\ Alone /\ req \in [Sessions -> Requests]
  BY DEF MirrorInv, IInv, ReqsOK
<1>2. Proceed(w) \/ Arrive(w)
  BY DEF Attends, Filing, Proceed, Arrive
<1>3. \A s \in Sessions \ {w} : req'[s] = req[s]
  <2>1. PICK m : req' = [req EXCEPT ![w] = m]
    BY <1>1, <1>2, StepMakes DEF Makes, Becomes
  <2>. QED
    BY <1>1, <2>1
<1>4. ASSUME Busy(w), req[w].venue = VenueOf(c)
      PROVE  \A s \in Sessions \ {w} : \A r \in Requests : req[s] = r => ~Serves(r, c)
  BY <1>1, <1>4, AloneAtCard
<1>5. ASSUME Proceed(w), NEW r \in Requests, req[w] = r, Serves(r, c)
      PROVE  /\ After(n, c)'
             /\ \A s \in Sessions \ {w} : \A x \in Requests : req[s] = x => ~Serves(x, c)
  <2>1. Busy(w) /\ req[w].venue = VenueOf(c)
    BY <1>1, <1>5, ServingRecord
  <2>2. Underway(r)
    BY <1>5 DEF ServedAt
  <2>3. After(n, c)'
    BY <1>5, <2>2, ServingStep
  <2>. QED
    BY <1>4, <2>1, <2>3
<1>6. ASSUME Filing(w), req[w].card = c
      PROVE  /\ After(n, c)'
             /\ \A s \in Sessions \ {w} : \A r \in Requests : req[s] = r => ~Serves(r, c)
  <2>1. req[w].step = "file" /\ req[w].venue = VenueOf(c) /\ Busy(w)
    BY <1>1, <1>6, FilersServe DEF Busy
  <2>2. \A s \in Sessions \ {w} : \A r \in Requests : req[s] = r => ~Serves(r, c)
    BY <1>4, <2>1
  <2>3. Exact(c)
    BY <2>1, <2>2 DEF ServedAt, Unserved, Serves, NftSteps, Publishing
  <2>4. PICK r : req[w] = r /\ r.card = c
    BY <1>6
  <2>5. After(n, c)'
    BY <1>6, <2>3, <2>4, FilingServes
  <2>. QED
    BY <2>2, <2>5
<1>7. ASSUME Recount(w, c)
      PROVE  /\ After(n, c)'
             /\ \A s \in Sessions \ {w} : \A r \in Requests : req[s] = r => ~Serves(r, c)
  <2>1. VenueFree(VenueOf(c))
    BY <1>7 DEF Recount
  <2>2. ASSUME NEW s \in Sessions, NEW r \in Requests, req[s] = r, Serves(r, c) PROVE FALSE
    <3>1. Busy(s) /\ r.venue = VenueOf(c)
      BY <1>1, <2>2, ServingRecord
    <3>. QED
      BY <2>1, <2>2, <3>1 DEF VenueFree
  <2>3. Exact(c)
    BY <2>2 DEF ServedAt, Unserved
  <2>4. After(n, c)'
    BY <1>7, <2>3, RecountServes
  <2>. QED
    BY <2>2, <2>4
<1>. QED
  BY <1>3, <1>5, <1>6, <1>7 DEF Attends

LEMMA AccountsGrow ==
    ASSUME IInv, [Next]_vars, NEW u, OneAccount(u)' PROVE OneAccount(u)
<1>1. \A a \in DOMAIN accounts : a \in DOMAIN accounts' /\ accounts'[a] = accounts[a]
  <2>1. accounts \in Seq(Users)
    BY DEF IInv, NetworkOK
  <2>2. ASSUME NEW w \in Sessions, CreateAccount(w)
        PROVE  accounts' = accounts \/ \E x \in Users : accounts' = Append(accounts, x)
    <3>1. PICK r \in Requests : req[w] = r /\ Sound(r)
      BY Suspended DEF IInv
    <3>2. Owner(r.card) \in Users
      BY <2>2, <3>1 DEF CreateAccount, Sound, Reached, CardSteps, NftSteps, OnCard, Owner, Cards
    <3>. QED
      BY <2>2, <3>1, <3>2 DEF CreateAccount, Call
  <2>3. ASSUME NEW w \in Sessions,
               \/ CreateCollection(w) \/ CreateTopic(w) \/ MintCard(w) \/ TransferCard(w)
               \/ Submit(w) \/ UpdateMetadata(w) \/ RefreshMetadata(w)
        PROVE  accounts' = accounts
    BY <2>3 DEF CreateCollection, CreateTopic, MintCard, TransferCard, Submit, UpdateMetadata,
       RefreshMetadata, Repoint
  <2>4. accounts' = accounts \/ \E x \in Users : accounts' = Append(accounts, x)
    BY <2>2, <2>3, NetworkChangers DEF network
  <2>. QED
    BY <2>1, <2>4
<1>2. PICK S, T : S = {a \in DOMAIN accounts : accounts[a] = u} /\ T = {a \in DOMAIN accounts' : accounts'[a] = u}
  OBVIOUS
<1>3. S \subseteq T
  BY <1>1, <1>2
<1>4. IsFiniteSet(T)
  <2>1. IsFiniteSet(DOMAIN accounts')
    <3>1. DOMAIN accounts' = 1 .. Len(accounts') /\ Len(accounts') \in Nat
      BY NextSound DEF IInv, NetworkOK
    <3>. QED
      BY <3>1, FS_Interval
  <2>. QED
    BY <1>2, <2>1, FS_Subset
<1>5. Cardinality(S) <= Cardinality(T) /\ Cardinality(S) \in Nat /\ Cardinality(T) \in Nat
  BY <1>3, <1>4, FS_Subset, FS_CardinalityType
<1>6. Cardinality(T) <= 1
  BY <1>2 DEF OneAccount
<1>. QED
  BY <1>2, <1>5, <1>6 DEF OneAccount

LEMMA ServedNext == ASSUME HostSerialises, MirrorInv, Served, [Next]_vars PROVE Served'
<1>. SUFFICES ASSUME Smooth', NEW c \in Cards, OneAccount(Owner(c))', VenueOf(c) \notin Retired
              PROVE  ServedAt(c)'
  BY DEF Served, VenueOf
<1>1. IInv /\ Alone /\ HeldInv /\ req \in [Sessions -> Requests] /\ req' \in [Sessions -> Requests]
  BY NextSound DEF MirrorInv, IInv, ReqsOK
<1>2. OneAccount(Owner(c))
  <2>1. PICK u : u = Owner(c)
    OBVIOUS
  <2>2. OneAccount(u)'
    BY <2>1 DEF OneAccount, Owner
  <2>. QED
    BY <1>1, <2>1, <2>2, AccountsGrow
<1>3. ServedAt(c)
  BY <1>1, <1>2, SmoothStep DEF Served
<1>4. ASSUME NEW w \in Sessions, Attends(w, c) PROVE ServedAt(c)'
  <2>1. PICK n \in Requests : n = req'[w]
    BY <1>1
  <2>2. /\ After(n, c)'
        /\ \A s \in Sessions \ {w} : req'[s] = req[s] /\ \A r \in Requests : req[s] = r => ~Serves(r, c)
    BY <1>2, <1>3, <1>4, <2>1, AttendedWell
  <2>3. \A s \in Sessions \ {w} : \A r \in Requests : req'[s] = r => ~Serves(r, c)
    BY <2>2
  <2>4. CASE n = Idle /\ Exact(c)'
    <3>1. ~Serves(n, c)
      BY <2>4, IdlePlaced DEF Serves, Serving
    <3>2. \A s \in Sessions : \A r \in Requests : req'[s] = r => ~Serves(r, c)
      BY <2>1, <2>3, <3>1
    <3>. QED
      BY <2>4, <3>2 DEF ServedAt
  <2>5. CASE Serves(n, c) /\ Underway(n)'
    <3>1. ~Unserved(c)'
      BY <2>1, <2>5 DEF Unserved
    <3>2. ASSUME NEW s \in Sessions, NEW r \in Requests, req'[s] = r, Serves(r, c) PROVE Underway(r)'
      <4>1. s = w /\ r = n
        BY <2>1, <2>3, <3>2
      <4>. QED
        BY <2>5, <4>1
    <3>. QED
      BY <3>1, <3>2 DEF ServedAt
  <2>. QED
    BY <2>2, <2>4, <2>5 DEF After
<1>5. CASE \A w \in Sessions : ~Attends(w, c)
  <2>1. ~FilingAt(c)
    BY <1>5 DEF FilingAt, Attends
  <2>2. ASSUME NEW t \in Sessions, NEW r \in Requests, req'[t] = r, Serves(r, c) PROVE Underway(r)'
    <3>1. req[t] = r
      BY <1>5, <2>2, BeginsToServe
    <3>2. Underway(r) /\ r.card = c
      BY <1>3, <2>2, <3>1 DEF ServedAt, Serves
    <3>. QED
      BY <1>1, <2>1, <3>2, UnderwayStays
  <2>3. ASSUME Unserved(c)' PROVE Exact(c)'
    <3>1. ASSUME NEW t \in Sessions, NEW r \in Requests, req[t] = r, Serves(r, c) PROVE FALSE
      <4>1. req'[t] # r
        BY <2>3, <3>1 DEF Unserved
      <4>2. Busy(t)
        BY <1>1, <3>1, ServingRecord
      <4>3. Proceed(t)
        BY <1>1, <3>1, <4>1, <4>2, SmoothStep, OwnStep DEF Arrive, OptIn, Begin, Recount, BeginReconcile
      <4>. QED
        BY <1>5, <3>1, <4>3 DEF Attends
    <3>2. Exact(c)
      BY <1>3, <3>1 DEF ServedAt, Unserved
    <3>3. Published(c, 0)'
      BY <1>1, <2>1, <3>2, PublishedStays DEF Exact
    <3>4. Shown(c)'
      BY <1>1, <2>1, <3>2, MirrorStays DEF Exact
    <3>. QED
      BY <3>3, <3>4 DEF Exact
  <2>. QED
    BY <2>2, <2>3 DEF ServedAt
<1>. QED
  BY <1>4, <1>5

LEMMA InitServed == ASSUME Init PROVE KeepsOwn /\ InOrder /\ Prepared /\ HandedOver /\ Served
<1>1. \A w \in Sessions : req[w] = Idle
  BY DEF Init
<1>2. /\ Idle.step = "idle" /\ Idle.op \notin Serving /\ \A c : ~Serves(Idle, c)
  BY IdlePlaced DEF Serves, Serving
<1>3. ASSUME NEW c \in Cards, VenueOf(c) \notin Retired
      PROVE  card[c].count = 0 /\ \A i \in DOMAIN rows : rows[i].card # c
  <2>1. card[c].count = 0
    BY <1>3 DEF Init
  <2>2. PICK old : /\ old = {d \in Cards : VenueOf(d) \in Retired}
                   /\ rows \in [1 .. Cardinality(old) -> {Punch(d, 1) : d \in old}]
    BY DEF Init, EarlierRows
  <2>3. ASSUME NEW i \in DOMAIN rows PROVE rows[i].card # c
    <3>1. rows[i] \in {Punch(d, 1) : d \in old}
      BY <2>2
    <3>2. PICK d \in old : rows[i] = Punch(d, 1)
      BY <3>1
    <3>. QED
      BY <1>3, <2>2, <3>2 DEF Punch
  <2>. QED
    BY <2>1, <2>3
<1>4. KeepsOwn
  BY <1>1, <1>2 DEF KeepsOwn
<1>5. InOrder
  BY <1>1, IdleOrderly DEF InOrder
<1>6. Prepared
  BY <1>1, <1>2, <1>3 DEF Prepared, Used, Init
<1>7. HandedOver
  BY DEF HandedOver, Init
<1>8. Served
  <2>1. ASSUME NEW c \in Cards, VenueOf(c) \notin Retired PROVE ServedAt(c)
    <3>1. Exact(c)
      BY <1>3, <2>1 DEF Exact, Published, Shown, HasPunch
    <3>. QED
      BY <1>1, <1>2, <3>1 DEF ServedAt
  <2>. QED
    BY <2>1 DEF Served
<1>. QED
  BY <1>4, <1>5, <1>6, <1>7, <1>8

LEMMA AlwaysServed == ASSUME HostSerialises PROVE Spec => [](MirrorInv /\ Served)
<1> DEFINE More == KeepsOwn /\ InOrder /\ Prepared /\ HandedOver /\ Served
<1>1. Init => More
  BY InitServed
<1>2. IInv /\ Alone /\ HeldInv /\ More /\ [Next]_vars => More'
  <2>. SUFFICES ASSUME IInv, Alone, HeldInv, More, [Next]_vars PROVE More'
    OBVIOUS
  <2>1. MirrorInv
    BY DEF MirrorInv
  <2>2. KeepsOwn' /\ InOrder'
    BY KeepsOwnNext, InOrderNext
  <2>3. Prepared' /\ HandedOver'
    BY PreparedNext, HandedOverNext
  <2>4. Served'
    BY <2>1, ServedNext
  <2>. QED
    BY <2>2, <2>3, <2>4
<1>3. IInv /\ Alone /\ HeldInv /\ More => MirrorInv /\ Served
  BY DEF MirrorInv
<1>. HIDE DEF More
<1>. QED
  BY <1>1, <1>2, <1>3, AlwaysAlone, AlwaysHeld, PTL DEF Spec

\* While every call is answered and no request dies, the mirror of a venue where
\* nothing is under way is exact (MirrorExact): no sequence of punches, recounts
\* and redemptions leaves a row unpublished, or a punched card that is not in its
\* user's hands, pointing at its progress.
THEOREM QuietVenuesAreExact == ASSUME HostSerialises PROVE Spec => []MirrorExact
<1>1. MirrorInv /\ Served => MirrorExact
  <2>. SUFFICES ASSUME MirrorInv, Served, failed = 0, faults = 0,
                       NEW c \in Cards, OneAccount(Owner(c)), VenueOf(c) \notin Retired,
                       \A w \in Sessions : Busy(w) => req[w].venue # VenueOf(c)
                PROVE  /\ \A i \in DOMAIN rows : rows[i].card = c => rows[i].seq # 0
                       /\ HasPunch(c) =>
                              /\ card[c].holder # 0
                              /\ nfts[prog[VenueOf(c)].token][card[c].serial].meta
                                     = <<card[c].cycle, card[c].count>>
    BY DEF MirrorExact
  <2>1. IInv /\ Alone
    BY DEF MirrorInv
  <2>2. Unserved(c)
    <3>1. ASSUME NEW w \in Sessions, NEW r \in Requests, req[w] = r, Serves(r, c) PROVE FALSE
      BY <2>1, <3>1, ServingRecord
    <3>. QED
      BY <3>1 DEF Unserved
  <2>3. Exact(c)
    BY <2>2 DEF Served, ServedAt, Smooth
  <2>4. \A i \in DOMAIN rows : i # 0
    BY <2>1 DEF IInv, DbOK, RowsOK
  <2>. QED
    BY <2>3, <2>4 DEF Exact, Published, Shown, Pointed, TrueAt, Progress
<1>. QED
  BY <1>1, AlwaysServed, PTL
=============================================================================
