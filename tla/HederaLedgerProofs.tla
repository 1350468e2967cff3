------------------------- MODULE HederaLedgerProofs -------------------------
(***************************************************************************)
(* What the mirror's references mean, for any number of users, venues and  *)
(* sessions, with any interleaving, failure, lost answer or crash: what a  *)
(* row of the database names exists on the network and was made for it.    *)
(*                                                                         *)
(* The invariant has three parts: the network only names users, venues and *)
(* cards there are; every row of the database is good; and so is every     *)
(* copy of a row, every id and every answer a request still holds.         *)
(***************************************************************************)
EXTENDS HederaLedger, SequenceTheorems, FiniteSetTheorems, TLAPS

\* An NFT of this serial was minted for card c in a collection of its venue.
Minted(c, k) ==
    \E t \in DOMAIN nfts : /\ k \in DOMAIN nfts[t] /\ nfts[t][k].card = c
                           /\ tokens[t] = VenueOf(c)

\* A message about row i has this number in a topic of the row's venue.
Said(i, k) ==
    \E t \in DOMAIN log : /\ k \in DOMAIN log[t] /\ log[t][k].row = i
                          /\ topics[t] = VenueOf(rows[i].card)

GoodProgram(p, v) ==
    /\ p \in ProgramRows
    /\ p.token # 0 => p.token \in DOMAIN tokens /\ tokens[p.token] = v
    /\ p.topic # 0 => p.topic \in DOMAIN topics /\ topics[p.topic] = v

GoodCard(x, c) ==
    /\ x \in CardRows
    /\ x.serial # 0 => Minted(c, x.serial)
    /\ x.holder # 0 => x.holder = account[Owner(c)]

NetworkOK ==
    /\ tokens \in Seq(Venues) /\ topics \in Seq(Venues) /\ accounts \in Seq(Users)
    /\ nfts \in Seq(Seq(Nfts)) /\ Len(nfts) = Len(tokens)
    /\ log \in Seq(Seq(Messages)) /\ Len(log) = Len(topics)
    /\ failed \in Nat /\ faults \in Nat /\ extra \in Nat

ProgramsOK == prog \in [Venues -> ProgramRows] /\ \A v \in Venues : GoodProgram(prog[v], v)
CardsOK == card \in [Cards -> CardRows] /\ \A c \in Cards : GoodCard(card[c], c)
AccountsOK ==
    /\ account \in [Users -> Nat]
    /\ \A u \in Users : account[u] # 0 => account[u] \in DOMAIN accounts /\ accounts[account[u]] = u
RowsOK == rows \in Seq(MirrorRows) /\ \A i \in DOMAIN rows : rows[i].seq # 0 => Said(i, rows[i].seq)

DbOK == ProgramsOK /\ CardsOK /\ AccountsOK /\ RowsOK
-----------------------------------------------------------------------------
(* Requests *)

\* What a request holds, whatever its step.
Holds(r) ==
    /\ r \in Requests
    /\ \A v \in Venues : r.progs[v] # None => GoodProgram(r.progs[v], v)
    /\ \A c \in Cards : r.cards[c] # None => GoodCard(r.cards[c], c)
    /\ r.row # 0 => r.row \in DOMAIN rows
    /\ r.row # 0 /\ r.seq # 0 => Said(r.row, r.seq)
    /\ r.touched \subseteq {c \in Cards : r.cards[c] # None}
    /\ r.phase = "programs" => r.work \subseteq {v \in Venues : r.progs[v] # None}
    /\ r.phase \in {"cards", "refresh"} => r.work \subseteq {c \in Cards : r.cards[c] # None}
    /\ r.phase \in {"punch", "redeem"} => r.work = {}
    /\ r.queue \subseteq DOMAIN rows

OnVenue(r) == r.venue \in Venues /\ r.progs[r.venue] # None
OnCard(r) ==
    /\ OnVenue(r) /\ r.card \in Cards /\ r.venue = VenueOf(r.card) /\ r.cards[r.card] # None
    /\ r.row # 0 => rows[r.row].card = r.card

VenueSteps == {"token", "savetoken", "topic", "savetopic"}
NftSteps == {"account", "create", "keep", "mint", "serial", "transfer", "holder"}
CardSteps == NftSteps \cup {"submit", "metadata", "proof", "refresh"}

\* What it has established by the step it is suspended at.
Reached(r) ==
    /\ r.step \in VenueSteps => OnVenue(r)
    /\ r.step = "file" => /\ OnVenue(r) /\ r.card \in Cards /\ r.venue = VenueOf(r.card)
                          /\ r.row = 0 /\ r.seq = 0
    /\ r.step = "pick" => r.row = 0 /\ r.seq = 0
    /\ r.step \in CardSteps => OnCard(r)
    /\ r.step = "savetoken" => r.got \in DOMAIN tokens /\ tokens[r.got] = r.venue
    /\ r.step = "savetopic" => r.got \in DOMAIN topics /\ topics[r.got] = r.venue
    /\ r.step \in NftSteps => Program(r).token # 0
    /\ r.step = "keep" => r.got \in DOMAIN accounts /\ accounts[r.got] = Owner(r.card)
    /\ r.step \in {"mint", "serial", "transfer", "holder"} =>
           r.account # 0 /\ r.account = account[Owner(r.card)]
    /\ r.step = "serial" => r.got # 0 /\ Minted(r.card, r.got)
    /\ r.step = "submit" => Program(r).topic # 0
    /\ r.step \in NftSteps \cup {"submit"} => r.seq = 0
    /\ r.step = "proof" => r.row # 0 /\ r.seq # 0

Sound(r) == Holds(r) /\ Reached(r)

\* r names the record a session holds, so that Sound is about the state alone.
ReqsOK ==
    /\ req \in [Sessions -> Requests]
    /\ \A w \in Sessions : \A r \in Requests : req[w] = r => Sound(r)

IInv == NetworkOK /\ DbOK /\ ReqsOK
-----------------------------------------------------------------------------
(* Where a request goes next: each operator leaves a sound request *)

LEMMA NoneIsNoRow == None \notin ProgramRows /\ None \notin CardRows
BY LedgerNoRow

LEMMA BareHolds ==
    ASSUME NEW op \in Ops, NEW step \in Steps,
           NEW v \in Venues \cup {None}, NEW c \in Cards \cup {None}
    PROVE  Holds(Bare(op, step, v, c))
BY DEF Bare, Holds, Requests, Phases

LEMMA IdleSound == Idle \in Requests /\ Sound(Idle)
<1>1. Holds(Idle)
  BY BareHolds DEF Idle, Ops, Steps
<1>2. Idle.step = "idle"
  BY DEF Idle, Bare
<1>. QED
  BY <1>1, <1>2 DEF Sound, Holds, Reached, VenueSteps, CardSteps, NftSteps

\* Only the step changes.
LEMMA AtHolds ==
    ASSUME NEW r, Holds(r), NEW step \in Steps
    PROVE  /\ Holds(At(r, step)) /\ At(r, step).step = step
           /\ OnVenue(r) => OnVenue(At(r, step)) /\ Program(At(r, step)) = Program(r)
           /\ OnCard(r) => OnCard(At(r, step)) /\ Card(At(r, step)) = Card(r)
           /\ At(r, step).venue = r.venue /\ At(r, step).card = r.card /\ At(r, step).row = r.row
           /\ At(r, step).seq = r.seq /\ At(r, step).account = r.account /\ At(r, step).got = r.got
BY DEF At, Holds, Requests, OnVenue, OnCard, Program, Card

LEMMA EndedSound ==
    ASSUME NEW r, Holds(r)
    PROVE  /\ Sound(Ended(r))
           /\ r.op = "reconcile" => Ended(r).step = "pick" /\ Ended(r).cards = r.cards
<1>1. CASE r.op # "reconcile"
  BY <1>1, IdleSound DEF Ended
<1>2. CASE r.op = "reconcile"
  <2> DEFINE b == Bare("reconcile", "pick", None, None)
             e == [b EXCEPT !.progs = r.progs, !.cards = r.cards, !.phase = r.phase,
                            !.work = r.work, !.queue = r.queue, !.touched = r.touched]
  <2>1. Ended(r) = e
    BY <1>2 DEF Ended
  <2>2. b \in Requests /\ b.row = 0 /\ b.seq = 0 /\ b.step = "pick"
    BY DEF Bare, Requests, Ops, Steps, Phases
  <2>3. /\ e \in Requests /\ e.row = 0 /\ e.seq = 0 /\ e.step = "pick"
        /\ e.progs = r.progs /\ e.cards = r.cards /\ e.phase = r.phase
        /\ e.work = r.work /\ e.queue = r.queue /\ e.touched = r.touched
    BY <2>2 DEF Holds, Requests
  <2>. HIDE DEF e
  <2>4. Holds(e)
    BY <2>3 DEF Holds
  <2>. QED
    BY <2>1, <2>3, <2>4 DEF Sound, Reached, VenueSteps, CardSteps, NftSteps
<1>. QED
  BY <1>1, <1>2

LEMMA TouchedSound ==
    ASSUME NEW r, Sound(r), r.step = "pick", NEW c \in Cards, r.cards[c] # None
    PROVE  Sound([r EXCEPT !.touched = @ \cup {c}])
<1> DEFINE q == [r EXCEPT !.touched = @ \cup {c}]
<1>1. /\ q \in Requests /\ q.progs = r.progs /\ q.cards = r.cards /\ q.row = r.row
      /\ q.seq = r.seq /\ q.phase = r.phase /\ q.work = r.work /\ q.queue = r.queue
      /\ q.touched = r.touched \cup {c} /\ q.step = "pick"
  BY DEF Sound, Holds, Requests
<1>. HIDE DEF q
<1>2. Holds(q)
  BY <1>1 DEF Sound, Holds
<1>3. Reached(q)
  BY <1>1 DEF Sound, Reached, VenueSteps, CardSteps, NftSteps
<1>. QED
  BY <1>2, <1>3 DEF Sound, q

LEMMA ToTopicSound ==
    ASSUME NEW r, Holds(r), OnVenue(r)
    PROVE  Sound(ToTopic(r))
<1>1. CASE Program(r).topic = 0
  <2>1. Holds(At(r, "topic")) /\ OnVenue(At(r, "topic")) /\ At(r, "topic").step = "topic"
    BY AtHolds DEF Steps
  <2>. QED
    BY <1>1, <2>1 DEF ToTopic, Sound, Reached, VenueSteps, CardSteps, NftSteps
<1>2. CASE Program(r).topic # 0
  BY <1>2, EndedSound DEF ToTopic
<1>. QED
  BY <1>1, <1>2

LEMMA ToTokenSound ==
    ASSUME NEW r, Holds(r), OnVenue(r)
    PROVE  Sound(ToToken(r))
<1>1. CASE Program(r).token = 0
  <2>1. Holds(At(r, "token")) /\ OnVenue(At(r, "token")) /\ At(r, "token").step = "token"
    BY AtHolds DEF Steps
  <2>. QED
    BY <1>1, <2>1 DEF ToToken, Sound, Reached, VenueSteps, CardSteps, NftSteps
<1>2. CASE Program(r).token # 0
  BY <1>2, ToTopicSound DEF ToToken
<1>. QED
  BY <1>1, <1>2

LEMMA ToProofSound ==
    ASSUME NEW r, Holds(r), OnCard(r)
    PROVE  Sound(ToProof(r))
<1>1. CASE r.row # 0 /\ r.seq # 0
  <2> DEFINE q == At(r, "proof")
  <2>1. Holds(q) /\ OnCard(q) /\ q.step = "proof" /\ q.row # 0 /\ q.seq # 0
    BY <1>1, AtHolds DEF Steps
  <2>. HIDE DEF q
  <2>2. Sound(q)
    BY <2>1 DEF Sound, Reached, VenueSteps, CardSteps, NftSteps
  <2>. QED
    BY <1>1, <2>2 DEF ToProof, q
<1>2. CASE ~(r.row # 0 /\ r.seq # 0)
  BY <1>2, EndedSound DEF ToProof
<1>. QED
  BY <1>1, <1>2

LEMMA ToMetadataSound ==
    ASSUME NEW r, Holds(r), OnCard(r)
    PROVE  Sound(ToMetadata(r))
<1> DEFINE q == At(r, "metadata")
<1>1. Holds(q) /\ OnCard(q) /\ q.step = "metadata"
  BY AtHolds DEF Steps
<1>. HIDE DEF q
<1>2. Sound(q)
  BY <1>1 DEF Sound, Reached, VenueSteps, CardSteps, NftSteps
<1>. QED
  BY <1>2, ToProofSound DEF ToMetadata, q

LEMMA ToSubmitSound ==
    ASSUME NEW r, Holds(r), OnCard(r), r.seq = 0
    PROVE  Sound(ToSubmit(r))
<1>1. CASE Program(r).topic # 0
  <2> DEFINE q == At(r, "submit")
  <2>1. Holds(q) /\ OnCard(q) /\ q.step = "submit" /\ q.seq = 0 /\ Program(q).topic # 0
    BY <1>1, AtHolds DEF Steps, OnCard
  <2>. HIDE DEF q
  <2>2. Sound(q)
    BY <2>1 DEF Sound, Reached, VenueSteps, CardSteps, NftSteps
  <2>. QED
    BY <1>1, <2>2 DEF ToSubmit, q
<1>2. CASE Program(r).topic = 0
  BY <1>2, ToMetadataSound DEF ToSubmit
<1>. QED
  BY <1>1, <1>2

LEMMA NftDoneSound ==
    ASSUME NEW r, Holds(r), OnCard(r), r.seq = 0
    PROVE  Sound(NftDone(r))
<1>1. CASE r.op = "reconcile"
  <2>1. Sound(Ended(r)) /\ Ended(r).step = "pick" /\ Ended(r).cards = r.cards
    BY <1>1, EndedSound
  <2>2. r.card \in Cards /\ r.cards[r.card] # None
    BY DEF OnCard
  <2>3. Sound([Ended(r) EXCEPT !.touched = @ \cup {r.card}])
    BY <2>1, <2>2, TouchedSound
  <2>4. [Ended(r) EXCEPT !.touched = @] = Ended(r)
    BY <2>1 DEF Sound, Holds, Requests
  <2>. QED
    BY <1>1, <2>1, <2>3, <2>4 DEF NftDone
<1>2. CASE r.op # "reconcile"
  <2>1. PICK q : q = [r EXCEPT !.account = 0]
    OBVIOUS
  <2>2. /\ q \in Requests /\ q.progs = r.progs /\ q.cards = r.cards /\ q.row = r.row
        /\ q.seq = r.seq /\ q.phase = r.phase /\ q.work = r.work /\ q.queue = r.queue
        /\ q.touched = r.touched /\ q.venue = r.venue /\ q.card = r.card
    BY <2>1 DEF Holds, Requests
  <2>3. Holds(q) /\ OnCard(q) /\ q.seq = 0
    BY <2>2 DEF Holds, OnCard, OnVenue
  <2>. QED
    BY <1>2, <2>1, <2>3, ToSubmitSound DEF NftDone
<1>. QED
  BY <1>1, <1>2

\* What ensure_card_nft holds once it has an account for the user.
HasAccount(r) ==
    /\ Holds(r) /\ OnCard(r) /\ r.seq = 0 /\ Program(r).token # 0
    /\ r.account # 0 /\ r.account = account[Owner(r.card)]

LEMMA AtNftStep ==
    ASSUME NEW r, HasAccount(r), NEW step \in {"mint", "transfer", "holder"}
    PROVE  Sound(At(r, step))
<1> DEFINE q == At(r, step)
<1>1. /\ Holds(q) /\ OnCard(q) /\ q.step = step /\ q.seq = 0 /\ Program(q).token # 0
      /\ q.account # 0 /\ q.account = account[Owner(q.card)]
  BY AtHolds DEF Steps, HasAccount, OnCard
<1>. HIDE DEF q
<1>2. Sound(q)
  BY <1>1 DEF Sound, Reached, VenueSteps, CardSteps, NftSteps
<1>. QED
  BY <1>2 DEF q

LEMMA ToTransferSound ==
    ASSUME NEW r, HasAccount(r)
    PROVE  Sound(ToTransfer(r))
BY AtNftStep, NftDoneSound DEF ToTransfer, HasAccount

LEMMA ToMintSound ==
    ASSUME NEW r, HasAccount(r)
    PROVE  Sound(ToMint(r))
BY AtNftStep, ToTransferSound DEF ToMint

LEMMA ToNftSound ==
    ASSUME NEW r, Holds(r), OnCard(r), r.seq = 0
    PROVE  Sound(ToNft(r))
<1>1. CASE Program(r).token # 0
  <2> DEFINE q == At(r, "account")
  <2>1. Holds(q) /\ OnCard(q) /\ q.step = "account" /\ q.seq = 0 /\ Program(q).token # 0
    BY <1>1, AtHolds DEF Steps, OnCard
  <2>. HIDE DEF q
  <2>2. Sound(q)
    BY <2>1 DEF Sound, Reached, VenueSteps, CardSteps, NftSteps
  <2>. QED
    BY <2>2, NftDoneSound DEF ToNft, q
<1>2. CASE Program(r).token = 0
  BY <1>2, NftDoneSound DEF ToNft
<1>. QED
  BY <1>1, <1>2
-----------------------------------------------------------------------------
(* What was good stays good: no step takes anything from the network,      *)
(* moves a row to another card, or gives a user another account            *)

Grows ==
    /\ \A t \in DOMAIN tokens : t \in DOMAIN tokens' /\ tokens'[t] = tokens[t]
    /\ \A t \in DOMAIN topics : t \in DOMAIN topics' /\ topics'[t] = topics[t]
    /\ \A a \in DOMAIN accounts : a \in DOMAIN accounts' /\ accounts'[a] = accounts[a]
    /\ \A t \in DOMAIN nfts : \A k \in DOMAIN nfts[t] :
           t \in DOMAIN nfts' /\ k \in DOMAIN nfts'[t] /\ nfts'[t][k].card = nfts[t][k].card
    /\ \A t \in DOMAIN log : \A k \in DOMAIN log[t] :
           t \in DOMAIN log' /\ k \in DOMAIN log'[t] /\ log'[t][k].row = log[t][k].row
    /\ \A i \in DOMAIN rows : i \in DOMAIN rows' /\ rows'[i].card = rows[i].card
    /\ \A u \in Users : account[u] # 0 => account'[u] = account[u]

LEMMA Appended ==
    ASSUME NEW S, NEW s \in Seq(S), NEW x \in S
    PROVE  /\ Append(s, x) \in Seq(S) /\ Len(Append(s, x)) = Len(s) + 1 /\ Len(s) + 1 \in Nat
           /\ \A i \in DOMAIN s : i \in DOMAIN Append(s, x) /\ Append(s, x)[i] = s[i]
           /\ Len(s) + 1 \in DOMAIN Append(s, x) /\ Append(s, x)[Len(s) + 1] = x
OBVIOUS

LEMMA SameDomains ==
    ASSUME NetworkOK PROVE DOMAIN nfts = DOMAIN tokens /\ DOMAIN log = DOMAIN topics
BY DEF NetworkOK

LEMMA MintedKept ==
    ASSUME NetworkOK, Grows, NEW c, NEW k, Minted(c, k) PROVE Minted(c, k)'
BY SameDomains DEF Minted, Grows

LEMMA SaidKept ==
    ASSUME NetworkOK, Grows, NEW i \in DOMAIN rows, NEW k, Said(i, k) PROVE Said(i, k)'
BY SameDomains DEF Said, Grows

LEMMA GoodProgramKept ==
    ASSUME Grows, NEW p, NEW v, GoodProgram(p, v) PROVE GoodProgram(p, v)'
BY DEF GoodProgram, Grows

LEMMA GoodCardKept ==
    ASSUME NetworkOK, Grows, NEW x, NEW c \in Cards, GoodCard(x, c) PROVE GoodCard(x, c)'
<1>1. Owner(c) \in Users
  BY DEF Cards, Owner
<1>2. x.serial # 0 => Minted(c, x.serial)'
  BY MintedKept DEF GoodCard
<1>. QED
  BY <1>1, <1>2 DEF GoodCard, Grows

LEMMA HoldsKept ==
    ASSUME NetworkOK, Grows, NEW r, Holds(r) PROVE Holds(r)'
<1>1. \A v \in Venues : r.progs[v] # None => GoodProgram(r.progs[v], v)'
  BY GoodProgramKept DEF Holds
<1>2. \A c \in Cards : r.cards[c] # None => GoodCard(r.cards[c], c)'
  BY GoodCardKept DEF Holds
<1>3. r.row # 0 /\ r.seq # 0 => Said(r.row, r.seq)'
  BY SaidKept DEF Holds
<1>4. DOMAIN rows \subseteq (DOMAIN rows)'
  BY DEF Grows
<1>. QED
  BY <1>1, <1>2, <1>3, <1>4 DEF Holds

LEMMA OnCardKept ==
    ASSUME Grows, NEW r, Holds(r), OnCard(r) PROVE OnCard(r)'
BY DEF Grows, Holds, OnCard, OnVenue

LEMMA SoundKept ==
    ASSUME NetworkOK, Grows, NEW r, Sound(r) PROVE Sound(r)'
<1>1. Holds(r)'
  BY HoldsKept DEF Sound
<1>2. r.step \in CardSteps => OnCard(r)'
  BY OnCardKept DEF Sound, Reached
<1>3. r.step \in NftSteps => r.card \in Cards /\ Owner(r.card) \in Users
  BY DEF Sound, Reached, OnCard, CardSteps, Cards, Owner
<1>4. r.step = "serial" => Minted(r.card, r.got)'
  BY MintedKept DEF Sound, Reached
<1>5. Reached(r)'
  <2>1. (r.step = "savetoken" => r.got \in DOMAIN tokens /\ tokens[r.got] = r.venue)'
    BY DEF Sound, Reached, Grows
  <2>2. (r.step = "savetopic" => r.got \in DOMAIN topics /\ topics[r.got] = r.venue)'
    BY DEF Sound, Reached, Grows
  <2>3. (r.step = "keep" => r.got \in DOMAIN accounts /\ accounts[r.got] = Owner(r.card))'
    BY DEF Sound, Reached, Grows
  <2>4. (r.step \in {"mint", "serial", "transfer", "holder"} =>
             r.account # 0 /\ r.account = account[Owner(r.card)])'
    BY <1>3 DEF Sound, Reached, Grows, NftSteps
  <2>. QED
    BY <1>2, <1>4, <2>1, <2>2, <2>3, <2>4 DEF Sound, Reached, OnVenue
<1>. QED
  BY <1>1, <1>5 DEF Sound

\* The step of one request leaves the others sound.
LEMMA OthersKept ==
    ASSUME NetworkOK, ReqsOK, Grows, NEW w \in Sessions, NEW q, Sound(q)',
           req' = [req EXCEPT ![w] = q]
    PROVE  ReqsOK'
<1>1. q \in Requests
  BY DEF Sound, Holds
<1>2. req' \in [Sessions -> Requests]
  BY <1>1 DEF ReqsOK
<1>3. ASSUME NEW s \in Sessions, NEW r \in Requests, req'[s] = r
      PROVE  Sound(r)'
  <2>1. CASE s = w
    BY <1>3, <2>1 DEF ReqsOK
  <2>2. CASE s # w
    <3>1. Sound(r)
      BY <1>3, <2>2 DEF ReqsOK
    <3>. QED
      BY <3>1, SoundKept
  <2>. QED
    BY <2>1, <2>2
<1>. QED
  BY <1>2, <1>3 DEF ReqsOK

LEMMA TablesKept ==
    ASSUME NetworkOK, Grows
    PROVE  /\ ProgramsOK /\ UNCHANGED prog => ProgramsOK'
           /\ CardsOK /\ UNCHANGED card => CardsOK'
           /\ AccountsOK /\ UNCHANGED account => AccountsOK'
           /\ RowsOK /\ UNCHANGED rows => RowsOK'
<1>1. ASSUME ProgramsOK, UNCHANGED prog PROVE ProgramsOK'
  BY <1>1 DEF ProgramsOK, GoodProgram, Grows
<1>2. ASSUME CardsOK, UNCHANGED card PROVE CardsOK'
  <2>1. ASSUME NEW c \in Cards PROVE GoodCard(card[c], c)'
    <3>1. PICK x : x = card[c]
      OBVIOUS
    <3>2. GoodCard(x, c)
      BY <1>2, <3>1 DEF CardsOK
    <3>3. GoodCard(x, c)' /\ x = card'[c]
      BY <1>2, <3>1, <3>2, GoodCardKept
    <3>. QED
      BY <3>3 DEF GoodCard, Minted
  <2>. QED
    BY <1>2, <2>1 DEF CardsOK
<1>3. ASSUME AccountsOK, UNCHANGED account PROVE AccountsOK'
  BY <1>3 DEF AccountsOK, Grows
<1>4. ASSUME RowsOK, UNCHANGED rows PROVE RowsOK'
  <2>1. ASSUME NEW i \in DOMAIN rows, rows[i].seq # 0 PROVE Said(i, rows[i].seq)'
    <3>1. PICK k : k = rows[i].seq
      OBVIOUS
    <3>2. Said(i, k)'
      BY <1>4, <2>1, <3>1, SaidKept DEF RowsOK
    <3>. QED
      BY <1>4, <3>1, <3>2 DEF Said
  <2>. QED
    BY <1>4, <2>1 DEF RowsOK
<1>. QED
  BY <1>1, <1>2, <1>3, <1>4

\* A step that touches neither the network nor the database.
LEMMA QuietStep ==
    ASSUME IInv, UNCHANGED <<db, network>>, {failed', faults', extra'} \subseteq Nat,
           NEW w \in Sessions, NEW q, Sound(q), req' = [req EXCEPT ![w] = q]
    PROVE  IInv'
<1>1. Grows
  BY DEF Grows, network, db
<1>2. NetworkOK'
  BY DEF IInv, NetworkOK, network
<1>3. DbOK'
  BY <1>1, TablesKept DEF IInv, DbOK, db
<1>4. Sound(q)'
  BY <1>1, SoundKept DEF IInv
<1>. QED
  BY <1>1, <1>2, <1>3, <1>4, OthersKept DEF IInv

\* A call to the network, whatever became of it and of its answer.
LEMMA CallStep ==
    ASSUME IInv, Grows, NetworkOK', UNCHANGED db,
           NEW w \in Sessions, NEW after, NEW otherwise, Sound(otherwise),
           \/ req' = [req EXCEPT ![w] = otherwise]
           \/ req' = [req EXCEPT ![w] = after] /\ Sound(after)'
    PROVE  IInv'
<1>1. DbOK'
  BY TablesKept DEF IInv, DbOK, db
<1>2. Sound(otherwise)'
  BY SoundKept DEF IInv
<1>. QED
  BY <1>1, <1>2, OthersKept DEF IInv
-----------------------------------------------------------------------------
(* The steps *)

\* The record a session holds, as a constant.
LEMMA Suspended ==
    ASSUME ReqsOK, NEW w \in Sessions PROVE \E r \in Requests : req[w] = r /\ Sound(r)
BY DEF ReqsOK

LEMMA CrashStep == ASSUME IInv, NEW w \in Sessions, Crash(w) PROVE IInv'
<1>1. UNCHANGED <<db, network>> /\ {failed', faults', extra'} \subseteq Nat
  BY DEF Crash, IInv, NetworkOK
<1>2. req' = [req EXCEPT ![w] = Idle]
  BY DEF Crash
<1>. QED
  BY <1>1, <1>2, QuietStep, IdleSound

LEMMA PauseStep == ASSUME IInv, NEW v \in Venues, Pause(v) PROVE IInv'
<1>1. Grows
  BY DEF Grows, Pause, network
<1>2. NetworkOK'
  BY DEF IInv, NetworkOK, network, Pause
<1>3. ProgramsOK'
  <2>1. prog' = [prog EXCEPT ![v].on = FALSE] /\ UNCHANGED <<tokens, topics>>
    BY DEF Pause, network
  <2>2. prog' \in [Venues -> ProgramRows]
    BY <2>1 DEF IInv, DbOK, ProgramsOK, ProgramRows
  <2>3. \A u \in Venues : prog'[u].token = prog[u].token /\ prog'[u].topic = prog[u].topic
    BY <2>1 DEF IInv, DbOK, ProgramsOK, ProgramRows
  <2>. QED
    BY <2>1, <2>2, <2>3 DEF IInv, DbOK, ProgramsOK, GoodProgram
<1>4. DbOK'
  BY <1>1, <1>3, TablesKept DEF IInv, DbOK, Pause
<1>5. ReqsOK'
  BY <1>1, SoundKept DEF IInv, ReqsOK, Pause
<1>. QED
  BY <1>2, <1>4, <1>5 DEF IInv

LEMMA OptInStep ==
    ASSUME IInv, NEW w \in Sessions, NEW v \in Venues, OptIn(w, v) PROVE IInv'
<1>1. Grows
  BY DEF Grows, OptIn, network
<1>2. NetworkOK'
  BY DEF IInv, NetworkOK, network, OptIn
<1>3. ProgramsOK' /\ GoodProgram(prog'[v], v)
  BY DEF IInv, DbOK, ProgramsOK, GoodProgram, ProgramRows, OptIn, network
<1>4. DbOK'
  BY <1>1, <1>3, TablesKept DEF IInv, DbOK, OptIn
<1>5. PICK p : p = prog'[v]
  OBVIOUS
<1>6. PICK q : q = [Bare("optin", "idle", v, None) EXCEPT !.progs[v] = p]
  OBVIOUS
<1>7. Holds(q) /\ OnVenue(q)
  <2>1. Holds(Bare("optin", "idle", v, None))
    BY BareHolds DEF Ops, Steps
  <2>2. p \in ProgramRows /\ p # None /\ GoodProgram(p, v)
    BY <1>3, <1>5, NoneIsNoRow DEF GoodProgram
  <2>. QED
    BY <1>6, <2>1, <2>2 DEF Holds, OnVenue, Bare, Requests
<1>8. Sound(ToToken(q))
  BY <1>7, ToTokenSound
<1>9. PICK n : n = ToToken(q)
  OBVIOUS
<1>10. Sound(n)' /\ req' = [req EXCEPT ![w] = n]
  BY <1>1, <1>5, <1>6, <1>8, <1>9, SoundKept DEF OptIn, IInv
<1>. QED
  BY <1>1, <1>2, <1>4, <1>10, OthersKept DEF IInv

LEMMA CreateCollectionStep ==
    ASSUME IInv, NEW w \in Sessions, CreateCollection(w) PROVE IInv'
<1>1. PICK r \in Requests : req[w] = r /\ Sound(r)
  BY Suspended DEF IInv
<1>2. Holds(r) /\ OnVenue(r) /\ r.venue \in Venues
  BY <1>1 DEF CreateCollection, Sound, Reached, VenueSteps, OnVenue
<1>3. /\ UNCHANGED <<prog, card, rows, account, topics, accounts, log, extra>>
      /\ {failed', faults'} \subseteq Nat
      /\ \/ tokens' = Append(tokens, r.venue) /\ nfts' = Append(nfts, <<>>)
         \/ UNCHANGED <<tokens, nfts>>
  BY <1>1 DEF CreateCollection, Call, IInv, NetworkOK, db
<1>4. /\ tokens \in Seq(Venues) /\ nfts \in Seq(Seq(Nfts)) /\ <<>> \in Seq(Nfts)
      /\ Len(tokens) + 1 \in Nat
  BY DEF IInv, NetworkOK
<1>5. Grows /\ NetworkOK'
  <2>1. CASE tokens' = Append(tokens, r.venue) /\ nfts' = Append(nfts, <<>>)
    <3>1. Grows
      BY <1>2, <1>3, <1>4, <2>1, Appended DEF Grows
    <3>2. tokens' \in Seq(Venues) /\ nfts' \in Seq(Seq(Nfts)) /\ Len(tokens') = Len(nfts')
      BY <1>2, <1>4, <2>1, Appended DEF IInv, NetworkOK
    <3>. QED
      BY <1>3, <3>1, <3>2 DEF IInv, NetworkOK
  <2>2. CASE UNCHANGED <<tokens, nfts>>
    BY <1>3, <2>2 DEF IInv, NetworkOK, Grows
  <2>. QED
    BY <1>3, <2>1, <2>2
<1>6. Sound(Ended(r))
  BY <1>2, EndedSound
<1>7. PICK n, q : n \in Nat /\ n = Len(tokens) + 1 /\ q = [At(r, "savetoken") EXCEPT !.got = n]
  BY <1>4
<1>8. /\ Holds(q) /\ q.step = "savetoken" /\ q.got = Len(tokens) + 1
      /\ q.venue = r.venue /\ q.progs = r.progs
  BY <1>2, <1>7 DEF At, Holds, Requests, Steps
<1>9. Holds(q)' /\ OnVenue(q)
  BY <1>2, <1>5, <1>8, HoldsKept DEF IInv, OnVenue
<1>10. ASSUME tokens' = Append(tokens, r.venue) PROVE Sound(q)'
  <2>1. q.got \in DOMAIN tokens' /\ tokens'[q.got] = q.venue
    BY <1>2, <1>4, <1>8, <1>10, Appended
  <2>. QED
    BY <1>8, <1>9, <2>1 DEF Sound, Reached, VenueSteps, CardSteps, NftSteps, OnVenue
<1>11. \/ req' = [req EXCEPT ![w] = Ended(r)]
       \/ req' = [req EXCEPT ![w] = q] /\ Sound(q)'
  BY <1>1, <1>7, <1>10 DEF CreateCollection, Call
<1>12. UNCHANGED db
  BY <1>3 DEF db
<1>. QED
  BY <1>5, <1>6, <1>11, <1>12, CallStep

LEMMA CreateTopicStep ==
    ASSUME IInv, NEW w \in Sessions, CreateTopic(w) PROVE IInv'
<1>1. PICK r \in Requests : req[w] = r /\ Sound(r)
  BY Suspended DEF IInv
<1>2. Holds(r) /\ OnVenue(r) /\ r.venue \in Venues
  BY <1>1 DEF CreateTopic, Sound, Reached, VenueSteps, OnVenue
<1>3. /\ UNCHANGED <<prog, card, rows, account, tokens, accounts, nfts, extra>>
      /\ {failed', faults'} \subseteq Nat
      /\ \/ topics' = Append(topics, r.venue) /\ log' = Append(log, <<>>)
         \/ UNCHANGED <<topics, log>>
  BY <1>1 DEF CreateTopic, Call, IInv, NetworkOK, db
<1>4. /\ topics \in Seq(Venues) /\ log \in Seq(Seq(Messages)) /\ <<>> \in Seq(Messages)
      /\ Len(topics) + 1 \in Nat
  BY DEF IInv, NetworkOK
<1>5. Grows /\ NetworkOK'
  <2>1. CASE topics' = Append(topics, r.venue) /\ log' = Append(log, <<>>)
    <3>1. Grows
      BY <1>2, <1>3, <1>4, <2>1, Appended DEF Grows
    <3>2. topics' \in Seq(Venues) /\ log' \in Seq(Seq(Messages)) /\ Len(topics') = Len(log')
      BY <1>2, <1>4, <2>1, Appended DEF IInv, NetworkOK
    <3>. QED
      BY <1>3, <3>1, <3>2 DEF IInv, NetworkOK
  <2>2. CASE UNCHANGED <<topics, log>>
    BY <1>3, <2>2 DEF IInv, NetworkOK, Grows
  <2>. QED
    BY <1>3, <2>1, <2>2
<1>6. Sound(Ended(r))
  BY <1>2, EndedSound
<1>7. PICK n, q : n \in Nat /\ n = Len(topics) + 1 /\ q = [At(r, "savetopic") EXCEPT !.got = n]
  BY <1>4
<1>8. /\ Holds(q) /\ q.step = "savetopic" /\ q.got = Len(topics) + 1
      /\ q.venue = r.venue /\ q.progs = r.progs
  BY <1>2, <1>7 DEF At, Holds, Requests, Steps
<1>9. Holds(q)' /\ OnVenue(q)
  BY <1>2, <1>5, <1>8, HoldsKept DEF IInv, OnVenue
<1>10. ASSUME topics' = Append(topics, r.venue) PROVE Sound(q)'
  <2>1. q.got \in DOMAIN topics' /\ topics'[q.got] = q.venue
    BY <1>2, <1>4, <1>8, <1>10, Appended
  <2>. QED
    BY <1>8, <1>9, <2>1 DEF Sound, Reached, VenueSteps, CardSteps, NftSteps, OnVenue
<1>11. \/ req' = [req EXCEPT ![w] = Ended(r)]
       \/ req' = [req EXCEPT ![w] = q] /\ Sound(q)'
  BY <1>1, <1>7, <1>10 DEF CreateTopic, Call
<1>12. UNCHANGED db
  BY <1>3 DEF db
<1>. QED
  BY <1>5, <1>6, <1>11, <1>12, CallStep

\* A program row that gains an id of its own venue stays good, and so does the
\* session's copy of it.
LEMMA ProgramSaved ==
    ASSUME IInv, NEW w \in Sessions, UNCHANGED <<card, rows, account, network, failed, faults, extra>>,
           NEW r, Holds(r), OnVenue(r), NEW p, GoodProgram(p, r.venue),
           prog' = [prog EXCEPT ![r.venue] = p],
           NEW q, q.progs = [r.progs EXCEPT ![r.venue] = p],
           q \in Requests, q.venue = r.venue, q.cards = r.cards, q.row = r.row, q.seq = r.seq,
           q.touched = r.touched, q.phase = r.phase, q.work = r.work, q.queue = r.queue
    PROVE  Grows /\ NetworkOK' /\ DbOK' /\ Holds(q) /\ OnVenue(q)
<1>1. Grows
  BY DEF Grows, network
<1>2. NetworkOK'
  BY DEF IInv, NetworkOK, network
<1>3. p \in ProgramRows /\ p # None
  BY NoneIsNoRow DEF GoodProgram
<1>4. ProgramsOK'
  BY <1>3 DEF IInv, DbOK, ProgramsOK, GoodProgram, network
<1>5. DbOK'
  BY <1>1, <1>4, TablesKept DEF IInv, DbOK
<1>6. r.progs \in [Venues -> ProgramRows \cup {None}]
  BY DEF Holds, Requests
<1>7. Holds(q) /\ OnVenue(q)
  BY <1>3, <1>6 DEF Holds, OnVenue
<1>. QED
  BY <1>1, <1>2, <1>5, <1>7

LEMMA SaveTokenStep ==
    ASSUME IInv, NEW w \in Sessions, SaveToken(w) PROVE IInv'
<1>1. PICK r \in Requests : req[w] = r /\ Sound(r)
  BY Suspended DEF IInv
<1>2. /\ Holds(r) /\ OnVenue(r) /\ r.venue \in Venues
      /\ r.got \in DOMAIN tokens /\ tokens[r.got] = r.venue
  BY <1>1 DEF SaveToken, Sound, Reached, VenueSteps, OnVenue
<1>3. PICK p : p = [prog[r.venue] EXCEPT !.token = r.got]
  OBVIOUS
<1>4. GoodProgram(p, r.venue) /\ prog' = [prog EXCEPT ![r.venue] = p] /\ p = prog'[r.venue]
  <2>1. prog \in [Venues -> ProgramRows] /\ GoodProgram(prog[r.venue], r.venue) /\ r.got \in Nat
    BY <1>2 DEF IInv, DbOK, ProgramsOK, Holds, Requests
  <2>2. p \in ProgramRows /\ p.token = r.got /\ p.topic = prog[r.venue].topic
    BY <1>2, <1>3, <2>1 DEF ProgramRows
  <2>3. prog' = [prog EXCEPT ![r.venue] = p]
    BY <1>1, <1>2, <1>3, <2>1 DEF SaveToken
  <2>. QED
    BY <1>2, <2>1, <2>2, <2>3 DEF GoodProgram
<1>5. PICK q : q = [r EXCEPT !.progs[r.venue] = p, !.got = 0]
  OBVIOUS
<1>6. /\ q.progs = [r.progs EXCEPT ![r.venue] = p]
      /\ q \in Requests /\ q.venue = r.venue /\ q.cards = r.cards /\ q.row = r.row /\ q.seq = r.seq
      /\ q.touched = r.touched /\ q.phase = r.phase /\ q.work = r.work /\ q.queue = r.queue
  BY <1>2, <1>4, <1>5 DEF GoodProgram, Requests
<1>7. Grows /\ NetworkOK' /\ DbOK' /\ Holds(q) /\ OnVenue(q)
  BY <1>2, <1>4, <1>6, ProgramSaved DEF SaveToken
<1>8. PICK n : n = ToTopic(q)
  OBVIOUS
<1>9. Sound(n)' /\ req' = [req EXCEPT ![w] = n]
  BY <1>1, <1>4, <1>5, <1>7, <1>8, ToTopicSound, SoundKept DEF SaveToken, IInv
<1>. QED
  BY <1>7, <1>9, OthersKept DEF IInv

LEMMA SaveTopicStep ==
    ASSUME IInv, NEW w \in Sessions, SaveTopic(w) PROVE IInv'
<1>1. PICK r \in Requests : req[w] = r /\ Sound(r)
  BY Suspended DEF IInv
<1>2. /\ Holds(r) /\ OnVenue(r) /\ r.venue \in Venues
      /\ r.got \in DOMAIN topics /\ topics[r.got] = r.venue
  BY <1>1 DEF SaveTopic, Sound, Reached, VenueSteps, OnVenue
<1>3. PICK p : p = [prog[r.venue] EXCEPT !.topic = r.got]
  OBVIOUS
<1>4. GoodProgram(p, r.venue) /\ prog' = [prog EXCEPT ![r.venue] = p] /\ p = prog'[r.venue]
  <2>1. prog \in [Venues -> ProgramRows] /\ GoodProgram(prog[r.venue], r.venue) /\ r.got \in Nat
    BY <1>2 DEF IInv, DbOK, ProgramsOK, Holds, Requests
  <2>2. p \in ProgramRows /\ p.topic = r.got /\ p.token = prog[r.venue].token
    BY <1>2, <1>3, <2>1 DEF ProgramRows
  <2>3. prog' = [prog EXCEPT ![r.venue] = p]
    BY <1>1, <1>2, <1>3, <2>1 DEF SaveTopic
  <2>. QED
    BY <1>2, <2>1, <2>2, <2>3 DEF GoodProgram
<1>5. PICK q : q = [r EXCEPT !.progs[r.venue] = p]
  OBVIOUS
<1>6. /\ q.progs = [r.progs EXCEPT ![r.venue] = p]
      /\ q \in Requests /\ q.venue = r.venue /\ q.cards = r.cards /\ q.row = r.row /\ q.seq = r.seq
      /\ q.touched = r.touched /\ q.phase = r.phase /\ q.work = r.work /\ q.queue = r.queue
  BY <1>2, <1>4, <1>5 DEF GoodProgram, Requests
<1>7. Grows /\ NetworkOK' /\ DbOK' /\ Holds(q) /\ OnVenue(q)
  BY <1>2, <1>4, <1>6, ProgramSaved DEF SaveTopic
<1>8. PICK n : n = Ended(q)
  OBVIOUS
<1>9. Sound(n)' /\ req' = [req EXCEPT ![w] = n]
  BY <1>1, <1>4, <1>5, <1>7, <1>8, EndedSound, SoundKept DEF SaveTopic, IInv
<1>. QED
  BY <1>7, <1>9, OthersKept DEF IInv
-----------------------------------------------------------------------------
LEMMA LoadHolds ==
    ASSUME IInv, NEW r, Holds(r), NEW v \in Venues, NEW c \in Cards \cup {None},
           NEW q, q = Load(r, v, c)
    PROVE  /\ Holds(q) /\ q.progs[v] # None /\ (c # None => q.cards[c] # None)
           /\ \A d \in Cards : r.cards[d] # None => q.cards[d] # None
           /\ q.op = r.op /\ q.step = r.step /\ q.venue = r.venue /\ q.card = r.card
           /\ q.row = r.row /\ q.seq = r.seq /\ q.phase = r.phase
<1>1. None \notin Venues /\ None \notin Cards
  BY LedgerNone DEF Cards
<1>2. /\ r \in Requests /\ r.progs \in [Venues -> ProgramRows \cup {None}]
      /\ r.cards \in [Cards -> CardRows \cup {None}]
  BY DEF Holds, Requests
<1>3. /\ prog[v] \in ProgramRows /\ prog[v] # None /\ GoodProgram(prog[v], v)
      /\ \A d \in Cards : card[d] \in CardRows /\ card[d] # None /\ GoodCard(card[d], d)
  BY NoneIsNoRow DEF IInv, DbOK, ProgramsOK, CardsOK
<1> DEFINE P == IF r.progs[v] = None THEN [r.progs EXCEPT ![v] = prog[v]] ELSE r.progs
           C == IF c # None /\ r.cards[c] = None
                THEN [r.cards EXCEPT ![c] = card[c]] ELSE r.cards
<1>4. /\ P \in [Venues -> ProgramRows \cup {None}] /\ P[v] # None
      /\ \A u \in Venues : P[u] = r.progs[u] \/ (u = v /\ P[u] = prog[v])
      /\ \A u \in Venues : r.progs[u] # None => P[u] # None
  <2>1. CASE r.progs[v] = None
    <3>1. P = [r.progs EXCEPT ![v] = prog[v]]
      BY <2>1
    <3>. HIDE DEF P
    <3>. QED
      BY <1>2, <1>3, <3>1
  <2>2. CASE r.progs[v] # None
    BY <1>2, <2>2
  <2>. QED
    BY <2>1, <2>2
<1>5. /\ C \in [Cards -> CardRows \cup {None}] /\ (c # None => C[c] # None)
      /\ \A d \in Cards : C[d] = r.cards[d] \/ C[d] = card[d]
      /\ \A d \in Cards : r.cards[d] # None => C[d] # None
  BY <1>1, <1>2, <1>3
<1>6. q = [r EXCEPT !.progs = P, !.cards = C]
  BY <1>1 DEF Load
<1>. HIDE DEF P, C
<1>7. /\ q \in Requests /\ q.progs = P /\ q.cards = C
      /\ q.op = r.op /\ q.step = r.step /\ q.venue = r.venue /\ q.card = r.card
      /\ q.row = r.row /\ q.seq = r.seq /\ q.phase = r.phase
      /\ q.touched = r.touched /\ q.work = r.work /\ q.queue = r.queue
  BY <1>2, <1>4, <1>5, <1>6 DEF Requests
<1>8. /\ \A u \in Venues : P[u] # None => GoodProgram(P[u], u)
      /\ \A d \in Cards : C[d] # None => GoodCard(C[d], d)
  BY <1>3, <1>4, <1>5 DEF Holds
<1>9. Holds(q)
  BY <1>4, <1>5, <1>7, <1>8 DEF Holds
<1>. QED
  BY <1>4, <1>5, <1>7, <1>9

LEMMA BeginStep ==
    ASSUME IInv, NEW w \in Sessions, NEW op \in {"punch", "redeem"}, NEW c \in Cards,
           Begin(w, op, c)
    PROVE  IInv'
<1> DEFINE v == VenueOf(c)
<1>1. v \in Venues
  BY DEF Cards, VenueOf
<1>2. PICK b : b = Bare(op, "file", v, c)
  OBVIOUS
<1>3. Holds(b)
  BY <1>1, <1>2, BareHolds DEF Ops, Steps
<1>4. b.venue = v /\ b.card = c /\ b.step = "file" /\ b.row = 0 /\ b.seq = 0
  BY <1>2 DEF Bare
<1>5. PICK q : q = Load(b, v, None)
  OBVIOUS
<1>6. /\ Holds(q) /\ q.progs[v] # None /\ q.step = "file" /\ q.venue = v /\ q.card = c
      /\ q.row = 0 /\ q.seq = 0
  BY <1>1, <1>3, <1>4, <1>5, LoadHolds
<1>7. Sound(q)
  BY <1>1, <1>6 DEF Sound, Reached, VenueSteps, CardSteps, NftSteps, OnVenue
<1>8. UNCHANGED <<db, network>> /\ {failed', faults', extra'} \subseteq Nat
  BY DEF Begin, IInv, NetworkOK
<1>9. req' = [req EXCEPT ![w] = q]
  BY <1>2, <1>5 DEF Begin
<1>. QED
  BY <1>7, <1>8, <1>9, QuietStep

LEMMA RecountStep ==
    ASSUME IInv, NEW w \in Sessions, NEW c \in Cards, Recount(w, c) PROVE IInv'
<1> DEFINE v == VenueOf(c)
<1>1. v \in Venues /\ c # None
  BY LedgerNone DEF Cards, VenueOf
<1>2. PICK b : b = Bare("recount", "idle", v, c)
  OBVIOUS
<1>3. Holds(b)
  BY <1>1, <1>2, BareHolds DEF Ops, Steps
<1>4. b.venue = v /\ b.card = c /\ b.step = "idle" /\ b.row = 0 /\ b.seq = 0
  BY <1>2 DEF Bare
<1>5. PICK q : q = Load(b, v, c)
  OBVIOUS
<1>6. /\ Holds(q) /\ q.progs[v] # None /\ q.cards[c] # None /\ q.venue = v /\ q.card = c
      /\ q.row = 0 /\ q.seq = 0
  BY <1>1, <1>3, <1>4, <1>5, LoadHolds
<1>7. Sound(ToNft(q))
  BY <1>1, <1>6, ToNftSound DEF OnVenue, OnCard
<1>8. UNCHANGED <<db, network>> /\ {failed', faults', extra'} \subseteq Nat
  BY DEF Recount, IInv, NetworkOK
<1>9. req' = [req EXCEPT ![w] = ToNft(q)]
  BY <1>2, <1>5 DEF Recount
<1>. QED
  BY <1>7, <1>8, <1>9, QuietStep

LEMMA FindAccountStep ==
    ASSUME IInv, NEW w \in Sessions, FindAccount(w) PROVE IInv'
<1>1. PICK r \in Requests : req[w] = r /\ Sound(r)
  BY Suspended DEF IInv
<1>2. Holds(r) /\ OnCard(r) /\ r.seq = 0 /\ Program(r).token # 0 /\ Owner(r.card) \in Users
  BY <1>1 DEF FindAccount, Sound, Reached, CardSteps, NftSteps, OnCard, Cards, Owner
<1>3. Sound(At(r, "create"))
  <2>1. PICK q : q = At(r, "create")
    OBVIOUS
  <2>2. Holds(q) /\ OnCard(q) /\ q.step = "create" /\ q.seq = 0 /\ Program(q).token # 0
    BY <1>2, <2>1, AtHolds DEF Steps, OnCard
  <2>3. Sound(q)
    BY <2>2 DEF Sound, Reached, VenueSteps, CardSteps, NftSteps
  <2>. QED
    BY <2>1, <2>3
<1>4. ASSUME account[Owner(r.card)] # 0
      PROVE  Sound(ToMint([r EXCEPT !.account = account[Owner(r.card)]]))
  <2>1. PICK q : q = [r EXCEPT !.account = account[Owner(r.card)]]
    OBVIOUS
  <2>2. account[Owner(r.card)] \in Nat
    BY <1>2 DEF IInv, DbOK, AccountsOK
  <2>3. /\ q \in Requests /\ q.progs = r.progs /\ q.cards = r.cards /\ q.row = r.row
        /\ q.seq = r.seq /\ q.phase = r.phase /\ q.work = r.work /\ q.queue = r.queue
        /\ q.touched = r.touched /\ q.venue = r.venue /\ q.card = r.card
        /\ q.account = account[Owner(r.card)]
    BY <1>2, <2>1, <2>2 DEF Holds, Requests
  <2>4. HasAccount(q)
    BY <1>2, <1>4, <2>3 DEF HasAccount, Holds, OnCard, OnVenue, Program
  <2>. QED
    BY <2>1, <2>4, ToMintSound
<1>5. UNCHANGED <<db, network>> /\ {failed', faults', extra'} \subseteq Nat
  BY DEF FindAccount, IInv, NetworkOK
<1>6. PICK n : n = IF account[Owner(r.card)] = 0 THEN At(r, "create")
                   ELSE ToMint([r EXCEPT !.account = account[Owner(r.card)]])
  OBVIOUS
<1>7. Sound(n) /\ req' = [req EXCEPT ![w] = n]
  BY <1>1, <1>3, <1>4, <1>6 DEF FindAccount
<1>. QED
  BY <1>5, <1>7, QuietStep

LEMMA CreateAccountStep ==
    ASSUME IInv, NEW w \in Sessions, CreateAccount(w) PROVE IInv'
<1>1. PICK r \in Requests : req[w] = r /\ Sound(r)
  BY Suspended DEF IInv
<1>2. /\ Holds(r) /\ OnCard(r) /\ r.seq = 0 /\ Program(r).token # 0
      /\ r.card \in Cards /\ Owner(r.card) \in Users
  BY <1>1 DEF CreateAccount, Sound, Reached, CardSteps, NftSteps, OnCard, Cards, Owner
<1>3. /\ UNCHANGED <<prog, card, rows, account, tokens, topics, nfts, log, extra>>
      /\ {failed', faults'} \subseteq Nat
      /\ accounts' = Append(accounts, Owner(r.card)) \/ UNCHANGED accounts
  BY <1>1 DEF CreateAccount, Call, IInv, NetworkOK, db
<1>4. accounts \in Seq(Users) /\ Len(accounts) + 1 \in Nat
  BY DEF IInv, NetworkOK
<1>5. Grows /\ NetworkOK'
  <2>1. CASE accounts' = Append(accounts, Owner(r.card))
    <3>1. Grows
      BY <1>2, <1>3, <1>4, <2>1, Appended DEF Grows
    <3>2. accounts' \in Seq(Users)
      BY <1>2, <1>4, <2>1, Appended
    <3>. QED
      BY <1>3, <3>1, <3>2 DEF IInv, NetworkOK
  <2>2. CASE UNCHANGED accounts
    BY <1>3, <2>2 DEF IInv, NetworkOK, Grows
  <2>. QED
    BY <1>3, <2>1, <2>2
<1>6. Sound(NftDone(r))
  BY <1>2, NftDoneSound
<1>7. PICK n, q : n \in Nat /\ n = Len(accounts) + 1 /\ q = [At(r, "keep") EXCEPT !.got = n]
  BY <1>4
<1>8. /\ Holds(q) /\ q.step = "keep" /\ q.got = Len(accounts) + 1 /\ q.venue = r.venue
      /\ q.card = r.card /\ q.progs = r.progs /\ q.cards = r.cards /\ q.row = r.row /\ q.seq = 0
  BY <1>2, <1>7 DEF At, Holds, Requests, Steps
<1>9. OnCard(q) /\ Program(q).token # 0
  BY <1>2, <1>8 DEF OnCard, OnVenue, Program
<1>10. Holds(q)' /\ OnCard(q)'
  BY <1>5, <1>8, <1>9, HoldsKept, OnCardKept DEF IInv
<1>11. ASSUME accounts' = Append(accounts, Owner(r.card)) PROVE Sound(q)'
  <2>1. q.got \in DOMAIN accounts' /\ accounts'[q.got] = Owner(q.card)
    BY <1>2, <1>4, <1>8, <1>11, Appended
  <2>. QED
    BY <1>8, <1>9, <1>10, <2>1 DEF Sound, Reached, VenueSteps, CardSteps, NftSteps
<1>12. \/ req' = [req EXCEPT ![w] = NftDone(r)]
       \/ req' = [req EXCEPT ![w] = q] /\ Sound(q)'
  BY <1>1, <1>7, <1>11 DEF CreateAccount, Call
<1>13. UNCHANGED db
  BY <1>3 DEF db
<1>. QED
  BY <1>5, <1>6, <1>12, <1>13, CallStep
-----------------------------------------------------------------------------
(* Where a request goes next, seen from the state its step leads to *)

LEMMA ToMintAfter == (\A r : HasAccount(r) => \A n : n = ToMint(r) => Sound(n))'
<1>1. \A r : HasAccount(r) => \A n : n = ToMint(r) => Sound(n)
  BY ToMintSound
<1>. QED
  BY <1>1, PTL

LEMMA ToMetadataAfter ==
    (\A r : Holds(r) /\ OnCard(r) => \A n : n = ToMetadata(r) => Sound(n))'
<1>1. \A r : Holds(r) /\ OnCard(r) => \A n : n = ToMetadata(r) => Sound(n)
  BY ToMetadataSound
<1>. QED
  BY <1>1, PTL

LEMMA ToNftAfter ==
    (\A r : Holds(r) /\ OnCard(r) /\ r.seq = 0 => \A n : n = ToNft(r) => Sound(n))'
<1>1. \A r : Holds(r) /\ OnCard(r) /\ r.seq = 0 => \A n : n = ToNft(r) => Sound(n)
  BY ToNftSound
<1>. QED
  BY <1>1, PTL

LEMMA ToSubmitAfter ==
    (\A r : Holds(r) /\ OnCard(r) /\ r.seq = 0 => \A n : n = ToSubmit(r) => Sound(n))'
<1>1. \A r : Holds(r) /\ OnCard(r) /\ r.seq = 0 => \A n : n = ToSubmit(r) => Sound(n)
  BY ToSubmitSound
<1>. QED
  BY <1>1, PTL
-----------------------------------------------------------------------------
LEMMA KeepAccountStep ==
    ASSUME IInv, NEW w \in Sessions, KeepAccount(w) PROVE IInv'
<1>1. PICK r \in Requests : req[w] = r /\ Sound(r)
  BY Suspended DEF IInv
<1>2. /\ Holds(r) /\ OnCard(r) /\ r.seq = 0 /\ Program(r).token # 0
      /\ r.got \in DOMAIN accounts /\ accounts[r.got] = Owner(r.card) /\ Owner(r.card) \in Users
  BY <1>1 DEF KeepAccount, Sound, Reached, CardSteps, NftSteps, OnCard, Cards, Owner
<1>3. UNCHANGED <<prog, card, rows, network>> /\ {failed', faults', extra'} \subseteq Nat
  BY DEF KeepAccount, IInv, NetworkOK
<1>4. CASE account[Owner(r.card)] # 0
  <2>1. UNCHANGED <<db, network>> /\ req' = [req EXCEPT ![w] = Idle]
    BY <1>1, <1>3, <1>4 DEF KeepAccount, db
  <2>. QED
    BY <1>3, <2>1, QuietStep, IdleSound
<1>5. CASE account[Owner(r.card)] = 0
  <2> DEFINE u == Owner(r.card)
  <2>1. account' = [account EXCEPT ![u] = r.got]
    BY <1>1, <1>5 DEF KeepAccount
  <2>2. /\ account \in [Users -> Nat] /\ r.got \in Nat /\ r.got # 0
        /\ \A a \in Users : account[a] # 0 => account[a] \in DOMAIN accounts /\ accounts[account[a]] = a
    BY <1>2 DEF IInv, NetworkOK, DbOK, AccountsOK
  <2>3. Grows
    BY <1>2, <1>3, <1>5, <2>1, <2>2 DEF Grows, network
  <2>4. AccountsOK'
    BY <1>2, <1>3, <2>1, <2>2 DEF AccountsOK, network
  <2>5. NetworkOK'
    BY <1>3 DEF IInv, NetworkOK, network
  <2>6. DbOK'
    BY <1>3, <2>3, <2>4, TablesKept DEF IInv, DbOK
  <2>7. PICK q : q = [r EXCEPT !.account = r.got, !.got = 0]
    OBVIOUS
  <2>8. /\ q \in Requests /\ q.progs = r.progs /\ q.cards = r.cards /\ q.row = r.row
        /\ q.seq = r.seq /\ q.phase = r.phase /\ q.work = r.work /\ q.queue = r.queue
        /\ q.touched = r.touched /\ q.venue = r.venue /\ q.card = r.card
        /\ q.account = r.got
    BY <1>2, <2>2, <2>7 DEF Holds, Requests
  <2>9. Holds(q) /\ OnCard(q) /\ q.seq = 0 /\ Program(q).token # 0
    BY <1>2, <2>8 DEF Holds, OnCard, OnVenue, Program
  <2>10. Holds(q)' /\ OnCard(q)'
    BY <2>3, <2>9, HoldsKept, OnCardKept DEF IInv
  <2>11. HasAccount(q)'
    BY <1>2, <2>1, <2>2, <2>8, <2>9, <2>10 DEF HasAccount
  <2>12. PICK n : n = ToMint(q)
    OBVIOUS
  <2>13. Sound(n)'
    BY <2>11, <2>12, ToMintAfter
  <2>14. req' = [req EXCEPT ![w] = n]
    BY <1>1, <1>5, <2>7, <2>12 DEF KeepAccount
  <2>. QED
    BY <2>3, <2>5, <2>6, <2>13, <2>14, OthersKept DEF IInv
<1>. QED
  BY <1>4, <1>5

\* A collection gains an NFT, or one of its NFTs changes hands or metadata.
LEMMA NftsChanged ==
    ASSUME IInv, UNCHANGED <<db, tokens, topics, accounts, log, extra>>,
           {failed', faults'} \subseteq Nat,
           NEW t \in DOMAIN nfts, NEW s \in Seq(Nfts), nfts' = [nfts EXCEPT ![t] = s],
           \A k \in DOMAIN nfts[t] : k \in DOMAIN s /\ s[k].card = nfts[t][k].card
    PROVE  Grows /\ NetworkOK'
<1>1. nfts \in Seq(Seq(Nfts)) /\ t \in 1 .. Len(nfts)
  BY DEF IInv, NetworkOK
<1>2. /\ nfts' \in Seq(Seq(Nfts)) /\ Len(nfts') = Len(nfts) /\ DOMAIN nfts' = DOMAIN nfts
      /\ \A j \in DOMAIN nfts : nfts'[j] = IF j = t THEN s ELSE nfts[j]
  BY <1>1, ExceptSeq
<1>3. NetworkOK'
  BY <1>2 DEF IInv, NetworkOK
<1>4. Grows
  BY <1>2 DEF Grows, db
<1>. QED
  BY <1>3, <1>4

LEMMA NothingChanged ==
    ASSUME IInv, UNCHANGED <<db, network, extra>>, {failed', faults'} \subseteq Nat
    PROVE  Grows /\ NetworkOK'
BY DEF IInv, NetworkOK, Grows, db, network

LEMMA MintCardStep ==
    ASSUME IInv, NEW w \in Sessions, MintCard(w) PROVE IInv'
<1>1. PICK r \in Requests : req[w] = r /\ Sound(r)
  BY Suspended DEF IInv
<1>2. /\ Holds(r) /\ OnCard(r) /\ r.seq = 0 /\ r.card \in Cards /\ r.venue = VenueOf(r.card)
      /\ r.account # 0 /\ r.account = account[Owner(r.card)] /\ Owner(r.card) \in Users
      /\ Program(r).token # 0
  BY <1>1 DEF MintCard, Sound, Reached, CardSteps, NftSteps, OnCard, Cards, Owner
<1>3. PICK t : t = Program(r).token
  OBVIOUS
<1>4. t \in DOMAIN nfts /\ tokens[t] = r.venue /\ nfts[t] \in Seq(Nfts) /\ t \in DOMAIN tokens
  <2>1. GoodProgram(Program(r), r.venue)
    BY <1>2 DEF Holds, OnCard, OnVenue, Program
  <2>. QED
    BY <1>2, <1>3, <2>1, SameDomains DEF GoodProgram, IInv, NetworkOK
<1>5. PICK x : x = [card |-> r.card, holder |-> 0, meta |-> Version(r)]
  OBVIOUS
<1>6. x \in Nfts /\ x.card = r.card
  <2>1. Card(r) \in CardRows
    BY <1>2 DEF Holds, OnCard, Card, GoodCard
  <2>. QED
    BY <1>2, <1>5, <2>1 DEF Nfts, Version, CardRows
<1>7. PICK s : s = Append(nfts[t], x)
  OBVIOUS
<1>8. /\ s \in Seq(Nfts) /\ Len(nfts[t]) + 1 \in Nat /\ Len(nfts[t]) + 1 # 0
      /\ \A k \in DOMAIN nfts[t] : k \in DOMAIN s /\ s[k].card = nfts[t][k].card
      /\ Len(nfts[t]) + 1 \in DOMAIN s /\ s[Len(nfts[t]) + 1] = x
  BY <1>4, <1>6, <1>7, Appended
<1>9. /\ UNCHANGED <<db, tokens, topics, accounts, log, extra>>
      /\ {failed', faults'} \subseteq Nat
      /\ nfts' = [nfts EXCEPT ![t] = s] \/ UNCHANGED nfts
  BY <1>1, <1>3, <1>5, <1>7 DEF MintCard, Call, IInv, NetworkOK
<1>10. Grows /\ NetworkOK'
  <2>1. CASE nfts' = [nfts EXCEPT ![t] = s]
    BY <1>4, <1>8, <1>9, <2>1, NftsChanged
  <2>2. CASE UNCHANGED nfts
    BY <1>9, <2>2, NothingChanged DEF network
  <2>. QED
    BY <1>9, <2>1, <2>2
<1>11. Sound(NftDone(r))
  BY <1>2, NftDoneSound
<1>12. PICK n, q : n \in Nat /\ n = Len(nfts[t]) + 1 /\ q = [At(r, "serial") EXCEPT !.got = n]
  BY <1>8
<1>13. /\ Holds(q) /\ q.step = "serial" /\ q.got = n /\ q.venue = r.venue /\ q.seq = 0
       /\ q.card = r.card /\ q.progs = r.progs /\ q.cards = r.cards /\ q.row = r.row
       /\ q.account = r.account
  BY <1>2, <1>12 DEF At, Holds, Requests, Steps
<1>14. OnCard(q) /\ Program(q).token # 0
  BY <1>2, <1>13 DEF OnCard, OnVenue, Program
<1>15. Holds(q)' /\ OnCard(q)' /\ q.account = account'[Owner(q.card)]
  BY <1>2, <1>9, <1>10, <1>13, <1>14, HoldsKept, OnCardKept DEF IInv, db
<1>16. ASSUME nfts' = [nfts EXCEPT ![t] = s] PROVE Sound(q)'
  <2>1. n \in DOMAIN nfts'[t] /\ nfts'[t][n].card = q.card /\ t \in DOMAIN nfts'
    BY <1>4, <1>6, <1>8, <1>12, <1>13, <1>16
  <2>2. Minted(q.card, q.got)'
    BY <1>2, <1>4, <1>9, <1>13, <2>1 DEF Minted
  <2>. QED
    BY <1>2, <1>8, <1>12, <1>13, <1>14, <1>15, <2>2
    DEF Sound, Reached, VenueSteps, CardSteps, NftSteps
<1>17. \/ req' = [req EXCEPT ![w] = NftDone(r)]
       \/ req' = [req EXCEPT ![w] = q] /\ Sound(q)'
  BY <1>1, <1>3, <1>5, <1>7, <1>12, <1>16 DEF MintCard, Call
<1>. QED
  BY <1>9, <1>10, <1>11, <1>17, CallStep

\* q differs from r in its copy of its card, and in what Holds does not speak of.
CardCopied(q, r, x) ==
    /\ q \in Requests /\ q.cards = [r.cards EXCEPT ![r.card] = x] /\ q.progs = r.progs
    /\ q.venue = r.venue /\ q.card = r.card /\ q.row = r.row /\ q.seq = r.seq
    /\ q.phase = r.phase /\ q.work = r.work /\ q.queue = r.queue /\ q.touched = r.touched

\* A card row that gains a serial or a holder of its own stays good, and so does
\* the session's copy of it.
LEMMA CardSaved ==
    ASSUME IInv, UNCHANGED <<prog, rows, account, network, failed, faults, extra>>,
           NEW r, Holds(r), OnCard(r), NEW x, GoodCard(x, r.card),
           card' = [card EXCEPT ![r.card] = x],
           NEW q, CardCopied(q, r, x)
    PROVE  Grows /\ NetworkOK' /\ DbOK' /\ Holds(q) /\ OnCard(q) /\ Card(q) = x
<1>1. Grows
  BY DEF Grows, network
<1>2. NetworkOK'
  BY DEF IInv, NetworkOK, network
<1>3. x \in CardRows /\ x # None /\ r.card \in Cards
  BY NoneIsNoRow DEF GoodCard, OnCard
<1>4. CardsOK'
  BY <1>3 DEF IInv, DbOK, CardsOK, GoodCard, Minted, network
<1>5. DbOK'
  BY <1>1, <1>4, TablesKept DEF IInv, DbOK
<1>6. r.cards \in [Cards -> CardRows \cup {None}]
  BY DEF Holds, Requests
<1>7. Holds(q)
  BY <1>3, <1>6 DEF Holds, CardCopied
<1>8. OnCard(q) /\ Card(q) = x
  BY <1>3, <1>6 DEF OnCard, OnVenue, Card, CardCopied
<1>. QED
  BY <1>1, <1>2, <1>5, <1>7, <1>8

LEMMA SaveSerialStep ==
    ASSUME IInv, NEW w \in Sessions, SaveSerial(w) PROVE IInv'
<1>1. PICK r \in Requests : req[w] = r /\ Sound(r)
  BY Suspended DEF IInv
<1>2. /\ Holds(r) /\ OnCard(r) /\ r.seq = 0 /\ r.card \in Cards /\ Program(r).token # 0
      /\ r.account # 0 /\ r.account = account[Owner(r.card)]
      /\ r.got # 0 /\ Minted(r.card, r.got) /\ r.got \in Nat
  BY <1>1 DEF SaveSerial, Sound, Reached, CardSteps, NftSteps, OnCard, Requests
<1>3. PICK x : x = [card[r.card] EXCEPT !.serial = r.got]
  OBVIOUS
<1>4. GoodCard(x, r.card) /\ card' = [card EXCEPT ![r.card] = x] /\ x = card'[r.card]
  <2>1. card \in [Cards -> CardRows] /\ GoodCard(card[r.card], r.card)
    BY <1>2 DEF IInv, DbOK, CardsOK
  <2>2. x \in CardRows /\ x.serial = r.got /\ x.holder = card[r.card].holder
    BY <1>2, <1>3, <2>1 DEF CardRows
  <2>3. card' = [card EXCEPT ![r.card] = x]
    BY <1>1, <1>2, <1>3, <2>1 DEF SaveSerial
  <2>. QED
    BY <1>2, <2>1, <2>2, <2>3 DEF GoodCard
<1>5. PICK q : q = [r EXCEPT !.cards[r.card] = x, !.minted = TRUE, !.got = 0]
  OBVIOUS
<1>6. CardCopied(q, r, x) /\ q.account = r.account /\ q.seq = r.seq /\ q.card = r.card
      /\ q.progs = r.progs /\ q.venue = r.venue
  BY <1>2, <1>4, <1>5 DEF GoodCard, Requests, CardCopied
<1>7. Grows /\ NetworkOK' /\ DbOK' /\ Holds(q) /\ OnCard(q)
  <2>1. UNCHANGED <<prog, rows, account, network, failed, faults, extra>>
    BY DEF SaveSerial
  <2>. QED
    BY <1>2, <1>4, <1>6, <2>1, CardSaved
<1>8. HasAccount(q)
  BY <1>2, <1>6, <1>7 DEF HasAccount, Program
<1>9. PICK n : n = ToTransfer(q)
  OBVIOUS
<1>10. Sound(n)' /\ req' = [req EXCEPT ![w] = n]
  BY <1>1, <1>4, <1>5, <1>7, <1>8, <1>9, ToTransferSound, SoundKept DEF SaveSerial, IInv
<1>. QED
  BY <1>7, <1>10, OthersKept DEF IInv

LEMMA SaveHolderStep ==
    ASSUME IInv, NEW w \in Sessions, SaveHolder(w) PROVE IInv'
<1>1. PICK r \in Requests : req[w] = r /\ Sound(r)
  BY Suspended DEF IInv
<1>2. /\ Holds(r) /\ OnCard(r) /\ r.seq = 0 /\ r.card \in Cards
      /\ r.account = account[Owner(r.card)] /\ r.account \in Nat
  BY <1>1 DEF SaveHolder, Sound, Reached, CardSteps, NftSteps, OnCard, Requests
<1>3. PICK x : x = [card[r.card] EXCEPT !.holder = r.account]
  OBVIOUS
<1>4. GoodCard(x, r.card) /\ card' = [card EXCEPT ![r.card] = x] /\ x = card'[r.card]
  <2>1. card \in [Cards -> CardRows] /\ GoodCard(card[r.card], r.card)
    BY <1>2 DEF IInv, DbOK, CardsOK
  <2>2. x \in CardRows /\ x.holder = r.account /\ x.serial = card[r.card].serial
    BY <1>2, <1>3, <2>1 DEF CardRows
  <2>3. card' = [card EXCEPT ![r.card] = x]
    BY <1>1, <1>2, <1>3, <2>1 DEF SaveHolder
  <2>. QED
    BY <1>2, <2>1, <2>2, <2>3 DEF GoodCard
<1>5. PICK q : q = [r EXCEPT !.cards[r.card] = x]
  OBVIOUS
<1>6. CardCopied(q, r, x) /\ q.account = r.account /\ q.seq = r.seq /\ q.card = r.card
      /\ q.progs = r.progs /\ q.venue = r.venue
  BY <1>2, <1>4, <1>5 DEF GoodCard, Requests, CardCopied
<1>7. Grows /\ NetworkOK' /\ DbOK' /\ Holds(q) /\ OnCard(q)
  <2>1. UNCHANGED <<prog, rows, account, network, failed, faults, extra>>
    BY DEF SaveHolder
  <2>. QED
    BY <1>2, <1>4, <1>6, <2>1, CardSaved
<1>8. PICK n : n = NftDone(q)
  OBVIOUS
<1>9. Sound(n)' /\ req' = [req EXCEPT ![w] = n]
  BY <1>1, <1>2, <1>4, <1>5, <1>6, <1>7, <1>8, NftDoneSound, SoundKept DEF SaveHolder, IInv
<1>. QED
  BY <1>7, <1>9, OthersKept DEF IInv

LEMMA TransferCardStep ==
    ASSUME IInv, NEW w \in Sessions, TransferCard(w) PROVE IInv'
<1>1. PICK r \in Requests : req[w] = r /\ Sound(r)
  BY Suspended DEF IInv
<1>2. HasAccount(r) /\ r.account \in Nat
  BY <1>1 DEF TransferCard, Sound, Reached, CardSteps, NftSteps, HasAccount, Requests
<1>3. PICK t, k : t = Program(r).token /\ k = Card(r).serial
  OBVIOUS
<1>4. Sound(NftDone(r)) /\ Sound(At(r, "holder"))
  BY <1>2, NftDoneSound, AtNftStep DEF HasAccount
<1>5. /\ UNCHANGED <<db, tokens, topics, accounts, log, extra>>
      /\ {failed', faults'} \subseteq Nat
  BY <1>1 DEF TransferCard, Call, IInv, NetworkOK
<1>6. \/ UNCHANGED nfts
      \/ k \in DOMAIN nfts[t] /\ nfts' = [nfts EXCEPT ![t][k].holder = r.account]
  BY <1>1, <1>3 DEF TransferCard, Call
<1>7. Grows /\ NetworkOK'
  <2>1. ASSUME k \in DOMAIN nfts[t], nfts' = [nfts EXCEPT ![t][k].holder = r.account]
        PROVE  Grows /\ NetworkOK'
    <3>1. t \in DOMAIN nfts /\ nfts[t] \in Seq(Nfts)
      <4>1. GoodProgram(Program(r), r.venue) /\ Program(r).token # 0
        BY <1>2 DEF HasAccount, Holds, OnCard, OnVenue, Program
      <4>. QED
        BY <1>3, <4>1, SameDomains DEF GoodProgram, IInv, NetworkOK
    <3>2. PICK s : s = [nfts[t] EXCEPT ![k].holder = r.account]
      OBVIOUS
    <3>3. nfts[t][k] \in Nfts /\ [nfts[t][k] EXCEPT !.holder = r.account] \in Nfts
      <4>1. nfts[t][k] \in Nfts
        BY <2>1, <3>1, ElementOfSeq
      <4>. QED
        BY <1>2, <4>1 DEF Nfts
    <3>4. s \in Seq(Nfts) /\ DOMAIN s = DOMAIN nfts[t]
      BY <2>1, <3>1, <3>2, <3>3, ExceptSeq
    <3>5. \A j \in DOMAIN nfts[t] : j \in DOMAIN s /\ s[j].card = nfts[t][j].card
      BY <2>1, <3>1, <3>2, <3>3, <3>4 DEF Nfts
    <3>6. nfts' = [nfts EXCEPT ![t] = s]
      BY <2>1, <3>2
    <3>. QED
      BY <1>5, <3>1, <3>4, <3>5, <3>6, NftsChanged
  <2>2. CASE UNCHANGED nfts
    BY <1>5, <2>2, NothingChanged DEF network
  <2>. QED
    BY <1>6, <2>1, <2>2
<1>8. PICK a, o : a = At(r, "holder") /\ o = NftDone(r)
  OBVIOUS
<1>9. Sound(o) /\ Sound(a)' /\ (req' = [req EXCEPT ![w] = o] \/ req' = [req EXCEPT ![w] = a])
  <2>1. Sound(a)'
    BY <1>4, <1>7, <1>8, SoundKept DEF IInv
  <2>2. req' = [req EXCEPT ![w] = o] \/ req' = [req EXCEPT ![w] = a]
    BY <1>1, <1>8 DEF TransferCard, Call
  <2>. QED
    BY <1>4, <1>8, <2>1, <2>2
<1>. QED
  BY <1>5, <1>7, <1>9, CallStep

\* UpdateMetadata and RefreshMetadata go on whatever became of the update.
LEMMA RepointStep ==
    ASSUME IInv, NEW w \in Sessions, NEW r \in Requests, req[w] = r, Holds(r), OnCard(r),
           NEW after, Sound(after), Repoint(w, after)
    PROVE  IInv'
<1>1. PICK t, k : t = Program(r).token /\ k = Card(r).serial
  OBVIOUS
<1>2. /\ UNCHANGED <<db, tokens, topics, accounts, log, extra>>
      /\ {failed', faults'} \subseteq Nat
      /\ req' = [req EXCEPT ![w] = after]
  BY DEF Repoint, Call, IInv, NetworkOK
<1>3. \/ UNCHANGED nfts
      \/ k \in DOMAIN nfts[t] /\ nfts' = [nfts EXCEPT ![t][k].meta = Version(r)]
  BY <1>1 DEF Repoint, Call
<1>4. Version(r) \in Nat \X Nat
  <2>1. Card(r) \in CardRows
    BY DEF Holds, OnCard, Card, GoodCard
  <2>. QED
    BY <2>1 DEF Version, CardRows
<1>5. Grows /\ NetworkOK'
  <2>1. ASSUME k \in DOMAIN nfts[t], nfts' = [nfts EXCEPT ![t][k].meta = Version(r)],
               t \in DOMAIN nfts
        PROVE  Grows /\ NetworkOK'
    <3>1. nfts[t] \in Seq(Nfts)
      BY <2>1 DEF IInv, NetworkOK
    <3>2. PICK s : s = [nfts[t] EXCEPT ![k].meta = Version(r)]
      OBVIOUS
    <3>3. nfts[t][k] \in Nfts /\ [nfts[t][k] EXCEPT !.meta = Version(r)] \in Nfts
      <4>1. nfts[t][k] \in Nfts
        BY <2>1, <3>1, ElementOfSeq
      <4>. QED
        BY <1>4, <4>1 DEF Nfts
    <3>4. s \in Seq(Nfts) /\ DOMAIN s = DOMAIN nfts[t]
      BY <2>1, <3>1, <3>2, <3>3, ExceptSeq
    <3>5. \A j \in DOMAIN nfts[t] : j \in DOMAIN s /\ s[j].card = nfts[t][j].card
      BY <2>1, <3>1, <3>2, <3>3, <3>4 DEF Nfts
    <3>6. nfts' = [nfts EXCEPT ![t] = s]
      BY <2>1, <3>2
    <3>. QED
      BY <1>2, <2>1, <3>1, <3>4, <3>5, <3>6, NftsChanged
  <2>2. CASE UNCHANGED nfts
    BY <1>2, <2>2, NothingChanged DEF network
  <2>3. CASE t \notin DOMAIN nfts /\ nfts' = [nfts EXCEPT ![t][k].meta = Version(r)]
    <3>1. UNCHANGED nfts
      BY <2>3 DEF IInv, NetworkOK
    <3>. QED
      BY <2>2, <3>1
  <2>. QED
    BY <1>3, <2>1, <2>2, <2>3
<1>. QED
  BY <1>2, <1>5, CallStep

LEMMA MetadataStep ==
    ASSUME IInv, NEW w \in Sessions, UpdateMetadata(w) \/ RefreshMetadata(w) PROVE IInv'
<1>1. PICK r \in Requests : req[w] = r /\ Sound(r)
  BY Suspended DEF IInv
<1>2. Holds(r) /\ OnCard(r)
  BY <1>1 DEF UpdateMetadata, RefreshMetadata, Sound, Reached, CardSteps
<1>3. Sound(ToProof(r)) /\ Sound(Ended(r))
  BY <1>2, ToProofSound, EndedSound
<1>. QED
  BY <1>1, <1>2, <1>3, RepointStep DEF UpdateMetadata, RefreshMetadata

\* A topic gains a message.
LEMMA LogChanged ==
    ASSUME IInv, UNCHANGED <<db, tokens, topics, accounts, nfts, extra>>,
           {failed', faults'} \subseteq Nat,
           NEW t \in DOMAIN log, NEW x \in Messages, log' = [log EXCEPT ![t] = Append(@, x)]
    PROVE  /\ Grows /\ NetworkOK'
           /\ t \in DOMAIN log' /\ Len(log[t]) + 1 \in Nat /\ Len(log[t]) + 1 # 0
           /\ Len(log[t]) + 1 \in DOMAIN log'[t] /\ log'[t][Len(log[t]) + 1] = x
<1>1. log \in Seq(Seq(Messages)) /\ t \in 1 .. Len(log) /\ log[t] \in Seq(Messages)
  BY DEF IInv, NetworkOK
<1>2. PICK s : s = Append(log[t], x)
  OBVIOUS
<1>3. /\ s \in Seq(Messages) /\ Len(log[t]) + 1 \in Nat /\ Len(log[t]) + 1 # 0
      /\ \A k \in DOMAIN log[t] : k \in DOMAIN s /\ s[k] = log[t][k]
      /\ Len(log[t]) + 1 \in DOMAIN s /\ s[Len(log[t]) + 1] = x
  BY <1>1, <1>2, Appended
<1>4. /\ log' \in Seq(Seq(Messages)) /\ Len(log') = Len(log) /\ DOMAIN log' = DOMAIN log
      /\ \A j \in DOMAIN log : log'[j] = IF j = t THEN s ELSE log[j]
  BY <1>1, <1>2, <1>3, ExceptSeq
<1>5. NetworkOK'
  BY <1>4 DEF IInv, NetworkOK
<1>6. Grows
  BY <1>3, <1>4 DEF Grows, db
<1>. QED
  BY <1>3, <1>4, <1>5, <1>6

LEMMA OrdinalIsNat == ASSUME IInv, NEW i PROVE Ordinal(i) \in Nat
<1> DEFINE S == {j \in Punches(rows[i].card, rows[i].cycle) : j <= i}
<1>1. Len(rows) \in Nat /\ DOMAIN rows = 1 .. Len(rows)
  BY DEF IInv, DbOK, RowsOK
<1>2. S \subseteq 1 .. Len(rows)
  BY <1>1 DEF Punches
<1>3. IsFiniteSet(1 .. Len(rows))
  BY <1>1, FS_Interval
<1>4. Cardinality(S) \in Nat
  BY <1>2, <1>3, FS_Subset, FS_CardinalityType
<1>. QED
  BY <1>4 DEF Ordinal

LEMMA SubmitStep ==
    ASSUME IInv, NEW w \in Sessions, Submit(w) PROVE IInv'
<1>1. PICK r \in Requests : req[w] = r /\ Sound(r)
  BY Suspended DEF IInv
<1>2. Holds(r) /\ OnCard(r) /\ r.seq = 0 /\ Program(r).topic # 0
  BY <1>1 DEF Submit, Sound, Reached, CardSteps, NftSteps
<1>3. PICK t, x : t = Program(r).topic /\ x = [row |-> r.row, count |-> MessageCount(r)]
  OBVIOUS
<1>4. t \in DOMAIN log /\ topics[t] = r.venue /\ r.venue = VenueOf(r.card)
  <2>1. GoodProgram(Program(r), r.venue)
    BY <1>2 DEF Holds, OnCard, OnVenue, Program
  <2>. QED
    BY <1>2, <1>3, <2>1, SameDomains DEF GoodProgram, OnCard, IInv
<1>5. x \in Messages /\ x.row = r.row
  <2>1. Card(r).count \in Nat
    BY <1>2 DEF Holds, OnCard, Card, GoodCard, CardRows
  <2>2. MessageCount(r) \in Nat
    BY <2>1, OrdinalIsNat DEF MessageCount
  <2>. QED
    BY <1>3, <2>2 DEF Messages, Requests
<1>6. /\ UNCHANGED <<db, tokens, topics, accounts, nfts, extra>>
      /\ {failed', faults'} \subseteq Nat
      /\ log' = [log EXCEPT ![t] = Append(@, x)] \/ UNCHANGED log
  <2>1. UNCHANGED <<db, tokens, topics, accounts, nfts, extra>> /\ {failed', faults'} \subseteq Nat
    BY DEF Submit, Call, IInv, NetworkOK
  <2>2. \/ log' = [log EXCEPT ![t] =
                      Append(@, [row |-> r.row, count |-> MessageCount(r)])]
        \/ UNCHANGED log
    BY <1>1, <1>3 DEF Submit, Call
  <2>. QED
    BY <1>3, <2>1, <2>2
<1>7. Grows /\ NetworkOK'
  <2>1. CASE log' = [log EXCEPT ![t] = Append(@, x)]
    BY <1>4, <1>5, <1>6, <2>1, LogChanged
  <2>2. CASE UNCHANGED log
    BY <1>6, <2>2, NothingChanged DEF network
  <2>. QED
    BY <1>6, <2>1, <2>2
<1>8. PICK q : q = [r EXCEPT !.seq = Len(log[t]) + 1]
  OBVIOUS
<1>9. PICK a, o : a = ToMetadata(q) /\ o = ToMetadata(r)
  OBVIOUS
<1>10. Sound(o)
  BY <1>2, <1>9, ToMetadataSound
<1>11. ASSUME log' = [log EXCEPT ![t] = Append(@, x)] PROVE Sound(a)'
  <2>1. /\ t \in DOMAIN log' /\ Len(log[t]) + 1 \in Nat
        /\ Len(log[t]) + 1 \in DOMAIN log'[t] /\ log'[t][Len(log[t]) + 1] = x
    BY <1>4, <1>5, <1>6, <1>11, LogChanged
  <2>2. /\ q \in Requests /\ q.progs = r.progs /\ q.cards = r.cards /\ q.row = r.row
        /\ q.seq = Len(log[t]) + 1 /\ q.phase = r.phase /\ q.work = r.work
        /\ q.queue = r.queue /\ q.touched = r.touched /\ q.venue = r.venue /\ q.card = r.card
    BY <1>8, <2>1 DEF Requests
  <2>3. r.row # 0 => Said(q.row, q.seq)'
    <3>1. r.row # 0 => /\ rows[r.row].card = r.card /\ UNCHANGED <<rows, topics>>
      BY <1>2, <1>6 DEF OnCard, db
    <3>. QED
      BY <1>4, <1>5, <2>1, <2>2, <3>1 DEF Said
  <2>4. Holds(r)' /\ OnCard(r)'
    BY <1>2, <1>7, HoldsKept, OnCardKept DEF IInv
  <2>5. Holds(q)' /\ OnCard(q)'
    BY <2>2, <2>3, <2>4 DEF Holds, OnCard, OnVenue
  <2>. QED
    BY <1>9, <2>5, ToMetadataAfter
<1>12. \/ req' = [req EXCEPT ![w] = o]
       \/ req' = [req EXCEPT ![w] = a] /\ Sound(a)'
  BY <1>1, <1>3, <1>8, <1>9, <1>11 DEF Submit, Call
<1>. QED
  BY <1>6, <1>7, <1>10, <1>12, CallStep

LEMMA WriteProofStep ==
    ASSUME IInv, NEW w \in Sessions, WriteProof(w) PROVE IInv'
<1>1. PICK r \in Requests : req[w] = r /\ Sound(r)
  BY Suspended DEF IInv
<1>2. /\ Holds(r) /\ OnCard(r) /\ r.row # 0 /\ r.seq # 0 /\ r.row \in DOMAIN rows
      /\ Said(r.row, r.seq) /\ r.card \in Cards /\ r.cards[r.card] # None /\ r.seq \in Nat
  BY <1>1 DEF WriteProof, Sound, Reached, CardSteps, Holds, OnCard, Requests
<1>3. /\ rows' = [rows EXCEPT ![r.row].seq = r.seq]
      /\ UNCHANGED <<prog, card, account, network, failed, faults, extra>>
  BY <1>1 DEF WriteProof
<1>4. /\ rows \in Seq(MirrorRows) /\ r.row \in 1 .. Len(rows)
      /\ [rows[r.row] EXCEPT !.seq = r.seq] \in MirrorRows
  <2>1. rows \in Seq(MirrorRows) /\ r.row \in 1 .. Len(rows)
    BY <1>2 DEF IInv, DbOK, RowsOK
  <2>2. rows[r.row] \in MirrorRows
    BY <2>1, ElementOfSeq
  <2>. QED
    BY <1>2, <2>1, <2>2 DEF MirrorRows
<1>5. /\ rows' \in Seq(MirrorRows) /\ DOMAIN rows' = DOMAIN rows
      /\ \A i \in DOMAIN rows : /\ rows'[i].card = rows[i].card
                                /\ rows'[i].seq = IF i = r.row THEN r.seq ELSE rows[i].seq
  BY <1>3, <1>4, ExceptSeq DEF MirrorRows
<1>6. Grows
  BY <1>3, <1>5 DEF Grows, network
<1>7. NetworkOK'
  BY <1>3 DEF IInv, NetworkOK, network
<1>8. RowsOK'
  <2>1. ASSUME NEW i \in DOMAIN rows, NEW k, k = rows'[i].seq, k # 0 PROVE Said(i, k)'
    <3>1. Said(i, k)
      BY <1>2, <1>5, <2>1 DEF IInv, DbOK, RowsOK
    <3>. QED
      BY <1>6, <3>1, SaidKept DEF IInv
  <2>2. ASSUME NEW i \in DOMAIN rows', rows'[i].seq # 0 PROVE Said(i, rows[i].seq)'
    <3>1. PICK k : k = rows'[i].seq
      OBVIOUS
    <3>2. Said(i, k)'
      BY <1>5, <2>1, <2>2, <3>1
    <3>. QED
      BY <3>1, <3>2 DEF Said
  <2>. QED
    BY <1>5, <2>2 DEF RowsOK
<1>9. DbOK'
  BY <1>3, <1>6, <1>8, TablesKept DEF IInv, DbOK
<1>10. PICK e : e = Ended(r)
  OBVIOUS
<1>11. Sound(e) /\ (r.op = "reconcile" => e.step = "pick" /\ e.cards = r.cards)
  BY <1>2, <1>10, EndedSound
<1>12. PICK n : n = IF r.op = "reconcile" THEN [e EXCEPT !.touched = @ \cup {r.card}] ELSE e
  OBVIOUS
<1>13. Sound(n)
  BY <1>2, <1>11, <1>12, TouchedSound
<1>14. Sound(n)' /\ req' = [req EXCEPT ![w] = n]
  BY <1>1, <1>6, <1>10, <1>12, <1>13, SoundKept DEF WriteProof, IInv
<1>. QED
  BY <1>6, <1>7, <1>9, <1>14, OthersKept DEF IInv

RowCopied(q, r, x, n) == q = [r EXCEPT !.cards[r.card] = x, !.row = n]

\* A new row, and the card it moves on: q is r with both, as the service's
\* refresh of the card leaves it.
LEMMA RowFiled ==
    ASSUME IInv, UNCHANGED <<prog, account, network, failed, faults, extra>>,
           NEW r, Holds(r), OnVenue(r), r.card \in Cards, r.venue = VenueOf(r.card), r.seq = 0,
           NEW y \in MirrorRows, y.card = r.card, y.seq = 0, rows' = Append(rows, y),
           NEW x, GoodCard(x, r.card), card' = [card EXCEPT ![r.card] = x],
           NEW n, n = Len(rows) + 1,
           NEW q, RowCopied(q, r, x, n)
    PROVE  Grows /\ NetworkOK' /\ DbOK' /\ Holds(q)' /\ OnCard(q)' /\ q.seq = 0
<1>1. /\ rows \in Seq(MirrorRows) /\ rows' \in Seq(MirrorRows) /\ n \in Nat /\ n # 0
      /\ \A i \in DOMAIN rows : i \in DOMAIN rows' /\ rows'[i] = rows[i]
      /\ n \in DOMAIN rows' /\ rows'[n] = y
      /\ \A i \in DOMAIN rows' : i \in DOMAIN rows \/ i = n
  BY Appended DEF IInv, DbOK, RowsOK
<1>2. Grows
  BY <1>1 DEF Grows, network
<1>3. NetworkOK'
  BY DEF IInv, NetworkOK, network
<1>4. RowsOK'
  <2>1. ASSUME NEW i \in DOMAIN rows', rows'[i].seq # 0 PROVE Said(i, rows[i].seq)'
    <3>1. i \in DOMAIN rows /\ rows'[i] = rows[i]
      BY <1>1, <2>1
    <3>2. PICK k : k = rows'[i].seq
      OBVIOUS
    <3>3. Said(i, k)
      BY <2>1, <3>1, <3>2 DEF IInv, DbOK, RowsOK
    <3>4. Said(i, k)'
      BY <1>2, <3>1, <3>3, SaidKept DEF IInv
    <3>. QED
      BY <3>2, <3>4 DEF Said
  <2>. QED
    BY <1>1, <2>1 DEF RowsOK
<1>5. x \in CardRows /\ x # None
  BY NoneIsNoRow DEF GoodCard
<1>6. CardsOK'
  BY <1>5 DEF IInv, DbOK, CardsOK, GoodCard, Minted, network
<1>7. DbOK'
  BY <1>2, <1>4, <1>6, TablesKept DEF IInv, DbOK
<1>8. r \in Requests /\ r.cards \in [Cards -> CardRows \cup {None}]
  BY DEF Holds, Requests
<1>9. /\ q \in Requests /\ q.cards = [r.cards EXCEPT ![r.card] = x] /\ q.progs = r.progs
      /\ q.venue = r.venue /\ q.card = r.card /\ q.row = n /\ q.seq = 0
      /\ q.phase = r.phase /\ q.work = r.work /\ q.queue = r.queue /\ q.touched = r.touched
  BY <1>1, <1>5, <1>8 DEF Requests, RowCopied
<1>10. Holds(r)'
  BY <1>2, HoldsKept DEF IInv
<1>11. GoodCard(x, r.card)'
  BY <1>2, GoodCardKept DEF IInv
<1>12. /\ \A c \in Cards : q.cards[c] = IF c = r.card THEN x ELSE r.cards[c]
       /\ \A c \in Cards : r.cards[c] # None => q.cards[c] # None
  BY <1>5, <1>8, <1>9
<1>13. \A c \in Cards : q.cards[c] # None => GoodCard(q.cards[c], c)'
  <2>1. ASSUME NEW c \in Cards, NEW z, z = q.cards[c], z # None PROVE GoodCard(z, c)'
    BY <1>10, <1>11, <1>12, <2>1 DEF Holds
  <2>. QED
    BY <2>1
<1>14. Holds(q)'
  BY <1>1, <1>9, <1>10, <1>12, <1>13 DEF Holds
<1>15. OnCard(q)'
  BY <1>1, <1>5, <1>9, <1>12 DEF OnCard, OnVenue
<1>. QED
  BY <1>2, <1>3, <1>7, <1>9, <1>14, <1>15

LEMMA PunchesAreCounted == ASSUME IInv, NEW c, NEW n PROVE Cardinality(Punches(c, n)) \in Nat
<1>1. Len(rows) \in Nat /\ DOMAIN rows = 1 .. Len(rows)
  BY DEF IInv, DbOK, RowsOK
<1>2. Punches(c, n) \subseteq 1 .. Len(rows)
  BY <1>1 DEF Punches
<1>3. IsFiniteSet(1 .. Len(rows))
  BY <1>1, FS_Interval
<1>. QED
  BY <1>2, <1>3, FS_Subset, FS_CardinalityType

LEMMA FilePunchStep ==
    ASSUME IInv, NEW w \in Sessions, FilePunch(w) PROVE IInv'
<1>1. PICK r \in Requests : req[w] = r /\ Sound(r)
  BY Suspended DEF IInv
<1>2. /\ Holds(r) /\ OnVenue(r) /\ r.card \in Cards /\ r.venue = VenueOf(r.card)
      /\ r.row = 0 /\ r.seq = 0
  BY <1>1 DEF FilePunch, Sound, Reached
<1>3. PICK m, x : /\ m = Cardinality(Punches(r.card, card[r.card].cycle)) + 1
                 /\ x = [card[r.card] EXCEPT !.count = m]
  OBVIOUS
<1>4. /\ card \in [Cards -> CardRows] /\ GoodCard(card[r.card], r.card)
      /\ card[r.card] \in CardRows
  BY <1>2 DEF IInv, DbOK, CardsOK
<1>5. x \in CardRows /\ x.serial = card[r.card].serial /\ x.holder = card[r.card].holder
  <2>1. m \in Nat
    BY <1>3, PunchesAreCounted
  <2>. QED
    BY <1>3, <1>4, <2>1 DEF CardRows
<1>6. GoodCard(x, r.card)
  BY <1>4, <1>5 DEF GoodCard
<1>7. PICK y : y = Punch(r.card, card[r.card].cycle)
  OBVIOUS
<1>8. y \in MirrorRows /\ y.card = r.card /\ y.seq = 0
  BY <1>2, <1>4, <1>7 DEF Punch, MirrorRows, CardRows
<1>9. /\ UNCHANGED <<prog, account, network, failed, faults, extra>>
      /\ rows' = Append(rows, y)
      /\ card' = [card EXCEPT ![r.card] = x] /\ card'[r.card] = x
  BY <1>1, <1>2, <1>3, <1>4, <1>7 DEF FilePunch
<1>10. PICK n : n = Len(rows) + 1
  OBVIOUS
<1>11. Len(rows') = n
  BY <1>8, <1>9, <1>10, Appended DEF IInv, DbOK, RowsOK
<1>12. PICK q : RowCopied(q, r, x, n)
  BY DEF RowCopied
<1>13. Grows /\ NetworkOK' /\ DbOK' /\ Holds(q)' /\ OnCard(q)' /\ q.seq = 0
  BY <1>2, <1>6, <1>8, <1>9, <1>10, <1>12, RowFiled
<1>14. PICK e : e = ToNft(q)
  OBVIOUS
<1>15. Sound(e)'
  BY <1>13, <1>14, ToNftAfter
<1>16. req' = [req EXCEPT ![w] = e]
  BY <1>1, <1>9, <1>11, <1>12, <1>14 DEF FilePunch, RowCopied
<1>. QED
  BY <1>13, <1>15, <1>16, OthersKept DEF IInv

LEMMA FileRedemptionStep ==
    ASSUME IInv, NEW w \in Sessions, FileRedemption(w) PROVE IInv'
<1>1. PICK r \in Requests : req[w] = r /\ Sound(r)
  BY Suspended DEF IInv
<1>2. /\ Holds(r) /\ OnVenue(r) /\ r.card \in Cards /\ r.venue = VenueOf(r.card)
      /\ r.row = 0 /\ r.seq = 0
  BY <1>1 DEF FileRedemption, Sound, Reached
<1>3. PICK x : x = [card[r.card] EXCEPT !.cycle = @ + 1, !.count = 0]
  OBVIOUS
<1>4. /\ card \in [Cards -> CardRows] /\ GoodCard(card[r.card], r.card)
      /\ card[r.card] \in CardRows
  BY <1>2 DEF IInv, DbOK, CardsOK
<1>5. x \in CardRows /\ x.serial = card[r.card].serial /\ x.holder = card[r.card].holder
  <2>1. card[r.card].cycle + 1 \in Nat
    BY <1>4 DEF CardRows
  <2>. QED
    BY <1>3, <1>4, <2>1 DEF CardRows
<1>6. GoodCard(x, r.card)
  BY <1>4, <1>5 DEF GoodCard
<1>7. PICK y : y = [kind |-> "redeem", card |-> r.card, cycle |-> card[r.card].cycle, seq |-> 0]
  OBVIOUS
<1>8. y \in MirrorRows /\ y.card = r.card /\ y.seq = 0
  BY <1>2, <1>4, <1>7 DEF MirrorRows, CardRows
<1>9. /\ UNCHANGED <<prog, account, network, failed, faults, extra>>
      /\ rows' = Append(rows, y)
      /\ card' = [card EXCEPT ![r.card] = x] /\ card'[r.card] = x
  BY <1>1, <1>2, <1>3, <1>4, <1>7 DEF FileRedemption
<1>10. PICK n : n = Len(rows) + 1
  OBVIOUS
<1>11. Len(rows') = n
  BY <1>8, <1>9, <1>10, Appended DEF IInv, DbOK, RowsOK
<1>12. PICK q : RowCopied(q, r, x, n)
  BY DEF RowCopied
<1>13. Grows /\ NetworkOK' /\ DbOK' /\ Holds(q)' /\ OnCard(q)' /\ q.seq = 0
  BY <1>2, <1>6, <1>8, <1>9, <1>10, <1>12, RowFiled
<1>14. PICK e : e = ToSubmit(q)
  OBVIOUS
<1>15. Sound(e)'
  BY <1>13, <1>14, ToSubmitAfter
<1>16. req' = [req EXCEPT ![w] = e]
  BY <1>1, <1>9, <1>11, <1>12, <1>14 DEF FileRedemption, RowCopied
<1>. QED
  BY <1>13, <1>15, <1>16, OthersKept DEF IInv
-----------------------------------------------------------------------------
(* A pass of reconcile *)

LEMMA BeginReconcileStep ==
    ASSUME IInv, NEW w \in Sessions, BeginReconcile(w) PROVE IInv'
<1>1. PICK T \in Limited(UnfinishedPrograms) :
           req' = [req EXCEPT ![w] =
               [Bare("reconcile", "pick", None, None) EXCEPT
                   !.progs = [v \in Venues |-> IF v \in T THEN prog[v] ELSE None], !.work = T]]
  BY DEF BeginReconcile
<1>2. T \subseteq Venues
  BY DEF Limited, UnfinishedPrograms
<1>3. \A v \in Venues : prog[v] \in ProgramRows /\ prog[v] # None /\ GoodProgram(prog[v], v)
  BY NoneIsNoRow DEF IInv, DbOK, ProgramsOK
<1>4. PICK b : b = Bare("reconcile", "pick", None, None)
  OBVIOUS
<1>5. Holds(b)
  BY <1>4, BareHolds DEF Ops, Steps
<1>6. PICK P : P = [v \in Venues |-> IF v \in T THEN prog[v] ELSE None]
  OBVIOUS
<1>7. /\ P \in [Venues -> ProgramRows \cup {None}]
      /\ \A v \in Venues : P[v] # None => GoodProgram(P[v], v)
      /\ T \subseteq {v \in Venues : P[v] # None}
  BY <1>2, <1>3, <1>6
<1>8. PICK q : q = [b EXCEPT !.progs = P, !.work = T]
  OBVIOUS
<1>9. /\ q \in Requests /\ q.progs = P /\ q.cards = b.cards /\ q.row = 0 /\ q.seq = 0
      /\ q.step = "pick" /\ q.touched = {} /\ q.queue = {} /\ q.work = T /\ q.phase = "programs"
  BY <1>2, <1>4, <1>5, <1>7, <1>8 DEF Bare, Holds, Requests
<1>10. Sound(q)
  BY <1>5, <1>7, <1>9 DEF Sound, Holds, Reached, VenueSteps, CardSteps, NftSteps
<1>11. UNCHANGED <<db, network>> /\ {failed', faults', extra'} \subseteq Nat
  BY DEF BeginReconcile, IInv, NetworkOK
<1>12. req' = [req EXCEPT ![w] = q]
  BY <1>1, <1>4, <1>6, <1>8
<1>. QED
  BY <1>10, <1>11, <1>12, QuietStep

\* q is r at the start of a phase.
PhaseBegun(q, r, phase, C, T, Q) ==
    /\ q \in Requests /\ q.progs = r.progs /\ q.cards = C /\ q.row = r.row /\ q.seq = r.seq
    /\ q.phase = phase /\ q.work = T /\ q.queue = Q /\ q.touched = r.touched /\ q.step = "pick"

\* A session between two items that goes on to other rows of other phases.
LEMMA PhaseSound ==
    ASSUME IInv, NEW r, Sound(r), r.step = "pick", r.work = {}, r.queue = {},
           NEW phase \in Phases \ {"programs"},
           NEW C \in [Cards -> CardRows \cup {None}],
           \A c \in Cards : C[c] # None => GoodCard(C[c], c),
           \A c \in Cards : r.cards[c] # None => C[c] # None,
           NEW T, T \subseteq {c \in Cards : C[c] # None},
           phase \in {"punch", "redeem"} => T = {},
           NEW Q, Q \subseteq DOMAIN rows,
           NEW q, PhaseBegun(q, r, phase, C, T, Q)
    PROVE  Sound(q)
<1>1. Holds(q)
  BY DEF Sound, Holds, Phases, PhaseBegun
<1>. QED
  BY <1>1 DEF PhaseBegun, Sound, Reached, VenueSteps, CardSteps, NftSteps

LEMMA NextPhaseStep ==
    ASSUME IInv, NEW w \in Sessions, NextPhase(w) PROVE IInv'
<1>1. PICK r \in Requests : req[w] = r /\ Sound(r)
  BY Suspended DEF IInv
<1>2. /\ r.step = "pick" /\ r.work = {} /\ r.queue = {} /\ Holds(r)
      /\ r.cards \in [Cards -> CardRows \cup {None}]
      /\ \A c \in Cards : r.cards[c] # None => GoodCard(r.cards[c], c)
      /\ r.touched \subseteq {c \in Cards : r.cards[c] # None}
      /\ req \in [Sessions -> Requests]
  BY <1>1 DEF NextPhase, Sound, Holds, Requests, IInv, ReqsOK
<1>3. \A c \in Cards : card[c] \in CardRows /\ card[c] # None /\ GoodCard(card[c], c)
  BY NoneIsNoRow DEF IInv, DbOK, CardsOK
<1>4. UNCHANGED <<db, network>> /\ {failed', faults', extra'} \subseteq Nat
  BY DEF NextPhase, IInv, NetworkOK
<1>5. DOMAIN rows \subseteq Nat
  BY DEF IInv, DbOK, RowsOK
<1>6. ASSUME NEW T \in Limited(CardsToFinish), r.phase = "programs",
             req' = [req EXCEPT ![w] = [r EXCEPT !.phase = "cards", !.work = T,
                         !.cards = [c \in Cards |-> IF c \in T THEN card[c] ELSE @[c]]]]
      PROVE  IInv'
  <2>1. T \subseteq Cards
    BY DEF Limited, CardsToFinish
  <2>2. PICK C : C = [c \in Cards |-> IF c \in T THEN card[c] ELSE r.cards[c]]
    OBVIOUS
  <2>3. /\ C \in [Cards -> CardRows \cup {None}]
        /\ \A c \in Cards : C[c] # None => GoodCard(C[c], c)
        /\ \A c \in Cards : r.cards[c] # None => C[c] # None
        /\ T \subseteq {c \in Cards : C[c] # None}
    BY <1>2, <1>3, <2>1, <2>2
  <2>4. PICK q : q = [r EXCEPT !.phase = "cards", !.work = T, !.cards = C]
    OBVIOUS
  <2>5. PhaseBegun(q, r, "cards", C, T, {})
    BY <1>2, <2>1, <2>3, <2>4 DEF PhaseBegun, Requests, Phases
  <2>6. Sound(q)
    BY <1>1, <1>2, <2>3, <2>5, PhaseSound DEF Phases
  <2>7. req' = [req EXCEPT ![w] = q]
    BY <1>6, <2>2, <2>4
  <2>. QED
    BY <1>4, <2>6, <2>7, QuietStep
<1>7. ASSUME NEW kind \in {"punch", "redeem"},
             req' = [req EXCEPT ![w] =
                 [r EXCEPT !.phase = kind, !.queue = Oldest(Unpublished(kind))]]
      PROVE  IInv'
  <2>1. PICK Q : Q = Oldest(Unpublished(kind))
    OBVIOUS
  <2>2. Q \subseteq DOMAIN rows
    BY <2>1 DEF Oldest, Unpublished
  <2>3. PICK q : q = [r EXCEPT !.phase = kind, !.queue = Q]
    OBVIOUS
  <2>4. PhaseBegun(q, r, kind, r.cards, {}, Q)
    BY <1>2, <1>5, <2>2, <2>3 DEF PhaseBegun, Requests, Phases
  <2>5. Sound(q)
    BY <1>1, <1>2, <2>2, <2>4, PhaseSound DEF Phases
  <2>6. req' = [req EXCEPT ![w] = q]
    BY <1>7, <2>1, <2>3
  <2>. QED
    BY <1>4, <2>5, <2>6, QuietStep
<1>8. ASSUME req' = [req EXCEPT ![w] = [r EXCEPT !.phase = "refresh", !.work = r.touched]]
      PROVE  IInv'
  <2>1. PICK q : q = [r EXCEPT !.phase = "refresh", !.work = r.touched]
    OBVIOUS
  <2>2. PhaseBegun(q, r, "refresh", r.cards, r.touched, {})
    BY <1>2, <2>1 DEF PhaseBegun, Requests, Phases
  <2>3. Sound(q)
    BY <1>1, <1>2, <2>2, PhaseSound DEF Phases
  <2>4. req' = [req EXCEPT ![w] = q]
    BY <1>8, <2>1
  <2>. QED
    BY <1>4, <2>3, <2>4, QuietStep
<1>9. ASSUME req' = [req EXCEPT ![w] = Idle] PROVE IInv'
  BY <1>4, <1>9, IdleSound, QuietStep
<1>. QED
  BY <1>1, <1>6, <1>7, <1>8, <1>9 DEF NextPhase

\* q is r, turned to its next item.
Turned(q, r, v, c, i) ==
    /\ q \in Requests /\ q.progs = r.progs /\ q.cards = r.cards /\ q.seq = r.seq
    /\ q.phase = r.phase /\ q.work \subseteq r.work /\ q.queue \subseteq r.queue
    /\ q.touched = r.touched /\ q.step = "pick" /\ q.venue = v /\ q.card = c /\ q.row = i

LEMMA TurnedHolds ==
    ASSUME IInv, NEW r, Sound(r), r.step = "pick", NEW v \in Venues, NEW c \in Cards \cup {None},
           NEW i, i # 0 => i \in DOMAIN rows, NEW q, Turned(q, r, v, c, i)
    PROVE  Holds(q) /\ q.seq = 0
BY DEF Turned, Sound, Reached, Holds

LEMMA PickProgramSound ==
    ASSUME IInv, NEW r, Sound(r), r.step = "pick", NEW v \in Venues, r.progs[v] # None
    PROVE  Sound(PickProgram(r, v))
<1>1. PICK q : q = [r EXCEPT !.venue = v, !.card = None, !.work = @ \ {v}]
  OBVIOUS
<1>2. Turned(q, r, v, None, 0)
  BY <1>1 DEF Turned, Sound, Reached, Holds, Requests
<1>3. Holds(q)
  BY <1>2, TurnedHolds
<1>4. OnVenue(q)
  BY <1>2 DEF OnVenue, Turned
<1>. QED
  BY <1>1, <1>3, <1>4, ToTokenSound DEF PickProgram

\* The card of a phase's item is already loaded; its program is loaded for it.
LEMMA LoadedForCard ==
    ASSUME IInv, NEW r, Sound(r), r.step = "pick", NEW c \in Cards, r.cards[c] # None,
           NEW q, Turned(q, r, VenueOf(c), c, 0),
           NEW l, l = Load(q, VenueOf(c), None)
    PROVE  Holds(l) /\ OnCard(l) /\ l.seq = 0 /\ l.row = 0 /\ l.step = "pick"
<1>1. VenueOf(c) \in Venues
  BY DEF Cards, VenueOf
<1>2. Holds(q) /\ q.seq = 0
  BY DEF Turned, Sound, Reached, Holds
<1>3. /\ Holds(l) /\ l.progs[VenueOf(c)] # None /\ l.cards[c] # None
      /\ l.venue = VenueOf(c) /\ l.card = c /\ l.row = 0 /\ l.seq = 0 /\ l.step = "pick"
  <2>1. /\ Holds(l) /\ l.progs[VenueOf(c)] # None
        /\ \A d \in Cards : q.cards[d] # None => l.cards[d] # None
        /\ l.venue = q.venue /\ l.card = q.card /\ l.row = q.row /\ l.seq = q.seq
        /\ l.step = q.step
    <3>1. PICK v \in Venues, d \in Cards \cup {None} : v = VenueOf(c) /\ d = None
      BY <1>1
    <3>2. l = Load(q, v, d) /\ Holds(q)
      BY <1>1, <1>2, <3>1
    <3>3. /\ Holds(l) /\ l.progs[v] # None /\ (d # None => l.cards[d] # None)
          /\ \A e \in Cards : q.cards[e] # None => l.cards[e] # None
          /\ l.step = q.step /\ l.venue = q.venue /\ l.card = q.card
          /\ l.row = q.row /\ l.seq = q.seq
      BY <3>2, LoadHolds
    <3>. QED
      BY <1>1, <1>2, <3>1, <3>3
  <2>. QED
    BY <1>2, <2>1 DEF Turned
<1>. QED
  BY <1>1, <1>3 DEF OnCard, OnVenue

LEMMA PickCardSound ==
    ASSUME IInv, NEW r, Sound(r), r.step = "pick", NEW c \in Cards, r.cards[c] # None
    PROVE  Sound(PickCard(r, c)) /\ Sound(PickStale(r, c))
<1>1. PICK q, l : /\ q = [r EXCEPT !.venue = VenueOf(c), !.card = c, !.work = @ \ {c}]
                  /\ l = Load(q, VenueOf(c), None)
  OBVIOUS
<1>2. Holds(l) /\ OnCard(l) /\ l.seq = 0 /\ l.row = 0 /\ l.step = "pick"
  <2>1. Turned(q, r, VenueOf(c), c, 0)
    BY <1>1 DEF Turned, Sound, Reached, Holds, Requests, Cards, VenueOf
  <2>. QED
    BY <1>1, <2>1, LoadedForCard
<1>3. Sound(ToNft(l))
  BY <1>2, ToNftSound
<1>4. Sound(l)
  BY <1>2 DEF Sound, Reached, VenueSteps, CardSteps, NftSteps
<1>5. Sound(At(l, "refresh"))
  <2>1. PICK n : n = At(l, "refresh")
    OBVIOUS
  <2>2. Holds(n) /\ OnCard(n) /\ n.step = "refresh"
    BY <1>2, <2>1, AtHolds DEF Steps
  <2>3. Sound(n)
    BY <2>2 DEF Sound, Reached, VenueSteps, CardSteps, NftSteps
  <2>. QED
    BY <2>1, <2>3
<1>. QED
  BY <1>1, <1>3, <1>4, <1>5 DEF PickCard, PickStale

LEMMA PickRowSound ==
    ASSUME IInv, NEW r, Sound(r), r.step = "pick", NEW i \in DOMAIN rows
    PROVE  Sound(PickRow(r, i))
<1>1. PICK c : c = rows[i].card
  OBVIOUS
<1>2. c \in Cards /\ VenueOf(c) \in Venues /\ i \in Nat /\ i # 0
  <2>1. rows \in Seq(MirrorRows) /\ i \in 1 .. Len(rows)
    BY DEF IInv, DbOK, RowsOK
  <2>2. rows[i] \in MirrorRows /\ i \in Nat /\ i # 0
    BY <2>1, ElementOfSeq
  <2>. QED
    BY <1>1, <2>2 DEF MirrorRows, Cards, VenueOf
<1>3. PICK q, l : /\ q = [r EXCEPT !.venue = VenueOf(c), !.card = c, !.row = i, !.queue = @ \ {i}]
                  /\ l = Load(q, VenueOf(c), c)
  OBVIOUS
<1>4. Turned(q, r, VenueOf(c), c, i)
  BY <1>2, <1>3 DEF Turned, Sound, Reached, Holds, Requests
<1>5. Holds(q) /\ q.seq = 0
  BY <1>2, <1>4, TurnedHolds
<1>6. c # None
  BY <1>2, LedgerNone DEF Cards
<1>7. /\ Holds(l) /\ l.progs[VenueOf(c)] # None /\ l.cards[c] # None
      /\ l.venue = VenueOf(c) /\ l.card = c /\ l.row = i /\ l.seq = 0
  <2>1. /\ Holds(l) /\ l.progs[VenueOf(c)] # None /\ l.cards[c] # None
        /\ l.venue = q.venue /\ l.card = q.card /\ l.row = q.row /\ l.seq = q.seq
    <3>1. PICK v \in Venues, d \in Cards \cup {None} : v = VenueOf(c) /\ d = c
      BY <1>2
    <3>2. l = Load(q, v, d) /\ Holds(q)
      BY <1>2, <1>3, <1>5, <1>6, <3>1
    <3>3. /\ Holds(l) /\ l.progs[v] # None /\ (d # None => l.cards[d] # None)
          /\ \A e \in Cards : q.cards[e] # None => l.cards[e] # None
          /\ l.step = q.step /\ l.venue = q.venue /\ l.card = q.card
          /\ l.row = q.row /\ l.seq = q.seq
      BY <3>2, LoadHolds
    <3>. QED
      BY <1>2, <1>3, <1>5, <1>6, <3>1, <3>3
  <2>. QED
    BY <1>4, <1>5, <2>1 DEF Turned
<1>8. OnCard(l)
  BY <1>1, <1>2, <1>7 DEF OnCard, OnVenue
<1>9. Sound(Ended(l))
  BY <1>7, EndedSound
<1>10. ASSUME Program(l).topic # 0 PROVE Sound(At(l, "submit"))
  <2>1. PICK n : n = At(l, "submit")
    OBVIOUS
  <2>2. Holds(n) /\ OnCard(n) /\ n.step = "submit" /\ n.seq = 0 /\ Program(n).topic # 0
    BY <1>7, <1>8, <1>10, <2>1, AtHolds DEF Steps, OnCard
  <2>3. Sound(n)
    BY <2>2 DEF Sound, Reached, VenueSteps, CardSteps, NftSteps
  <2>. QED
    BY <2>1, <2>3
<1>. QED
  BY <1>1, <1>3, <1>9, <1>10 DEF PickRow

LEMMA PickStep ==
    ASSUME IInv, NEW w \in Sessions, Pick(w) PROVE IInv'
<1>1. PICK r \in Requests : req[w] = r /\ Sound(r)
  BY Suspended DEF IInv
<1>2. /\ r.step = "pick" /\ r.queue \subseteq DOMAIN rows /\ r.phase \in Phases
      /\ r.phase = "programs" => r.work \subseteq {v \in Venues : r.progs[v] # None}
      /\ r.phase \in {"cards", "refresh"} => r.work \subseteq {c \in Cards : r.cards[c] # None}
      /\ r.phase \in {"punch", "redeem"} => r.work = {}
  BY <1>1 DEF Pick, Sound, Holds, Requests
<1>3. UNCHANGED <<db, network>> /\ {failed', faults', extra'} \subseteq Nat
  BY DEF Pick, IInv, NetworkOK
<1>4. ASSUME NEW x \in r.work,
             req' = [req EXCEPT ![w] = CASE r.phase = "programs" -> PickProgram(r, x)
                                         [] r.phase = "cards" -> PickCard(r, x)
                                         [] r.phase = "refresh" -> PickStale(r, x)]
      PROVE  IInv'
  <2>1. PICK q : q = CASE r.phase = "programs" -> PickProgram(r, x)
                       [] r.phase = "cards" -> PickCard(r, x)
                       [] r.phase = "refresh" -> PickStale(r, x)
    OBVIOUS
  <2>2. Sound(q)
    <3>1. CASE r.phase = "programs"
      BY <1>1, <1>2, <2>1, <3>1, PickProgramSound
    <3>2. CASE r.phase \in {"cards", "refresh"}
      BY <1>1, <1>2, <2>1, <3>2, PickCardSound
    <3>. QED
      BY <1>2, <3>1, <3>2 DEF Phases
  <2>. QED
    BY <1>3, <1>4, <2>1, <2>2, QuietStep
<1>5. ASSUME NEW i \in r.queue, req' = [req EXCEPT ![w] = PickRow(r, i)] PROVE IInv'
  BY <1>1, <1>2, <1>3, <1>5, PickRowSound, QuietStep
<1>. QED
  BY <1>1, <1>4, <1>5 DEF Pick
-----------------------------------------------------------------------------
(* The invariant, and what follows from it *)

LEMMA InitSound == ASSUME Init PROVE IInv
<1>1. NetworkOK
  BY DEF Init, NetworkOK
<1>2. /\ rows \in Seq(MirrorRows) /\ \A i \in DOMAIN rows : rows[i].seq = 0
  <2> DEFINE old == {c \in Cards : VenueOf(c) \in Retired}
  <2>1. IsFiniteSet(Cards)
    BY LedgerRetired, FS_Product DEF Cards
  <2>2. Cardinality(old) \in Nat
    BY <2>1, FS_Subset, FS_CardinalityType
  <2>3. {Punch(c, 1) : c \in old} \subseteq {m \in MirrorRows : m.seq = 0}
    BY DEF Punch, MirrorRows
  <2>4. rows \in [1 .. Cardinality(old) -> {m \in MirrorRows : m.seq = 0}]
    BY <2>3 DEF Init, EarlierRows
  <2>. HIDE DEF old
  <2>. QED
    BY <2>2, <2>4
<1>3. ProgramsOK
  BY DEF Init, ProgramsOK, GoodProgram, ProgramRows
<1>4. CardsOK
  BY DEF Init, CardsOK, GoodCard, CardRows
<1>5. AccountsOK /\ RowsOK
  BY <1>2 DEF Init, AccountsOK, RowsOK
<1>6. ReqsOK
  BY IdleSound DEF Init, ReqsOK
<1>. QED
  BY <1>1, <1>3, <1>4, <1>5, <1>6 DEF IInv, DbOK

LEMMA StutterSound == ASSUME IInv, UNCHANGED vars PROVE IInv'
<1>1. UNCHANGED <<db, network, req, failed, faults, extra>>
  BY DEF vars, db, network
<1>2. Grows /\ NetworkOK'
  BY <1>1, NothingChanged DEF IInv, NetworkOK
<1>3. DbOK'
  BY <1>1, <1>2, TablesKept DEF IInv, DbOK, db
<1>4. ReqsOK'
  BY <1>1, <1>2, SoundKept DEF IInv, ReqsOK
<1>. QED
  BY <1>2, <1>3, <1>4 DEF IInv

LEMMA NextSound == ASSUME IInv, [Next]_vars PROVE IInv'
<1>1. ASSUME NEW v \in Venues, Pause(v) PROVE IInv'
  BY <1>1, PauseStep
<1>2. ASSUME NEW w \in Sessions, Proceed(w) PROVE IInv'
  BY <1>2, FilePunchStep, FileRedemptionStep, CreateCollectionStep, SaveTokenStep,
     CreateTopicStep, SaveTopicStep, FindAccountStep, CreateAccountStep, KeepAccountStep,
     MintCardStep, SaveSerialStep, TransferCardStep, SaveHolderStep, SubmitStep,
     MetadataStep, WriteProofStep, NextPhaseStep, PickStep DEF Proceed
<1>3. ASSUME NEW w \in Sessions, Arrive(w) PROVE IInv'
  BY <1>3, OptInStep, BeginStep, RecountStep DEF Arrive
<1>4. ASSUME NEW w \in Sessions, BeginReconcile(w) \/ Crash(w) PROVE IInv'
  BY <1>4, BeginReconcileStep, CrashStep
<1>. QED
  BY <1>1, <1>2, <1>3, <1>4, StutterSound DEF Next

\* Every copy, id and answer a request holds is good, whatever raced or died.
THEOREM WhatIsHeldIsTrue == Spec => []IInv
BY InitSound, NextSound, PTL DEF Spec

\* Rows, requests and the network always have their shape.
THEOREM TypeCorrect == Spec => []TypeOK
<1>1. IInv => TypeOK
  BY DEF IInv, NetworkOK, DbOK, ProgramsOK, CardsOK, AccountsOK, RowsOK, ReqsOK, TypeOK
<1>. QED
  BY <1>1, WhatIsHeldIsTrue, PTL

\* A reference in the database is never a guess: what it names exists on the
\* network and was made for that venue, user, card or row (RefsExist).
THEOREM ReferencesExist == Spec => []RefsExist
<1>1. ASSUME IInv PROVE RefsExist
  <2>1. ASSUME NEW c \in Cards, card[c].serial # 0
        PROVE  \E p \in NftsOf(c) : p[2] = card[c].serial /\ tokens[p[1]] = VenueOf(c)
    <3>1. Minted(c, card[c].serial)
      BY <1>1, <2>1 DEF IInv, DbOK, CardsOK, GoodCard
    <3>2. PICK t \in DOMAIN nfts : /\ card[c].serial \in DOMAIN nfts[t]
                                   /\ nfts[t][card[c].serial].card = c /\ tokens[t] = VenueOf(c)
      BY <3>1 DEF Minted
    <3>3. <<t, card[c].serial>> \in NftsOf(c)
      BY <3>2 DEF NftsOf
    <3>. QED
      BY <3>2, <3>3
  <2>2. ASSUME NEW i \in DOMAIN rows, rows[i].seq # 0
        PROVE  \E p \in MessagesOf(i) :
                   p[2] = rows[i].seq /\ topics[p[1]] = VenueOf(rows[i].card)
    <3>1. PICK t \in DOMAIN log : /\ rows[i].seq \in DOMAIN log[t]
                                  /\ log[t][rows[i].seq].row = i
                                  /\ topics[t] = VenueOf(rows[i].card)
      BY <1>1, <2>2 DEF IInv, DbOK, RowsOK, Said
    <3>2. <<t, rows[i].seq>> \in MessagesOf(i)
      BY <3>1 DEF MessagesOf
    <3>. QED
      BY <3>1, <3>2
  <2>3. ASSUME NEW v \in Venues
        PROVE  /\ prog[v].token # 0 => prog[v].token \in DOMAIN tokens /\ tokens[prog[v].token] = v
               /\ prog[v].topic # 0 => prog[v].topic \in DOMAIN topics /\ topics[prog[v].topic] = v
    BY <1>1 DEF IInv, DbOK, ProgramsOK, GoodProgram
  <2>4. ASSUME NEW u \in Users
        PROVE  account[u] # 0 => account[u] \in DOMAIN accounts /\ accounts[account[u]] = u
    BY <1>1 DEF IInv, DbOK, AccountsOK
  <2>5. ASSUME NEW c \in Cards PROVE card[c].holder # 0 => card[c].holder = account[Owner(c)]
    BY <1>1 DEF IInv, DbOK, CardsOK, GoodCard
  <2>. QED
    BY <2>1, <2>2, <2>3, <2>4, <2>5 DEF RefsExist
<1>. QED
  BY <1>1, WhatIsHeldIsTrue, PTL

-----------------------------------------------------------------------------
(* What no step of the mirror takes back, and that the mirror implements    *)
(* MirrorOutbox: a row is filed, then sent, then settled.                   *)

\* What a step can do to a reference: nothing, or give the id its session holds.
LEMMA ReferencesKept == ASSUME IInv, [Next]_vars PROVE KeepsReferences
<1>1. /\ prog \in [Venues -> ProgramRows] /\ card \in [Cards -> CardRows]
      /\ account \in [Users -> Nat] /\ rows \in Seq(MirrorRows)
  BY DEF IInv, DbOK, ProgramsOK, CardsOK, AccountsOK, RowsOK
<1>2. ASSUME UNCHANGED db PROVE KeepsReferences
  BY <1>2 DEF KeepsReferences, db
<1>3. ASSUME NEW v \in Venues, Pause(v) PROVE KeepsReferences
  BY <1>1, <1>3 DEF KeepsReferences, Pause, ProgramRows
<1>4. ASSUME NEW w \in Sessions, NEW v \in Venues, OptIn(w, v) PROVE KeepsReferences
  BY <1>1, <1>4 DEF KeepsReferences, OptIn, ProgramRows
<1>5. ASSUME NEW w \in Sessions, SaveToken(w) PROVE KeepsReferences
  <2>1. PICK r \in Requests : req[w] = r /\ Sound(r)
    BY Suspended DEF IInv
  <2>2. r.venue \in Venues /\ r.got \in DOMAIN tokens
    BY <1>5, <2>1 DEF SaveToken, Sound, Reached, VenueSteps, OnVenue
  <2>3. r.got # 0
    BY <2>2 DEF IInv, NetworkOK
  <2>4. prog' = [prog EXCEPT ![r.venue].token = r.got] /\ UNCHANGED <<card, rows, account>>
    BY <1>5, <2>1 DEF SaveToken
  <2>. QED
    BY <1>1, <2>2, <2>3, <2>4 DEF KeepsReferences, ProgramRows
<1>6. ASSUME NEW w \in Sessions, SaveTopic(w) PROVE KeepsReferences
  <2>1. PICK r \in Requests : req[w] = r /\ Sound(r)
    BY Suspended DEF IInv
  <2>2. r.venue \in Venues /\ r.got \in DOMAIN topics
    BY <1>6, <2>1 DEF SaveTopic, Sound, Reached, VenueSteps, OnVenue
  <2>3. r.got # 0
    BY <2>2 DEF IInv, NetworkOK
  <2>4. prog' = [prog EXCEPT ![r.venue].topic = r.got] /\ UNCHANGED <<card, rows, account>>
    BY <1>6, <2>1 DEF SaveTopic
  <2>. QED
    BY <1>1, <2>2, <2>3, <2>4 DEF KeepsReferences, ProgramRows
<1>7. ASSUME NEW w \in Sessions, SaveSerial(w) PROVE KeepsReferences
  <2>1. PICK r \in Requests : req[w] = r /\ Sound(r)
    BY Suspended DEF IInv
  <2>2. r.card \in Cards /\ r.got # 0
    BY <1>7, <2>1 DEF SaveSerial, Sound, Reached, CardSteps, NftSteps, OnCard
  <2>3. card' = [card EXCEPT ![r.card].serial = r.got] /\ UNCHANGED <<prog, rows, account>>
    BY <1>7, <2>1 DEF SaveSerial
  <2>. QED
    BY <1>1, <2>2, <2>3 DEF KeepsReferences, CardRows
<1>8. ASSUME NEW w \in Sessions, SaveHolder(w) PROVE KeepsReferences
  <2>1. PICK r \in Requests : req[w] = r /\ Sound(r)
    BY Suspended DEF IInv
  <2>2. r.card \in Cards /\ r.account # 0
    BY <1>8, <2>1 DEF SaveHolder, Sound, Reached, CardSteps, NftSteps, OnCard
  <2>3. card' = [card EXCEPT ![r.card].holder = r.account] /\ UNCHANGED <<prog, rows, account>>
    BY <1>8, <2>1 DEF SaveHolder
  <2>. QED
    BY <1>1, <2>2, <2>3 DEF KeepsReferences, CardRows
<1>9. ASSUME NEW w \in Sessions, KeepAccount(w) PROVE KeepsReferences
  BY <1>1, <1>9 DEF KeepsReferences, KeepAccount
<1>10. ASSUME NEW w \in Sessions, WriteProof(w) PROVE KeepsReferences
  <2>1. PICK r \in Requests : req[w] = r /\ Sound(r)
    BY Suspended DEF IInv
  <2>2. r.row \in DOMAIN rows /\ r.seq # 0
    BY <1>10, <2>1 DEF WriteProof, Sound, Reached, Holds
  <2>3. rows' = [rows EXCEPT ![r.row].seq = r.seq] /\ UNCHANGED <<prog, card, account>>
    BY <1>10, <2>1 DEF WriteProof
  <2>4. \A i \in DOMAIN rows : rows[i] \in MirrorRows
    BY <1>1, ElementOfSeq
  <2>. QED
    BY <1>1, <2>2, <2>3, <2>4 DEF KeepsReferences, MirrorRows
<1>11. ASSUME NEW w \in Sessions, FilePunch(w) \/ FileRedemption(w) PROVE KeepsReferences
  <2>1. /\ UNCHANGED <<prog, account>>
        /\ \A c \in Cards : card'[c].serial = card[c].serial /\ card'[c].holder = card[c].holder
    <3>1. CASE FilePunch(w)
      <4>1. PICK c, m : card' = [card EXCEPT ![c].count = m] /\ UNCHANGED <<prog, account>>
        BY <3>1 DEF FilePunch
      <4>. QED
        BY <1>1, <4>1 DEF CardRows
    <3>2. CASE FileRedemption(w)
      <4>1. PICK c : /\ card' = [card EXCEPT ![c].cycle = @ + 1, ![c].count = 0]
                     /\ UNCHANGED <<prog, account>>
        BY <3>2 DEF FileRedemption
      <4>. QED
        BY <1>1, <4>1 DEF CardRows
    <3>. QED
      BY <1>11, <3>1, <3>2
  <2>2. \E y : rows' = Append(rows, y)
    BY <1>11 DEF FilePunch, FileRedemption
  <2>3. \A i \in DOMAIN rows : rows'[i] = rows[i]
    BY <1>1, <2>2
  <2>. QED
    BY <2>1, <2>3 DEF KeepsReferences
<1>12. ASSUME NEW w \in Sessions,
              \/ CreateCollection(w) \/ CreateTopic(w) \/ FindAccount(w) \/ CreateAccount(w)
              \/ MintCard(w) \/ TransferCard(w) \/ Submit(w) \/ UpdateMetadata(w)
              \/ NextPhase(w) \/ Pick(w) \/ RefreshMetadata(w)
              \/ BeginReconcile(w) \/ Crash(w)
              \/ \E c \in Cards : Begin(w, "punch", c) \/ Begin(w, "redeem", c) \/ Recount(w, c)
       PROVE  UNCHANGED db
  BY <1>12 DEF CreateCollection, CreateTopic, FindAccount, CreateAccount, MintCard,
     TransferCard, Submit, UpdateMetadata, NextPhase, Pick, RefreshMetadata, Repoint,
     BeginReconcile, Crash, Begin, Recount
<1>13. ASSUME UNCHANGED vars PROVE UNCHANGED db
  BY <1>13 DEF vars, db
<1>. QED
  BY <1>2, <1>3, <1>4, <1>5, <1>6, <1>7, <1>8, <1>9, <1>10, <1>11, <1>12, <1>13
  DEF Next, Proceed, Arrive

\* No reference the database has earned is ever taken back (NeverCleared).
THEOREM NothingIsCleared == Spec => NeverCleared
<1>1. IInv /\ [Next]_vars => [KeepsReferences]_vars
  BY ReferencesKept
<1>. QED
  BY <1>1, WhatIsHeldIsTrue, PTL DEF Spec, NeverCleared
-----------------------------------------------------------------------------
(* Every step, seen by the outbox: five kinds of step *)

Quiet == UNCHANGED <<rows, log>>
TopicOpened == UNCHANGED rows /\ log' = Append(log, <<>>)
Filed == UNCHANGED log /\ \E y \in MirrorRows : y.seq = 0 /\ rows' = Append(rows, y)
Submitted ==
    /\ UNCHANGED rows
    /\ \E t \in DOMAIN log : \E x \in Messages :
           /\ x.row = 0 \/ x.row \in DOMAIN rows
           /\ log' = [log EXCEPT ![t] = Append(@, x)]
Proved ==
    /\ UNCHANGED log
    /\ \E i \in DOMAIN rows : \E k \in Nat \ {0} :
           Said(i, k) /\ rows' = [rows EXCEPT ![i].seq = k]

LEMMA FilingSteps ==
    ASSUME IInv, NEW w \in Sessions, FilePunch(w) \/ FileRedemption(w) PROVE Filed
<1>1. PICK r \in Requests : req[w] = r /\ Sound(r)
  BY Suspended DEF IInv
<1>2. r.card \in Cards
  BY <1>1 DEF FilePunch, FileRedemption, Sound, Reached
<1>3. card[r.card].cycle \in Nat
  BY <1>2 DEF IInv, DbOK, CardsOK, CardRows
<1>4. CASE FilePunch(w)
  <2>1. rows' = Append(rows, Punch(r.card, card[r.card].cycle)) /\ UNCHANGED network
    BY <1>1, <1>4 DEF FilePunch
  <2>2. /\ Punch(r.card, card[r.card].cycle) \in MirrorRows
        /\ Punch(r.card, card[r.card].cycle).seq = 0
    BY <1>2, <1>3 DEF Punch, MirrorRows
  <2>. QED
    BY <2>1, <2>2 DEF Filed, network
<1>5. CASE FileRedemption(w)
  <2> DEFINE y == [kind |-> "redeem", card |-> r.card, cycle |-> card[r.card].cycle, seq |-> 0]
  <2>1. rows' = Append(rows, y) /\ UNCHANGED network
    BY <1>1, <1>5 DEF FileRedemption
  <2>2. y \in MirrorRows /\ y.seq = 0
    BY <1>2, <1>3 DEF MirrorRows
  <2>. QED
    BY <2>1, <2>2 DEF Filed, network
<1>. QED
  BY <1>4, <1>5

LEMMA SubmittingStep == ASSUME IInv, NEW w \in Sessions, Submit(w) PROVE Quiet \/ Submitted
<1>1. PICK r \in Requests : req[w] = r /\ Sound(r)
  BY Suspended DEF IInv
<1>2. Holds(r) /\ OnCard(r) /\ Program(r).topic # 0
  BY <1>1 DEF Submit, Sound, Reached, CardSteps
<1>3. PICK t, x : t = Program(r).topic /\ x = [row |-> r.row, count |-> MessageCount(r)]
  OBVIOUS
<1>4. t \in DOMAIN log
  <2>1. GoodProgram(Program(r), r.venue)
    BY <1>2 DEF Holds, OnCard, OnVenue, Program
  <2>. QED
    BY <1>2, <1>3, <2>1, SameDomains DEF GoodProgram, IInv
<1>5. x \in Messages /\ (x.row = 0 \/ x.row \in DOMAIN rows)
  <2>1. Card(r).count \in Nat
    BY <1>2 DEF Holds, OnCard, Card, GoodCard, CardRows
  <2>2. MessageCount(r) \in Nat
    BY <2>1, OrdinalIsNat DEF MessageCount
  <2>. QED
    BY <1>2, <1>3, <2>2 DEF Messages, Requests, Holds
<1>6. UNCHANGED rows
  BY DEF Submit, db
<1>7. \/ log' = [log EXCEPT ![t] = Append(@, [row |-> r.row, count |-> MessageCount(r)])]
      \/ UNCHANGED log
  BY <1>1, <1>3 DEF Submit, Call
<1>. QED
  BY <1>3, <1>4, <1>5, <1>6, <1>7 DEF Quiet, Submitted

LEMMA ProvingStep == ASSUME IInv, NEW w \in Sessions, WriteProof(w) PROVE Proved
<1>1. PICK r \in Requests : req[w] = r /\ Sound(r)
  BY Suspended DEF IInv
<1>2. r.row \in DOMAIN rows /\ r.seq \in Nat \ {0} /\ Said(r.row, r.seq)
  BY <1>1 DEF WriteProof, Sound, Reached, Holds, Requests
<1>3. rows' = [rows EXCEPT ![r.row].seq = r.seq] /\ UNCHANGED log
  BY <1>1 DEF WriteProof, network
<1>. QED
  BY <1>2, <1>3 DEF Proved

LEMMA OutboxSteps ==
    ASSUME IInv, [Next]_vars PROVE Quiet \/ TopicOpened \/ Filed \/ Submitted \/ Proved
<1>1. ASSUME NEW w \in Sessions, CreateTopic(w) PROVE Quiet \/ TopicOpened
  BY <1>1 DEF CreateTopic, Call, Quiet, TopicOpened, db
<1>2. ASSUME NEW w \in Sessions,
             \/ CreateCollection(w) \/ SaveToken(w) \/ SaveTopic(w) \/ FindAccount(w)
             \/ CreateAccount(w) \/ KeepAccount(w) \/ MintCard(w) \/ SaveSerial(w)
             \/ TransferCard(w) \/ SaveHolder(w) \/ UpdateMetadata(w) \/ NextPhase(w)
             \/ Pick(w) \/ RefreshMetadata(w) \/ BeginReconcile(w) \/ Crash(w)
             \/ \E v \in Venues : OptIn(w, v)
             \/ \E c \in Cards : Begin(w, "punch", c) \/ Begin(w, "redeem", c) \/ Recount(w, c)
      PROVE  Quiet
  BY <1>2 DEF CreateCollection, SaveToken, SaveTopic, FindAccount, CreateAccount, KeepAccount,
     MintCard, SaveSerial, TransferCard, SaveHolder, UpdateMetadata, NextPhase, Pick,
     RefreshMetadata, Repoint, BeginReconcile, Crash, OptIn, Begin, Recount, db, network, Quiet
<1>3. ASSUME NEW v \in Venues, Pause(v) PROVE Quiet
  BY <1>3 DEF Pause, network, Quiet
<1>4. ASSUME UNCHANGED vars PROVE Quiet
  BY <1>4 DEF vars, Quiet
<1>. QED
  BY <1>1, <1>2, <1>3, <1>4, FilingSteps, SubmittingStep, ProvingStep DEF Next, Proceed, Arrive
-----------------------------------------------------------------------------
(* The refinement *)

\* A message names i.  None is about a row that is not filed.
Told(i) == \E t \in DOMAIN log : \E k \in DOMAIN log[t] : log[t][k].row = i
MessagesFiled == \A i : Told(i) => i = 0 \/ i \in DOMAIN rows

LEMMA ToldMeansSent == \A i : MessagesOf(i) # {} <=> Told(i)
<1>1. ASSUME NEW i, Told(i) PROVE MessagesOf(i) # {}
  <2>1. PICK t \in DOMAIN log : \E k \in DOMAIN log[t] : log[t][k].row = i
    BY <1>1 DEF Told
  <2>2. PICK k \in DOMAIN log[t] : log[t][k].row = i
    BY <2>1
  <2>3. <<t, k>> \in MessagesOf(i)
    BY <2>1, <2>2 DEF MessagesOf
  <2>. QED
    BY <2>3
<1>2. ASSUME NEW i, MessagesOf(i) # {} PROVE Told(i)
  BY <1>2 DEF MessagesOf, Told
<1>. QED
  BY <1>1, <1>2

LEMMA ToldMeansSentAfter == (\A i : MessagesOf(i) # {} <=> Told(i))'
BY ToldMeansSent, PTL

\* What each kind of step does to the rows and to what is told of them.
LEMMA RowsShape == ASSUME IInv PROVE /\ rows \in Seq(MirrorRows) /\ DOMAIN rows = 1 .. Len(rows)
                                     /\ Len(rows) \in Nat
BY DEF IInv, DbOK, RowsOK

LEMMA FiledEffect ==
    ASSUME IInv, Filed
    PROVE  /\ Len(rows') = Len(rows) + 1 /\ DOMAIN rows' = DOMAIN rows \cup {Len(rows) + 1}
           /\ \A i \in DOMAIN rows : rows'[i] = rows[i]
           /\ rows'[Len(rows) + 1].seq = 0
           /\ \A i : Told(i)' <=> Told(i)
<1>1. PICK y \in MirrorRows : y.seq = 0 /\ rows' = Append(rows, y)
  BY DEF Filed
<1>2. /\ Len(rows') = Len(rows) + 1 /\ DOMAIN rows' = DOMAIN rows \cup {Len(rows) + 1}
      /\ \A i \in DOMAIN rows : rows'[i] = rows[i]
      /\ rows'[Len(rows) + 1] = y
  BY <1>1, RowsShape
<1>3. UNCHANGED log
  BY DEF Filed
<1>. QED
  BY <1>1, <1>2, <1>3 DEF Told

LEMMA SubmittedEffect ==
    ASSUME IInv, UNCHANGED rows, NEW t \in DOMAIN log, NEW x \in Messages,
           log' = [log EXCEPT ![t] = Append(@, x)]
    PROVE  \A i : Told(i)' <=> Told(i) \/ i = x.row
<1>1. log \in Seq(Seq(Messages)) /\ t \in 1 .. Len(log) /\ log[t] \in Seq(Messages)
  BY DEF IInv, NetworkOK
<1>2. PICK s : s = Append(log[t], x)
  OBVIOUS
<1>3. /\ s \in Seq(Messages) /\ DOMAIN s = DOMAIN log[t] \cup {Len(log[t]) + 1}
      /\ \A k \in DOMAIN log[t] : s[k] = log[t][k]
      /\ s[Len(log[t]) + 1] = x
  BY <1>1, <1>2
<1>4. /\ DOMAIN log' = DOMAIN log
      /\ \A j \in DOMAIN log : log'[j] = IF j = t THEN s ELSE log[j]
  BY <1>1, <1>2, <1>3, ExceptSeq
<1>. QED
  BY <1>3, <1>4 DEF Told

LEMMA ProvedEffect ==
    ASSUME IInv, NEW i \in DOMAIN rows, NEW k, rows' = [rows EXCEPT ![i].seq = k], UNCHANGED log
    PROVE  /\ DOMAIN rows' = DOMAIN rows /\ Len(rows') = Len(rows)
           /\ \A j \in DOMAIN rows : rows'[j].seq = IF j = i THEN k ELSE rows[j].seq
           /\ \A j : Told(j)' <=> Told(j)
<1>1. \A j \in DOMAIN rows : rows[j] \in MirrorRows
  BY RowsShape, ElementOfSeq
<1>2. \A j \in DOMAIN rows : rows'[j].seq = IF j = i THEN k ELSE rows[j].seq
  BY <1>1 DEF MirrorRows
<1>3. DOMAIN rows' = DOMAIN rows
  OBVIOUS
<1>4. Len(rows') = Len(rows)
  BY RowsShape
<1>. QED
  BY <1>2, <1>3, <1>4 DEF Told

LEMMA TopicOpenedEffect ==
    ASSUME IInv, TopicOpened PROVE \A i : Told(i)' <=> Told(i)
<1>1. /\ log \in Seq(Seq(Messages)) /\ log' = Append(log, <<>>)
  BY DEF IInv, NetworkOK, TopicOpened
<1>2. /\ DOMAIN log' = DOMAIN log \cup {Len(log) + 1} /\ \A t \in DOMAIN log : log'[t] = log[t]
      /\ log'[Len(log) + 1] = <<>>
  BY <1>1
<1>3. DOMAIN <<>> = {}
  OBVIOUS
<1>. QED
  BY <1>2, <1>3 DEF Told

LEMMA MessagesFiledKept ==
    ASSUME IInv, MessagesFiled, [Next]_vars PROVE MessagesFiled'
<1>1. CASE Quiet
  BY <1>1 DEF Quiet, MessagesFiled, Told
<1>2. CASE TopicOpened
  BY <1>2, TopicOpenedEffect DEF TopicOpened, MessagesFiled
<1>3. CASE Filed
  BY <1>3, FiledEffect DEF MessagesFiled
<1>4. CASE Submitted
  <2>1. PICK t \in DOMAIN log, x \in Messages :
            /\ x.row = 0 \/ x.row \in DOMAIN rows
            /\ log' = [log EXCEPT ![t] = Append(@, x)] /\ UNCHANGED rows
    BY <1>4 DEF Submitted
  <2>. QED
    BY <2>1, SubmittedEffect DEF MessagesFiled
<1>5. CASE Proved
  <2>1. PICK i \in DOMAIN rows, k \in Nat \ {0} : rows' = [rows EXCEPT ![i].seq = k] /\ UNCHANGED log
    BY <1>5 DEF Proved
  <2>. QED
    BY <2>1, ProvedEffect DEF MessagesFiled
<1>. QED
  BY <1>1, <1>2, <1>3, <1>4, <1>5, OutboxSteps

LEMMA MessagesFiledAlways == Spec => []MessagesFiled
<1>1. Init => MessagesFiled
  BY DEF Init, MessagesFiled, Told
<1>. QED
  BY <1>1, MessagesFiledKept, WhatIsHeldIsTrue, PTL DEF Spec

\* The outbox's variables, as HederaLedger maps them.
Sent == {i \in DOMAIN rows : MessagesOf(i) # {}}
Settled == {i \in DOMAIN rows : rows[i].seq # 0}

LEMMA SentIsTold == Sent = {i \in DOMAIN rows : Told(i)}
BY ToldMeansSent DEF Sent
LEMMA SentIsToldAfter == (Sent = {i \in DOMAIN rows : Told(i)})'
BY SentIsTold, PTL

LEMMA OutboxStep ==
    ASSUME IInv, MessagesFiled, [Next]_vars
    PROVE  \/ Len(rows') = Len(rows) + 1 /\ UNCHANGED <<Sent, Settled>>
           \/ UNCHANGED <<rows, Settled>> /\ \E i \in 1 .. Len(rows) : Sent' = Sent \cup {i}
           \/ UNCHANGED <<Len(rows), Sent>> /\ \E i \in Sent : Settled' = Settled \cup {i}
           \/ UNCHANGED <<Len(rows), Sent, Settled>>
<1>1. CASE Quiet
  <2>1. UNCHANGED <<rows, log>>
    BY <1>1 DEF Quiet
  <2>2. UNCHANGED <<Sent, Settled>>
    BY <2>1 DEF Sent, Settled, MessagesOf
  <2>. QED
    BY <2>1, <2>2
<1>2. CASE TopicOpened
  <2>1. UNCHANGED rows
    BY <1>2 DEF TopicOpened
  <2>2. UNCHANGED <<Sent, Settled>>
    BY <1>2, <2>1, TopicOpenedEffect, SentIsTold, SentIsToldAfter DEF Settled
  <2>. QED
    BY <2>1, <2>2
<1>3. CASE Filed
  <2>1. ~ Told(Len(rows) + 1)
    BY RowsShape DEF MessagesFiled
  <2>2. Sent' = Sent
    BY <1>3, <2>1, FiledEffect, SentIsTold, SentIsToldAfter
  <2>3. Settled' = Settled
    BY <1>3, FiledEffect, RowsShape DEF Settled
  <2>4. Len(rows') = Len(rows) + 1
    BY <1>3, FiledEffect
  <2>. QED
    BY <2>2, <2>3, <2>4
<1>4. CASE Submitted
  <2>1. PICK t \in DOMAIN log, x \in Messages :
            /\ x.row = 0 \/ x.row \in DOMAIN rows
            /\ log' = [log EXCEPT ![t] = Append(@, x)] /\ UNCHANGED rows
    BY <1>4 DEF Submitted
  <2>2. \A i : Told(i)' <=> Told(i) \/ i = x.row
    BY <2>1, SubmittedEffect
  <2>3. Settled' = Settled
    BY <2>1 DEF Settled
  <2>4. CASE x.row = 0
    <3>1. Sent' = Sent
      BY <2>1, <2>2, <2>4, SentIsTold, SentIsToldAfter, RowsShape
    <3>. QED
      BY <2>1, <2>3, <3>1
  <2>5. CASE x.row \in DOMAIN rows
    <3>1. Sent' = Sent \cup {x.row}
      BY <2>1, <2>2, <2>5, SentIsTold, SentIsToldAfter
    <3>. QED
      BY <2>1, <2>3, <2>5, <3>1, RowsShape
  <2>. QED
    BY <2>1, <2>4, <2>5
<1>5. CASE Proved
  <2>1. PICK i \in DOMAIN rows, k \in Nat \ {0} :
            Said(i, k) /\ rows' = [rows EXCEPT ![i].seq = k] /\ UNCHANGED log
    BY <1>5 DEF Proved
  <2>2. /\ DOMAIN rows' = DOMAIN rows /\ Len(rows') = Len(rows)
        /\ \A j \in DOMAIN rows : rows'[j].seq = IF j = i THEN k ELSE rows[j].seq
        /\ \A j : Told(j)' <=> Told(j)
    BY <2>1, ProvedEffect
  <2>3. i \in Sent
    BY <2>1, SentIsTold DEF Said, Told
  <2>4. Sent' = Sent
    BY <2>2, SentIsTold, SentIsToldAfter
  <2>5. Settled' = Settled \cup {i}
    BY <2>1, <2>2 DEF Settled
  <2>. QED
    BY <2>2, <2>3, <2>4, <2>5
<1>. QED
  BY <1>1, <1>2, <1>3, <1>4, <1>5, OutboxSteps

\* The mirror implements the outbox: no row is settled before it was sent, none
\* is sent before it was filed, and nothing is taken back (ImplementsOutbox).
THEOREM MirrorIsAnOutbox == Spec => ImplementsOutbox
<1>1. Init => Outbox!Init
  <2>1. ASSUME Init PROVE IInv
    BY <2>1, InitSound
  <2>2. ASSUME Init PROVE Sent = {}
    BY <2>2, SentIsTold DEF Init, Told
  <2>3. ASSUME Init PROVE Settled = {}
    BY <2>3 DEF Init, Settled, EarlierRows, Punch
  <2>. QED
    BY <2>1, <2>2, <2>3, RowsShape DEF Outbox!Init, Sent, Settled
<1>2. IInv /\ MessagesFiled /\ [Next]_vars => [Outbox!Next]_Outbox!vars
  <2>. SUFFICES ASSUME IInv, MessagesFiled, [Next]_vars PROVE [Outbox!Next]_Outbox!vars
    OBVIOUS
  <2>1. ASSUME Len(rows') = Len(rows) + 1, UNCHANGED <<Sent, Settled>> PROVE Outbox!File
    BY <2>1 DEF Outbox!File, Sent, Settled
  <2>2. ASSUME UNCHANGED <<rows, Settled>>, NEW i \in 1 .. Len(rows), Sent' = Sent \cup {i}
        PROVE  Outbox!Send
    BY <2>2 DEF Outbox!Send, Sent, Settled
  <2>3. ASSUME UNCHANGED <<Len(rows), Sent>>, NEW i \in Sent, Settled' = Settled \cup {i}
        PROVE  Outbox!Settle
    BY <2>3 DEF Outbox!Settle, Sent, Settled
  <2>4. ASSUME UNCHANGED <<Len(rows), Sent, Settled>> PROVE UNCHANGED Outbox!vars
    BY <2>4 DEF Outbox!vars, Sent, Settled
  <2>. QED
    BY <2>1, <2>2, <2>3, <2>4, OutboxStep DEF Outbox!Next
<1>. QED
  BY <1>1, <1>2, WhatIsHeldIsTrue, MessagesFiledAlways, PTL
  DEF Spec, ImplementsOutbox, Outbox!Spec
=============================================================================
