-------------------------- MODULE ZgVerifierProofs --------------------------
(***************************************************************************)
(* What the attestation flag of a verdict means, for any number of calls   *)
(* in flight and any number of keys the node may have: it is only TRUE of  *)
(* a key that a quote of the node committed to, and never FALSE or missing *)
(* without a cause.  And what an approval rests on, and what the hash      *)
(* takes for one receipt, for any answers of the model.                    *)
(***************************************************************************)
EXTENDS ZgVerifier, FiniteSetTheorems, TLAPS

Steps == {"idle", "sign", "quote", "keep", "judge"}
CallRecords ==
    [step : Steps, by : Signers \cup {None}, signer : Signers \cup {None},
     quote : Signers \cup {None}, tee : Flags, asked : BOOLEAN]

\* A key the node has had in the life of this process.
Current(k) == k \in first..node

\* A flag, and what it says of who answered and which key the receipt names.
Means(tee, by, signer) ==
    /\ tee = TRUE => Current(signer) /\ by \in {0, signer}
    /\ tee = FALSE => by = 0 \/ node # first

\* Until the signature has been compared, a call has no flag.
Unsigned(r) == r.step = "sign" => r.signer = None /\ r.tee = None

\* What a call in flight knows.
Sound(r) ==
    /\ Unsigned(r)
    /\ r.by \in {None, 0} \/ Current(r.by)
    /\ r.signer \in Named(r.by)
    /\ r.quote = None \/ Current(r.quote)
    /\ r.step = "keep" /\ r.quote = None => blind
    /\ Means(r.tee, r.by, r.signer)
    /\ r.step = "judge" /\ r.asked /\ r.tee = None => r.signer = None \/ blind

KeysOK == node \in 1..MaxKeys /\ first \in 1..node /\ blind \in BOOLEAN
CacheOK == \A k \in cached : (k = None /\ blind) \/ Current(k)
CallsOK == call \in [Calls -> CallRecords] /\ \A c \in Calls : Sound(call[c])
VerdictOK ==
    /\ verdict.tee \in Flags
    /\ Means(verdict.tee, verdict.by, verdict.signer)
    /\ SilenceHasACause
IInv == KeysOK /\ CacheOK /\ CallsOK /\ VerdictOK /\ filed \subseteq Readings

LEMMA NoneIsNothingElse == None # TRUE /\ None # FALSE /\ None \notin Nat
BY VerifierNone

LEMMA IdleIsSound == Idle \in CallRecords /\ Sound(Idle)
BY VerifierNone DEF Idle, CallRecords, Sound, Named, Unsigned, Means, Steps, Flags, Signers

LEMMA NoVerdictIsSound ==
    ASSUME \/ verdict' = NoVerdict
           \/ verdict' = [NoVerdict EXCEPT !.status = "rejected", !.reason = "verifier_unavailable"]
    PROVE  VerdictOK'
<1>1. CASE verdict' = NoVerdict
  BY <1>1, NoneIsNothingElse DEF NoVerdict, VerdictOK, Means, Flags, SilenceHasACause, Parsed
<1>2. CASE verdict' = [NoVerdict EXCEPT !.status = "rejected", !.reason = "verifier_unavailable"]
  <2>1. verdict'.tee = NoVerdict.tee
    BY <1>2 DEF NoVerdict
  <2>2. verdict'.reading = NoVerdict.reading
    BY <1>2 DEF NoVerdict
  <2>3. NoVerdict.tee = None /\ NoVerdict.reading = None
    BY DEF NoVerdict
  <2>. QED
    BY <2>1, <2>2, <2>3, NoneIsNothingElse DEF VerdictOK, Means, Flags, SilenceHasACause, Parsed
<1>. QED
  BY <1>1, <1>2

\* The comparison of fetch_attestation, of keys this process has seen.
LEMMA MatchMeans ==
    ASSUME KeysOK, NEW by, NEW signer, NEW enclave,
           by \in {None, 0} \/ Current(by), signer \in Named(by),
           enclave = None \/ Current(enclave)
    PROVE  /\ Match(signer, enclave) \in Flags
           /\ Means(Match(signer, enclave), by, signer)
           /\ Match(signer, enclave) = None => signer = None \/ enclave = None
<1>1. CASE signer = None \/ enclave = None
  BY <1>1, NoneIsNothingElse DEF Match, Means, Flags
<1>2. CASE signer # None /\ enclave # None /\ signer = enclave
  <2>1. Match(signer, enclave) = TRUE
    BY <1>2 DEF Match
  <2>2. Current(signer) /\ by \in {0, signer}
    BY <1>2 DEF Named
  <2>. QED
    BY <2>1, <2>2, NoneIsNothingElse DEF Means, Flags
<1>3. CASE signer # None /\ enclave # None /\ signer # enclave
  <2>1. Match(signer, enclave) = FALSE
    BY <1>3 DEF Match
  <2>2. by = 0 \/ node # first
    BY <1>3, NoneIsNothingElse DEF Current, KeysOK, Named
  <2>. QED
    BY <2>1, <2>2, NoneIsNothingElse DEF Means, Flags
<1>. QED
  BY <1>1, <1>2, <1>3

\* A receipt names one of the keys, or none; and keys are only added.
LEMMA NamedKeys ==
    ASSUME KeysOK, NEW by \in Signers \cup {None}, NEW signer \in Named(by)
    PROVE  signer \in Signers \cup {None}
<1>1. 0..node \subseteq Signers
  BY VerifierBounds DEF KeysOK, Signers
<1>. QED
  BY <1>1 DEF Named

LEMMA NamedStays ==
    ASSUME KeysOK, node' = node \/ node' = node + 1, NEW by, NEW signer \in Named(by)
    PROVE  signer \in Named(by)'
<1>1. 0..node \subseteq 0..node'
  BY DEF KeysOK
<1>. QED
  BY <1>1 DEF Named

\* A call whose keys stand still stays sound when another call moves.
LEMMA OthersStay ==
    ASSUME IInv, NEW c \in Calls, NEW r \in CallRecords, Goto(c, r),
           first' = first, node' = node, blind => blind', Sound(r)'
    PROVE  CallsOK'
BY DEF IInv, CallsOK, Goto, Sound, Named, Unsigned, Means, Current

LEMMA InitSound == Init => IInv
<1> SUFFICES ASSUME Init PROVE IInv
  OBVIOUS
<1>1. KeysOK /\ CacheOK /\ filed \subseteq Readings
  <2>1. node \in 1..MaxKeys /\ first \in 1..node
    BY VerifierBounds DEF Init
  <2>2. blind \in BOOLEAN /\ cached = {} /\ filed = {}
    BY DEF Init
  <2>. QED
    BY <2>1, <2>2 DEF KeysOK, CacheOK
<1>2. CallsOK
  BY IdleIsSound DEF Init, CallsOK
<1>3. verdict.tee = None /\ verdict.reading = None
  BY DEF Init, NoVerdict
<1>4. VerdictOK
  BY <1>3, NoneIsNothingElse DEF VerdictOK, Means, Flags, SilenceHasACause, Parsed
<1>. QED
  BY <1>1, <1>2, <1>4 DEF IInv

LEMMA NextSound == IInv /\ [Next]_vars => IInv'
<1> SUFFICES ASSUME IInv, [Next]_vars PROVE IInv'
  OBVIOUS
<1> USE VerifierBounds, VerifierNone
<1>1. ASSUME NEW c \in Calls, Ask(c) PROVE IInv'
  <2>1. KeysOK' /\ CacheOK' /\ VerdictOK' /\ filed' \subseteq Readings
    BY <1>1, NoVerdictIsSound DEF IInv, Ask, KeysOK, CacheOK, Current
  <2>2. CASE Goto(c, [Idle EXCEPT !.step = "judge"])
    BY <1>1, <2>1, <2>2, OthersStay, IdleIsSound
       DEF Ask, Idle, CallRecords, Sound, Named, Unsigned, Means, Steps, Flags, Signers, IInv
  <2>3. ASSUME NEW by \in {0, node},
               Goto(c, [Idle EXCEPT !.by = by, !.asked = TRUE, !.step = "sign"])
        PROVE  IInv'
    <3> DEFINE r == [Idle EXCEPT !.by = by, !.asked = TRUE, !.step = "sign"]
    <3>0. /\ r.step = "sign" /\ r.by = by /\ r.signer = None /\ r.quote = None /\ r.tee = None
          /\ by \in Signers /\ (by = 0 \/ Current(by)')
          /\ first' = first /\ node' = node
      <4>1. r.step = "sign" /\ r.by = by /\ r.signer = None /\ r.quote = None /\ r.tee = None
        BY DEF Idle
      <4>2. first' = first /\ node' = node
        BY <1>1 DEF Ask
      <4>3. by \in Signers /\ (by = 0 \/ Current(by)')
        BY <4>2 DEF Signers, Current, IInv, KeysOK
      <4>. QED
        BY <4>1, <4>2, <4>3
    <3>1. r \in CallRecords
      BY <3>0, IdleIsSound DEF CallRecords, Steps
    <3>2. Sound(r)'
      <4>1. r.signer \in Named(r.by)'
        BY <3>0 DEF Named
      <4>. QED
        BY <3>0, <4>1, NoneIsNothingElse DEF Sound, Unsigned, Means
    <3>3. CallsOK'
      BY <1>1, <2>3, <3>1, <3>2, OthersStay DEF Ask
    <3>. QED
      BY <2>1, <3>3 DEF IInv
  <2>. QED
    BY <1>1, <2>2, <2>3 DEF Ask
<1>2. ASSUME NEW c \in Calls, AskFails(c) PROVE IInv'
  <2>1. KeysOK' /\ CacheOK' /\ VerdictOK' /\ filed' \subseteq Readings
    BY <1>2, NoVerdictIsSound DEF IInv, AskFails, KeysOK, CacheOK, Current
  <2>2. Sound(Idle)'
    BY DEF Idle, Sound, Named, Unsigned, Means
  <2>. QED
    BY <1>2, <2>1, <2>2, OthersStay, IdleIsSound DEF AskFails, IInv
<1>3. ASSUME NEW c \in Calls, ReadSignature(c) PROVE IInv'
  <2> DEFINE r == call[c]
  <2>1. KeysOK' /\ CacheOK' /\ VerdictOK' /\ filed' \subseteq Readings
    BY <1>3, NoVerdictIsSound DEF IInv, ReadSignature, KeysOK, CacheOK, Current
  <2>. /\ r \in CallRecords /\ Sound(r) /\ r.step = "sign"
       /\ UNCHANGED <<first, node, blind>>
    BY <1>3 DEF IInv, CallsOK, ReadSignature
  <2>2. ASSUME NEW q \in CallRecords, Goto(c, q), Sound(q) PROVE IInv'
    <3>1. Sound(q)'
      BY <2>2 DEF Sound, Named, Unsigned, Means, Current
    <3>. QED
      BY <2>1, <2>2, <3>1, OthersStay DEF IInv
  <2>3. CASE Goto(c, [r EXCEPT !.step = "judge"])
    <3>1. r.signer = None
      BY DEF Sound, Named, Unsigned
    <3>. QED
      BY <2>2, <2>3, <3>1 DEF CallRecords, Steps, Sound, Named, Unsigned
  <2>4. ASSUME NEW signer \in Named(r.by), cached = {},
               Goto(c, [r EXCEPT !.signer = signer, !.step = "quote"])
        PROVE  IInv'
    <3> DEFINE q == [r EXCEPT !.signer = signer, !.step = "quote"]
    <3>1. q \in CallRecords
      <4>1. signer \in Signers \cup {None}
        BY NamedKeys DEF CallRecords, IInv
      <4>. QED
        BY <4>1 DEF CallRecords, Steps
    <3>2. r.tee = None
      BY DEF Sound, Unsigned
    <3>3. /\ q.step = "quote" /\ q.by = r.by /\ q.signer = signer /\ q.quote = r.quote
          /\ q.tee = r.tee
      BY DEF CallRecords
    <3>4. Sound(q)
      BY <3>2, <3>3, NoneIsNothingElse DEF Sound, Unsigned, Means
    <3>. QED
      BY <2>2, <2>4, <3>1, <3>4
  <2>5. ASSUME NEW signer \in Named(r.by), NEW enclave \in cached,
               Goto(c, [r EXCEPT !.signer = signer, !.step = "judge", !.tee = Match(signer, enclave)])
        PROVE  IInv'
    <3> DEFINE q == [r EXCEPT !.signer = signer, !.step = "judge", !.tee = Match(signer, enclave)]
    <3>1. /\ Match(signer, enclave) \in Flags
          /\ Means(Match(signer, enclave), r.by, signer)
          /\ Match(signer, enclave) = None => signer = None \/ enclave = None
      BY MatchMeans DEF IInv, CacheOK, Sound
    <3>2. q \in CallRecords
      <4>1. signer \in Signers \cup {None}
        BY NamedKeys DEF CallRecords, IInv
      <4>. QED
        BY <3>1, <4>1 DEF CallRecords, Steps
    <3>3. enclave = None => blind
      BY DEF IInv, CacheOK, KeysOK, Current
    <3>4. Sound(q)
      BY <3>1, <3>3 DEF CallRecords, Sound, Named, Unsigned
    <3>. QED
      BY <2>2, <2>5, <3>2, <3>4
  <2>. QED
    BY <1>3, <2>3, <2>4, <2>5 DEF ReadSignature
<1>4. ASSUME NEW c \in Calls, ReadQuote(c) PROVE IInv'
  <2> DEFINE r == call[c]
  <2>. /\ r \in CallRecords /\ Sound(r) /\ r.step = "quote"
       /\ UNCHANGED <<first, node, cached, filed>>
    BY <1>4 DEF IInv, CallsOK, ReadQuote
  <2>1. PICK quote \in {node, None} :
            Goto(c, [r EXCEPT !.quote = quote, !.step = "keep"]) /\ blind' = (blind \/ quote = None)
    BY <1>4 DEF ReadQuote
  <2>2. KeysOK' /\ CacheOK' /\ VerdictOK' /\ filed' \subseteq Readings
    BY <1>4, <2>1, NoVerdictIsSound DEF IInv, ReadQuote, KeysOK, CacheOK, Current
  <2>q. PICK q : q = [r EXCEPT !.quote = quote, !.step = "keep"]
    OBVIOUS
  <2>3. q \in CallRecords
    <3>1. quote \in Signers \cup {None}
      BY DEF Signers, IInv, KeysOK
    <3>. QED
      BY <2>q, <3>1 DEF CallRecords, Steps
  <2>4. (quote = None \/ Current(quote)) /\ (quote = None => blind') /\ (blind => blind')
    <3>1. quote = None \/ Current(quote)
      BY DEF Current, IInv, KeysOK
    <3>2. (quote = None => blind') /\ (blind => blind')
      BY <2>1, Zenon
    <3>. QED
      BY <3>1, <3>2
  <2>5. /\ q.by = r.by /\ q.signer = r.signer /\ q.quote = quote /\ q.tee = r.tee
        /\ q.step = "keep" /\ Goto(c, q)
    BY <2>q, <2>1 DEF CallRecords
  <2>6. Sound(q)'
    BY <2>4, <2>5 DEF Sound, Named, Unsigned, Means, Current
  <2>7. CallsOK'
    BY <2>3, <2>4, <2>5, <2>6, OthersStay
  <2>. QED
    BY <2>2, <2>7 DEF IInv
<1>5. ASSUME NEW c \in Calls, KeepQuote(c) PROVE IInv'
  <2> DEFINE r == call[c]
  <2>q. PICK q : q = [r EXCEPT !.step = "judge", !.quote = None, !.tee = Match(r.signer, r.quote)]
    OBVIOUS
  <2>. /\ r \in CallRecords /\ Sound(r) /\ r.step = "keep" /\ Goto(c, q)
       /\ cached' = {r.quote} /\ UNCHANGED <<first, node, blind, filed>>
    BY <1>5, <2>q DEF IInv, CallsOK, KeepQuote, Kept
  <2>1. KeysOK' /\ CacheOK' /\ VerdictOK' /\ filed' \subseteq Readings
    BY <1>5, NoVerdictIsSound DEF IInv, KeepQuote, KeysOK, CacheOK, Current, Sound
  <2>2. /\ Match(r.signer, r.quote) \in Flags
        /\ Means(Match(r.signer, r.quote), r.by, r.signer)
        /\ Match(r.signer, r.quote) = None => r.signer = None \/ r.quote = None
    <3>1. /\ KeysOK /\ (r.by \in {None, 0} \/ Current(r.by)) /\ r.signer \in Named(r.by)
          /\ (r.quote = None \/ Current(r.quote))
      BY DEF IInv, Sound
    <3>. HIDE DEF r
    <3>. QED
      BY <3>1, MatchMeans
  <2>3. q \in CallRecords
    BY <2>q, <2>2 DEF CallRecords, Steps
  <2>4. Sound(q)'
    <3>1. Sound(q)
      BY <2>q, <2>2 DEF CallRecords, Sound, Named, Unsigned
    <3>. QED
      BY <3>1 DEF Sound, Named, Unsigned, Means, Current
  <2>5. CallsOK'
    BY <2>3, <2>4, OthersStay
  <2>. QED
    BY <2>1, <2>5 DEF IInv
<1>6. ASSUME NEW c \in Calls, Judge(c) PROVE IInv'
  <2> DEFINE r == call[c]
  <2>. /\ r \in CallRecords /\ Sound(r) /\ r.step = "judge" /\ Goto(c, Idle)
       /\ UNCHANGED <<first, node, blind, cached>>
    BY <1>6 DEF IInv, CallsOK, Judge
  <2>1. PICK reading \in Readings :
          LET v == Judgement[reading]
              parsed == Answers[reading].payload.form = "object"
              twins == IF v.status = "verified" THEN Twins(reading) ELSE {}
          IN /\ verdict' = [status |-> v.status, reason |-> v.reason, reading |-> reading,
                            tee |-> IF parsed THEN r.tee ELSE None, by |-> r.by,
                            signer |-> r.signer, asked |-> r.asked, twins |-> twins]
             /\ filed' = IF v.status = "verified" /\ twins = {} /\ Cardinality(filed) < MaxFiled
                         THEN filed \cup {reading} ELSE filed
    BY <1>6 DEF Judge
  <2>2. KeysOK' /\ CacheOK' /\ filed' \subseteq Readings
    BY <2>1 DEF IInv, KeysOK, CacheOK, Current
  <2>3. /\ verdict'.tee = IF Answers[reading].payload.form = "object" THEN r.tee ELSE None
        /\ verdict'.by = r.by /\ verdict'.signer = r.signer /\ verdict'.asked = r.asked
        /\ verdict'.reading = reading
    BY <2>1
  <2>4. VerdictOK'
    BY <2>3 DEF CallRecords, Sound, Named, Unsigned, Means, Current, VerdictOK, Flags, SilenceHasACause, Parsed
  <2>5. Sound(Idle)'
    BY DEF Idle, Sound, Named, Unsigned, Means
  <2>. QED
    BY <2>2, <2>4, <2>5, OthersStay, IdleIsSound DEF IInv
<1>7. ASSUME Rotate PROVE IInv'
  <2>1. KeysOK' /\ CacheOK' /\ VerdictOK' /\ filed' \subseteq Readings
    BY <1>7, NoVerdictIsSound DEF IInv, Rotate, KeysOK, CacheOK, Current
  <2>2. CallsOK'
    <3>1. node' = node + 1 /\ UNCHANGED <<first, blind, call>> /\ KeysOK
      BY <1>7 DEF Rotate, IInv
    <3>2. ASSUME NEW c \in Calls PROVE Sound(call[c])'
      <4>1. Sound(call[c])
        BY DEF IInv, CallsOK
      <4>2. (call[c].signer \in Named(call[c].by))'
        <5>1. call[c].signer \in Named(call[c].by)
          BY <4>1 DEF Sound
        <5>. QED
          BY <3>1, <5>1, NamedStays DEF Named
      <4>. QED
        BY <3>1, <4>1, <4>2 DEF Sound, Unsigned, Means, Current, KeysOK
    <3>. QED
      BY <3>1, <3>2 DEF IInv, CallsOK
  <2>. QED
    BY <2>1, <2>2 DEF IInv
<1>8. ASSUME Restart PROVE IInv'
  <2>1. KeysOK' /\ CacheOK' /\ VerdictOK' /\ filed' \subseteq Readings
    <3>1. KeysOK' /\ CacheOK' /\ filed' \subseteq Readings
      <4>1. node' \in 1..MaxKeys /\ first' \in 1..node'
        BY <1>8 DEF IInv, Restart, KeysOK
      <4>2. blind' \in BOOLEAN
        BY <1>8 DEF Restart
      <4>3. cached' = {} /\ filed' \subseteq Readings
        BY <1>8 DEF IInv, Restart
      <4>. QED
        BY <4>1, <4>2, <4>3 DEF KeysOK, CacheOK
    <3>2. VerdictOK'
      BY <1>8, NoVerdictIsSound DEF Restart
    <3>. QED
      BY <3>1, <3>2
  <2>2. Sound(Idle)'
    BY DEF Idle, Sound, Named, Unsigned, Means
  <2>3. CallsOK'
    BY <1>8, <2>2, IdleIsSound DEF Restart, CallsOK
  <2>. QED
    BY <2>1, <2>3 DEF IInv
<1>9. CASE UNCHANGED vars
  BY <1>9 DEF vars, IInv, KeysOK, CacheOK, CallsOK, VerdictOK, Sound, Named, Unsigned, Means, Current,
              SilenceHasACause, Parsed
<1>. QED
  BY <1>1, <1>2, <1>3, <1>4, <1>5, <1>6, <1>7, <1>8, <1>9 DEF Next

\* The invariant the properties of the flag follow from.
THEOREM FlagsMeanWhatTheySay == Spec => []IInv
BY InitSound, NextSound, PTL DEF Spec

LEMMA IInvGivesTypes == IInv => TypeOK
BY VerifierBounds
   DEF IInv, TypeOK, KeysOK, CacheOK, Current, CallsOK, CallRecords, Steps, VerdictOK, Signers

\* Keys, cache, calls and flags keep their shape.
THEOREM TypeCorrect == Spec => []TypeOK
BY FlagsMeanWhatTheySay, IInvGivesTypes, PTL

\* A verdict flagged as attested names a key that a quote of the node committed to
\* in the life of this process, and no other than an attested node that answered
\* signed with, however many calls and keys share the cache.
THEOREM AttestedKeysWereCommitted == Spec => []TeeIsBacked
<1>1. IInv => TeeIsBacked
  BY DEF IInv, VerdictOK, Means, Current, KeysOK, TeeIsBacked
<1>. QED
  BY <1>1, FlagsMeanWhatTheySay, PTL

\* A verdict flagged as not attested was answered by a stranger, or the node has changed
\* its key since the cache was filled.
THEOREM DoubtIsFounded == Spec => []DoubtHasACause
<1>1. IInv => DoubtHasACause
  BY DEF IInv, VerdictOK, Means, DoubtHasACause
<1>. QED
  BY <1>1, FlagsMeanWhatTheySay, PTL

\* A missing flag was not asked for, or one of the two public proofs could not
\* be read.
THEOREM SilenceIsFounded == Spec => []SilenceHasACause
<1>1. IInv => SilenceHasACause
  BY DEF IInv, VerdictOK
<1>. QED
  BY <1>1, FlagsMeanWhatTheySay, PTL
-----------------------------------------------------------------------------
(* What an approval rests on: the guards of decide_status, and half of the  *)
(* telling words of the venue's name.                                       *)

\* The places of the telling words are finitely many.
LEMMA TellingIsFinite == IsFiniteSet(Telling)
<1>1. Telling \subseteq 1..Len(Words(Name))
  BY NameHasWords DEF Telling
<1>2. IsFiniteSet(1..Len(Words(Name)))
  <2>1. 1 \in Int /\ Len(Words(Name)) \in Int
    BY NameHasWords
  <2>. QED
    BY <2>1, FS_Interval
<1>. QED
  BY <1>1, <1>2, FS_Subset

\* Half of the words, rounded up: one is never none, and three are at least two.
LEMMA HalfOfTheWords ==
    ASSUME NEW text, VenueNameInText(Name, text)
    PROVE  LET seen == {i \in Telling : Occurs(Words(Name)[i], Normalize(text))}
           IN /\ Telling # {} => seen # {}
              /\ Cardinality(Telling) >= 3 => Cardinality(seen) >= 2
<1> DEFINE seen == {i \in Telling : Occurs(Words(Name)[i], Normalize(text))}
           telling == Cardinality(Telling)
           found == Cardinality(seen)
<1>1. telling \in Nat /\ found \in Nat
  <2>1. IsFiniteSet(seen)
    BY TellingIsFinite, FS_Subset
  <2>. QED
    BY <2>1, TellingIsFinite, FS_CardinalityType
<1>2. Telling = {} \/ found >= NeededTokens(telling)
  BY DEF VenueNameInText, DistinctiveTokens, Telling
<1>3. CASE Telling = {}
  <2>1. telling = 0
    BY <1>3, FS_EmptySet
  <2>. QED
    BY <1>3, <2>1
<1>4. CASE Telling # {}
  <2>1. telling # 0
    BY <1>4, TellingIsFinite, FS_EmptySet
  <2>2. found >= (telling + 1) \div 2
    BY <1>2, <1>4 DEF NeededTokens
  <2>3. found # 0 /\ (telling >= 3 => found >= 2)
    <3>. HIDE DEF telling, found
    <3>. QED
      BY <1>1, <2>1, <2>2
  <2>4. seen # {}
    BY <2>3, FS_EmptySet
  <2>. QED
    BY <2>3, <2>4
<1>. QED
  BY <1>3, <1>4

\* What has to hold for decide_status to approve.
LEMMA ApprovalPassesTheGuards ==
    ASSUME NEW read \in BOOLEAN, NEW found \in BOOLEAN, NEW confidence, NEW reason,
           DecideStatus(read, found, confidence, reason)[1] = "verified"
    PROVE  read /\ found /\ reason = "none" /\ ~(confidence < MinConfidence)
<1>1. CASE ~read
  BY <1>1 DEF DecideStatus
<1>2. CASE read /\ ~found
  BY <1>2 DEF DecideStatus
<1>3. CASE read /\ found /\ reason # "none"
  BY <1>3 DEF DecideStatus
<1>4. CASE read /\ found /\ reason = "none" /\ confidence < MinConfidence
  BY <1>4 DEF DecideStatus
<1>. QED
  BY <1>1, <1>2, <1>3, <1>4

\* A confidence that is a number is enough, unless none is asked for.
LEMMA EnoughConfidence ==
    ASSUME NEW c, c.form = "number" => c.tenths \in Int, ~(ClampConfidence(c) < MinConfidence)
    PROVE  c.form # "nan" =>
               MinConfidence = 0 \/ (c.form = "number" /\ c.tenths >= MinConfidence)
BY VerdictNumbers DEF ClampConfidence

\* Only an answer that supports a punch is judged to earn one.
LEMMA OnlySupportedIsApproved ==
    ASSUME NEW reading \in Readings, Judgement[reading].status = "verified"
    PROVE  reading \in Supported
<1> DEFINE a == Answers[reading]
           p == a.payload
           reason == IF p.reason \in ModelReasons THEN p.reason ELSE "none"
           named == VenueNameInText(Name, a.text)
<1>1. /\ p.form \in {"notjson", "other", "object"} /\ {p.isReceipt, p.named} \subseteq BOOLEAN
      /\ p.confidence.form = "number" => p.confidence.tenths \in Int
  BY AnswerForms DEF Readings
<1>2. Judgement[reading] =
        CASE p.form = "notjson" -> Unavailable(Venue, Scope, a.text)
          [] p.form # "notjson" /\ Raises(p) -> [status |-> "raised", reason |-> "none", hash |-> <<>>]
          [] OTHER -> Verdict(Venue, Scope, Name, a.text, p)
  BY DEF Judgement
<1>3. p.form # "notjson"
  BY <1>2 DEF Unavailable
<1>4. ~Raises(p)
  BY <1>2, <1>3
<1>5. Judgement[reading].status = Verdict(Venue, Scope, Name, a.text, p).status
  BY <1>2, <1>3, <1>4
<1>6. DecideStatus(p.isReceipt, p.named /\ named, ClampConfidence(p.confidence), reason)[1] = "verified"
  BY <1>5 DEF Verdict
<1>7. /\ p.isReceipt /\ p.named /\ named /\ reason = "none"
      /\ ~(ClampConfidence(p.confidence) < MinConfidence)
  <2>1. p.isReceipt \in BOOLEAN /\ (p.named /\ named) \in BOOLEAN
    BY <1>1
  <2>. QED
    BY <1>6, <2>1, ApprovalPassesTheGuards
<1>8. p.reason \notin ModelReasons
  BY <1>7 DEF ModelReasons
<1>9. p.confidence.form # "nan" =>
          \/ MinConfidence = 0
          \/ p.confidence.form = "number" /\ p.confidence.tenths >= MinConfidence
  BY <1>1, <1>7, EnoughConfidence
<1>10. LET seen == {i \in Telling : Occurs(Words(Name)[i], Normalize(a.text))}
       IN /\ Telling # {} => seen # {}
          /\ Cardinality(Telling) >= 3 => Cardinality(seen) >= 2
  BY <1>7, HalfOfTheWords
<1>11. p.form = "object"
  BY <1>1, <1>3, <1>4 DEF Raises
<1>. QED
  BY <1>7, <1>8, <1>9, <1>10, <1>11 DEF Supported

\* An approval rests on an answer that passed every guard decide_status applies,
\* whatever the catalogue of answers, the venue's name and the calls in flight.
THEOREM ApprovalsAreSupported == Spec => []ApprovalIsSupported
<1>1. Init => ApprovalIsSupported
  BY DEF Init, NoVerdict, ApprovalIsSupported
<1>2. ApprovalIsSupported /\ [Next]_vars => ApprovalIsSupported'
  <2> SUFFICES ASSUME ApprovalIsSupported, [Next]_vars PROVE ApprovalIsSupported'
    OBVIOUS
  <2>1. CASE verdict'.status # "verified"
    BY <2>1 DEF ApprovalIsSupported
  <2>2. ASSUME NEW c \in Calls, Judge(c) PROVE ApprovalIsSupported'
    <3>1. PICK reading \in Readings :
              verdict'.status = Judgement[reading].status /\ verdict'.reading = reading
      BY <2>2 DEF Judge
    <3>. QED
      BY <3>1, OnlySupportedIsApproved DEF ApprovalIsSupported
  <2>3. ASSUME NEW c \in Calls, Ask(c) \/ AskFails(c) \/ ReadSignature(c) \/ ReadQuote(c) \/ KeepQuote(c)
        PROVE  verdict'.status # "verified"
    <3>1. NoVerdict.status # "verified"
      BY DEF NoVerdict
    <3>2. [NoVerdict EXCEPT !.status = "rejected", !.reason = "verifier_unavailable"].status # "verified"
      BY DEF NoVerdict
    <3>3. \/ verdict' = NoVerdict
          \/ verdict' = [NoVerdict EXCEPT !.status = "rejected", !.reason = "verifier_unavailable"]
      BY <2>3 DEF Ask, AskFails, ReadSignature, ReadQuote, KeepQuote
    <3>. QED
      BY <3>1, <3>2, <3>3
  <2>4. Rotate \/ Restart => verdict'.status # "verified"
    BY DEF Rotate, Restart, NoVerdict
  <2>5. CASE UNCHANGED vars
    BY <2>5 DEF vars, ApprovalIsSupported
  <2>. QED
    BY <2>1, <2>2, <2>3, <2>4, <2>5 DEF Next
<1>. QED
  BY <1>1, <1>2, PTL DEF Spec
-----------------------------------------------------------------------------
(* What the hash takes for one receipt, for any catalogue of answers: it      *)
(* compares the best thing two readings have to tell a receipt by, and never  *)
(* one kind of thing with another.  Whether readings of one receipt have the  *)
(* same to tell is up to the photographs and the model.                       *)

\* How a number is spelt in a hash.
Spelt(id) == {Normalize(i) : i \in id}

\* Two hashes are one just when the number, or else the sale, or else the text is.
LEMMA HashesCompareLikeWithLike ==
    ASSUME NEW v, NEW s,
           NEW id1, NEW date1, NEW total1, NEW text1,
           NEW id2, NEW date2, NEW total2, NEW text2
    PROVE  DedupeHash(v, s, id1, date1, total1, text1) = DedupeHash(v, s, id2, date2, total2, text2)
           <=> /\ Spelt(id1) = Spelt(id2)
               /\ id1 = {} => date1 = date2 /\ total1 = total2
               /\ id1 = {} /\ date1 = {} /\ total1 = {} => Normalize(text1) = Normalize(text2)
<1> DEFINE h1 == DedupeHash(v, s, id1, date1, total1, text1)
           h2 == DedupeHash(v, s, id2, date2, total2, text2)
           n1 == Spelt(id1)
           n2 == Spelt(id2)
<1>1. (n1 = {} <=> id1 = {}) /\ (n2 = {} <=> id2 = {})
  BY DEF Spelt
<1>2. /\ id1 # {} => h1 = <<v, s, "id", n1>>
      /\ id1 = {} /\ date1 \cup total1 # {} => h1 = <<v, s, "sale", date1, total1>>
      /\ id1 = {} /\ date1 \cup total1 = {} => h1 = <<v, s, "text", Normalize(text1)>>
  BY DEF DedupeHash, Spelt
<1>3. /\ id2 # {} => h2 = <<v, s, "id", n2>>
      /\ id2 = {} /\ date2 \cup total2 # {} => h2 = <<v, s, "sale", date2, total2>>
      /\ id2 = {} /\ date2 \cup total2 = {} => h2 = <<v, s, "text", Normalize(text2)>>
  BY DEF DedupeHash, Spelt
<1>4. /\ date1 \cup total1 = {} <=> date1 = {} /\ total1 = {}
      /\ date2 \cup total2 = {} <=> date2 = {} /\ total2 = {}
  OBVIOUS
<1>. HIDE DEF h1, h2, n1, n2
<1>5. CASE id1 # {}
  <2>1. CASE id2 # {}
    <3>1. h1 = h2 <=> n1 = n2
      BY <1>2, <1>3, <1>5, <2>1
    <3>. QED
      BY <1>5, <3>1 DEF h1, h2, n1, n2
  <2>2. CASE id2 = {}
    <3>1. h1[3] = "id" /\ h2[3] # "id"
      BY <1>2, <1>3, <1>5, <2>2
    <3>2. n1 # n2
      BY <1>1, <1>5, <2>2
    <3>. QED
      BY <3>1, <3>2 DEF h1, h2, n1, n2
  <2>. QED
    BY <2>1, <2>2
<1>6. CASE id1 = {} /\ id2 # {}
  <2>1. h1[3] # "id" /\ h2[3] = "id"
    BY <1>2, <1>3, <1>6
  <2>2. n1 # n2
    BY <1>1, <1>6
  <2>. QED
    BY <2>1, <2>2 DEF h1, h2, n1, n2
<1>7. CASE id1 = {} /\ id2 = {}
  <2>0. n1 = n2
    BY <1>1, <1>7
  <2>1. CASE date1 \cup total1 # {} /\ date2 \cup total2 # {}
    <3>1. h1 = h2 <=> date1 = date2 /\ total1 = total2
      BY <1>2, <1>3, <1>7, <2>1
    <3>. QED
      BY <1>4, <1>7, <2>0, <2>1, <3>1 DEF h1, h2, n1, n2
  <2>2. CASE date1 \cup total1 = {} /\ date2 \cup total2 = {}
    <3>1. h1 = h2 <=> Normalize(text1) = Normalize(text2)
      BY <1>2, <1>3, <1>7, <2>2
    <3>. QED
      BY <1>4, <1>7, <2>0, <2>2, <3>1 DEF h1, h2, n1, n2
  <2>3. CASE (date1 \cup total1 = {}) # (date2 \cup total2 = {})
    <3>1. h1[3] # h2[3]
      BY <1>2, <1>3, <1>7, <2>3
    <3>. QED
      BY <1>4, <1>7, <2>3, <3>1 DEF h1, h2, n1, n2
  <2>. QED
    BY <2>1, <2>2, <2>3
<1>. QED
  BY <1>5, <1>6, <1>7

\* The readings judged to earn a punch.
Approved(reading) == reading \in Readings /\ Judgement[reading].status = "verified"

\* What a reading tells its receipt by: its number, spelt alike; without one, the
\* minute and the total; without those, the text.
Number(reading) == {Normalize(i) : i \in CleanIdentifier(Answers[reading].payload.id)}
Minute(reading) == ParseDate(Answers[reading].payload.date)
Total(reading) == ParseTotal(Answers[reading].payload.total)
Alike(a, b) ==
    /\ Number(a) = Number(b)
    /\ Number(a) = {} => Minute(a) = Minute(b) /\ Total(a) = Total(b)
    /\ Number(a) = {} /\ Minute(a) = {} /\ Total(a) = {} =>
           Normalize(Answers[a].text) = Normalize(Answers[b].text)

\* Two approved readings have one hash just when they are alike.
LEMMA OneHashMeansAlike ==
    ASSUME NEW a, NEW b, Approved(a), Approved(b)
    PROVE  Judgement[a].hash = Judgement[b].hash <=> Alike(a, b)
<1>1. ASSUME NEW r, Approved(r)
      PROVE  LET p == Answers[r].payload
             IN Judgement[r].hash = DedupeHash(Venue, Scope, CleanIdentifier(p.id), ParseDate(p.date),
                                               ParseTotal(p.total), Answers[r].text)
  <2> DEFINE x == Answers[r]
             p == x.payload
  <2>1. Judgement[r] =
          CASE p.form = "notjson" -> Unavailable(Venue, Scope, x.text)
            [] p.form # "notjson" /\ Raises(p) -> [status |-> "raised", reason |-> "none", hash |-> <<>>]
            [] OTHER -> Verdict(Venue, Scope, Name, x.text, p)
    BY <1>1 DEF Judgement, Approved
  <2>2. p.form # "notjson"
    BY <1>1, <2>1 DEF Unavailable, Approved
  <2>3. ~Raises(p)
    BY <1>1, <2>1, <2>2 DEF Approved
  <2>4. Judgement[r] = Verdict(Venue, Scope, Name, x.text, p)
    BY <2>1, <2>2, <2>3
  <2>. QED
    BY <2>4 DEF Verdict
<1> DEFINE pa == Answers[a].payload
           pb == Answers[b].payload
<1>2. (Number(a) = {} <=> CleanIdentifier(pa.id) = {})
  BY DEF Number
<1> DEFINE ia == CleanIdentifier(pa.id)  ib == CleanIdentifier(pb.id)
           da == ParseDate(pa.date)      db == ParseDate(pb.date)
           ta == ParseTotal(pa.total)    tb == ParseTotal(pb.total)
           xa == Answers[a].text         xb == Answers[b].text
<1>3. /\ Judgement[a].hash = DedupeHash(Venue, Scope, ia, da, ta, xa)
      /\ Judgement[b].hash = DedupeHash(Venue, Scope, ib, db, tb, xb)
  BY <1>1
<1>4. /\ Number(a) = Spelt(ia) /\ Number(b) = Spelt(ib)
      /\ Minute(a) = da /\ Minute(b) = db /\ Total(a) = ta /\ Total(b) = tb
  BY DEF Number, Minute, Total, Spelt
<1>5. Alike(a, b) <=> /\ Spelt(ia) = Spelt(ib)
                      /\ ia = {} => da = db /\ ta = tb
                      /\ ia = {} /\ da = {} /\ ta = {} => Normalize(xa) = Normalize(xb)
  BY <1>2, <1>4 DEF Alike
<1>. HIDE DEF ia, ib, da, db, ta, tb, xa, xb
<1>6. DedupeHash(Venue, Scope, ia, da, ta, xa) = DedupeHash(Venue, Scope, ib, db, tb, xb)
      <=> /\ Spelt(ia) = Spelt(ib)
          /\ ia = {} => da = db /\ ta = tb
          /\ ia = {} /\ da = {} /\ ta = {} => Normalize(xa) = Normalize(xb)
  BY HashesCompareLikeWithLike
<1>. QED
  BY <1>3, <1>5, <1>6

\* What the last verdict and the filed receipts know of each other.
FilingOK ==
    /\ \A f \in filed : Approved(f)
    /\ \A f, g \in filed : Judgement[f].hash = Judgement[g].hash => f = g
    /\ verdict.twins # {} \/ verdict.status = "verified" => Approved(verdict.reading)
    /\ \A twin \in verdict.twins :
           Approved(twin) /\ Judgement[twin].hash = Judgement[verdict.reading].hash
    /\ verdict.status = "verified" /\ verdict.twins = {} =>
           \A f \in filed \ {verdict.reading} : Judgement[f].hash # Judgement[verdict.reading].hash

\* A step that judges nothing files nothing.
LEMMA UnjudgedFilesNothing ==
    ASSUME FilingOK, filed' = filed,
           \/ verdict' = NoVerdict
           \/ verdict' = [NoVerdict EXCEPT !.status = "rejected", !.reason = "verifier_unavailable"]
    PROVE  FilingOK'
<1>1. verdict'.twins = {} /\ verdict'.status # "verified"
  <2>1. NoVerdict.twins = {} /\ NoVerdict.status # "verified"
    BY DEF NoVerdict
  <2>2. LET v == [NoVerdict EXCEPT !.status = "rejected", !.reason = "verifier_unavailable"]
        IN v.twins = {} /\ v.status # "verified"
    BY DEF NoVerdict
  <2>. QED
    BY <2>1, <2>2
<1>. QED
  BY <1>1 DEF FilingOK, Approved

LEMMA JudgingFilesWell == ASSUME FilingOK, NEW c \in Calls, Judge(c) PROVE FilingOK'
<1> DEFINE Met(r) == IF Judgement[r].status = "verified" THEN Twins(r) ELSE {}
<1>0. PICK reading \in Readings :
        LET v == Judgement[reading]
            parsed == Answers[reading].payload.form = "object"
            twins == IF v.status = "verified" THEN Twins(reading) ELSE {}
        IN /\ verdict' = [status |-> v.status, reason |-> v.reason, reading |-> reading,
                          tee |-> IF parsed THEN call[c].tee ELSE None, by |-> call[c].by,
                          signer |-> call[c].signer, asked |-> call[c].asked, twins |-> twins]
           /\ filed' = IF v.status = "verified" /\ twins = {} /\ Cardinality(filed) < MaxFiled
                       THEN filed \cup {reading} ELSE filed
  BY DEF Judge
<1>1. /\ verdict'.status = Judgement[reading].status /\ verdict'.reading = reading
      /\ verdict'.twins = Met(reading)
      /\ filed' = IF Judgement[reading].status = "verified" /\ Met(reading) = {}
                     /\ Cardinality(filed) < MaxFiled
                  THEN filed \cup {reading} ELSE filed
  BY <1>0
<1>2. CASE Judgement[reading].status # "verified"
  <2>1. verdict'.twins = {} /\ verdict'.status # "verified" /\ filed' = filed
    BY <1>1, <1>2
  <2>. QED
    BY <2>1 DEF FilingOK, Approved
<1>3. CASE Judgement[reading].status = "verified"
  <2>1. verdict'.status = "verified" /\ verdict'.reading = reading /\ verdict'.twins = Twins(reading)
    BY <1>1, <1>3
  <2>2. filed' = filed \/ (filed' = filed \cup {reading} /\ Twins(reading) = {})
    BY <1>1, <1>3
  <2>3. Approved(reading)
    BY <1>3 DEF Approved
  <2>4. \A f \in filed' : Approved(f)
    BY <2>2, <2>3 DEF FilingOK
  <2>5. \A twin \in Twins(reading) :
            Approved(twin) /\ Judgement[twin].hash = Judgement[reading].hash
    BY DEF Twins, FilingOK
  <2>6. Twins(reading) = {} =>
            \A f \in filed' \ {reading} : Judgement[f].hash # Judgement[reading].hash
    BY <2>2 DEF Twins
  <2>7. \A f, g \in filed' : Judgement[f].hash = Judgement[g].hash => f = g
    BY <2>2 DEF Twins, FilingOK
  <2>. QED
    BY <2>1, <2>3, <2>4, <2>5, <2>6, <2>7 DEF FilingOK, Approved
<1>. QED
  BY <1>2, <1>3

LEMMA FilingStaysWell == FilingOK /\ [Next]_vars => FilingOK'
<1> SUFFICES ASSUME FilingOK, [Next]_vars PROVE FilingOK'
  OBVIOUS
<1>1. ASSUME NEW c \in Calls, Ask(c) \/ AskFails(c) \/ ReadSignature(c) \/ ReadQuote(c) \/ KeepQuote(c)
      PROVE  FilingOK'
  BY <1>1, UnjudgedFilesNothing DEF Ask, AskFails, ReadSignature, ReadQuote, KeepQuote
<1>2. ASSUME NEW c \in Calls, Judge(c) PROVE FilingOK'
  BY <1>2, JudgingFilesWell
<1>3. CASE Rotate \/ Restart
  BY <1>3, UnjudgedFilesNothing DEF Rotate, Restart
<1>4. CASE UNCHANGED vars
  BY <1>4 DEF vars, FilingOK, Approved
<1>. QED
  BY <1>1, <1>2, <1>3, <1>4 DEF Next

\* An approval without a twin shares its hash with no receipt filed before it, and
\* every twin does, however many verifications run at once.
THEOREM FilingsAreTold == Spec => []FilingOK
<1>1. Init => FilingOK
  <2>1. NoVerdict.twins = {} /\ NoVerdict.status # "verified"
    BY DEF NoVerdict
  <2>. QED
    BY <2>1 DEF Init, FilingOK
<1>. QED
  BY <1>1, FilingStaysWell, PTL DEF Spec

\* No two filed readings tell the same of their receipts, and a reading refused as a
\* duplicate tells the same as one that was filed (receipt.py:177).
FiledApart == \A f, g \in filed : Alike(f, g) => f = g
TwinsAreAlike == \A twin \in verdict.twins : Alike(verdict.reading, twin)

THEOREM FiledReceiptsAreApart == Spec => [](FiledApart /\ TwinsAreAlike)
<1>1. FilingOK => FiledApart
  BY OneHashMeansAlike DEF FilingOK, FiledApart
<1>2. FilingOK => TwinsAreAlike
  <2> SUFFICES ASSUME FilingOK, NEW twin \in verdict.twins PROVE Alike(verdict.reading, twin)
    BY DEF TwinsAreAlike
  <2>1. Approved(twin) /\ Approved(verdict.reading)
    BY DEF FilingOK
  <2>. QED
    BY <2>1, OneHashMeansAlike DEF FilingOK
<1>. QED
  BY <1>1, <1>2, FilingsAreTold, PTL
=============================================================================
