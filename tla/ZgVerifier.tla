----------------------------- MODULE ZgVerifier -----------------------------
(***************************************************************************)
(* The receipt verifier of src/hour_rewards/zg/verifier.py: one question   *)
(* to an inference node, the public proof of who answered it, and the      *)
(* verdict built from both.                                                *)
(*                                                                         *)
(* Calls run concurrently in one process and share one variable, the cache *)
(* of the node's enclave signer.  A call is cut at its awaits: the answer, *)
(* the signature receipt, the quote.  The node may change its key at any   *)
(* time; its keys are 1, 2, ... and 0 signs for whoever answers without an *)
(* attested enclave.                                                       *)
(***************************************************************************)
EXTENDS ReceiptVerdict

CONSTANTS
    Calls,      \* verifications that may be in flight
    Venue, Scope, Name, \* the venue asked about, its name, the dedupe scope
    Answers,    \* what the model may answer, a sequence of readings:
                \* [receipt, text, payload], each of what is printed
    VerifyTee,  \* ZGConfig.verify_tee
    MaxKeys,    \* bound: keys the node ever has
    MaxFiled,   \* bound: receipts that earn a punch
    None

ASSUME VerifierBounds == MaxKeys \in Nat \ {0} /\ MaxFiled \in Nat /\ VerifyTee \in BOOLEAN
\* The name's words, and the forms an answer may have.
ASSUME NameHasWords == Words(Name) \in Seq(Seq(Int))
ASSUME AnswerForms == \A reading \in DOMAIN Answers :
    LET p == Answers[reading].payload IN
    /\ p.form \in {"notjson", "other", "object"} /\ {p.isReceipt, p.named} \subseteq BOOLEAN
    /\ p.confidence.form = "number" => p.confidence.tenths \in Int
ASSUME VerifierNone == None \notin Nat \cup BOOLEAN

VARIABLES
    node,       \* the key of the node's enclave now
    first,      \* the key it had when this process started
    blind,      \* history: a quote could not be read since this process started
    cached,     \* _enclave_signers of the node: {} until a quote is read, then
                \* {key}, or {None} for a quote that could not be read
    call,       \* what each call is waiting for, and what it knows
    verdict,    \* the verdict this step returned, if it returned one
    filed       \* the readings the service filed as a punch

vars == <<node, first, blind, cached, call, verdict, filed>>

Readings == DOMAIN Answers
Flags == {TRUE, FALSE, None}
Signers == 0..MaxKeys
Idle == [step |-> "idle", by |-> None, signer |-> None, quote |-> None, tee |-> None, asked |-> FALSE]
NoVerdict == [status |-> "none", reason |-> "none", reading |-> None, tee |-> None,
              by |-> None, signer |-> None, asked |-> FALSE, twins |-> {}]

Init ==
    /\ node = 1 /\ first = 1 /\ blind = FALSE /\ cached = {}
    /\ call = [c \in Calls |-> Idle]
    /\ verdict = NoVerdict /\ filed = {}

Goto(c, r) == call' = [call EXCEPT ![c] = r]

\* The node is asked, and answers with the key it has (or somebody without an
\* enclave answers).  Without a response key there is nothing to attest it by.
Ask(c) ==
    /\ call[c] = Idle
    /\ \/ Goto(c, [Idle EXCEPT !.step = "judge"])
       \/ /\ VerifyTee
          /\ \E by \in {0, node} :
                 Goto(c, [Idle EXCEPT !.by = by, !.asked = TRUE, !.step = "sign"])
    /\ verdict' = NoVerdict
    /\ UNCHANGED <<node, first, blind, cached, filed>>

\* The Router does not answer, the host has not configured it, or one of the two
\* public reads returns JSON that is no object, which raises inside ask_router.
AskFails(c) ==
    /\ call[c].step \in {"idle", "sign", "quote"}
    /\ Goto(c, Idle)
    /\ verdict' = [NoVerdict EXCEPT !.status = "rejected", !.reason = "verifier_unavailable"]
    /\ UNCHANGED <<node, first, blind, cached, filed>>

\* The comparison at the end of fetch_attestation; None says nothing is known.
MatchOrFalse(signer, enclave) == signer # None /\ signer = enclave  \* mutant
MatchCareless(signer, enclave) ==  \* mutant
    IF signer \in {None, enclave} THEN None ELSE signer = enclave
MatchForeign(signer, enclave) ==  \* mutant
    IF signer = None THEN None ELSE enclave = None \/ signer = enclave
Match(signer, enclave) ==
    IF signer = None \/ enclave = None THEN None ELSE signer = enclave

\* The keys a signature receipt may name.  It is JSON, and nobody recovers the
\* ECDSA signature: an attested node names the key it signed with or none, anybody
\* else names any key there has been, a published one of the node's included.
Named(by) == IF by = 0 THEN 0..node \cup {None} ELSE {by, None}

\* The signature receipt is read: what it names, or nothing if it is unreadable.
ReadSignature(c) ==
    LET r == call[c] IN
    /\ r.step = "sign"
    /\ \/ Goto(c, [r EXCEPT !.step = "judge"])
       \/ \E signer \in Named(r.by) :
              \/ cached = {} /\ Goto(c, [r EXCEPT !.signer = signer, !.step = "quote"])
              \/ \E enclave \in cached :
                     Goto(c, [r EXCEPT !.signer = signer, !.step = "judge",
                                       !.tee = Match(signer, enclave)])
    /\ verdict' = NoVerdict
    /\ UNCHANGED <<node, first, blind, cached, filed>>

\* The quote is read: what it commits to, or nothing.
ReadQuote(c) ==
    /\ call[c].step = "quote"
    /\ \E quote \in {node, None} :
           /\ Goto(c, [call[c] EXCEPT !.quote = quote, !.step = "keep"])
           /\ blind' = (blind \/ quote = None)
    /\ verdict' = NoVerdict
    /\ UNCHANGED <<node, first, cached, filed>>

\* It is kept, whatever another call has kept meanwhile.
Kept(quote) == {quote}
KeepQuote(c) ==
    LET r == call[c] IN
    /\ r.step = "keep"
    /\ cached' = Kept(r.quote)
    /\ Goto(c, [r EXCEPT !.step = "judge", !.quote = None, !.tee = Match(r.signer, r.quote)])
    /\ verdict' = NoVerdict
    /\ UNCHANGED <<node, first, blind, filed>>

\* What each answer is judged to be.
Judgement == [reading \in Readings |->
    LET a == Answers[reading] IN
    CASE a.payload.form = "notjson" -> Unavailable(Venue, Scope, a.text)
      [] a.payload.form # "notjson" /\ Raises(a.payload) ->
             [status |-> "raised", reason |-> "none", hash |-> <<>>]
      [] OTHER -> Verdict(Venue, Scope, Name, a.text, a.payload)]

Twins(reading) == {f \in filed : Judgement[f].hash = Judgement[reading].hash}

\* The answer is parsed only now, after its attestation was awaited.  The service
\* files what is approved unless a filed receipt has its hash.
Judge(c) ==
    LET r == call[c] IN
    /\ r.step = "judge"
    /\ Goto(c, Idle)
    /\ \E reading \in Readings :
         LET v == Judgement[reading]
             parsed == Answers[reading].payload.form = "object"
             twins == IF v.status = "verified" THEN Twins(reading) ELSE {}
         IN /\ verdict' = [status |-> v.status, reason |-> v.reason, reading |-> reading,
                           tee |-> IF parsed THEN r.tee ELSE None, by |-> r.by,
                           signer |-> r.signer, asked |-> r.asked, twins |-> twins]
            /\ filed' = IF v.status = "verified" /\ twins = {} /\ Cardinality(filed) < MaxFiled
                        THEN filed \cup {reading} ELSE filed
    /\ UNCHANGED <<node, first, blind, cached>>

\* The node's enclave gets another key.
Rotate ==
    /\ node < MaxKeys /\ node' = node + 1
    /\ verdict' = NoVerdict
    /\ UNCHANGED <<first, blind, cached, call, filed>>

\* The process restarts: the cache is empty again and its calls are gone.
Restart ==
    /\ cached # {}
    /\ cached' = {} /\ call' = [c \in Calls |-> Idle] /\ verdict' = NoVerdict
    /\ first' = node /\ blind' = FALSE
    /\ UNCHANGED <<node, filed>>

Next ==
    \/ \E c \in Calls : Ask(c) \/ AskFails(c) \/ ReadSignature(c) \/ ReadQuote(c)
                            \/ KeepQuote(c) \/ Judge(c)
    \/ Rotate \/ Restart

Spec == Init /\ [][Next]_vars
-----------------------------------------------------------------------------
(* Properties *)

TypeOK ==
    /\ {node, first} \subseteq 1..MaxKeys
    /\ blind \in BOOLEAN
    /\ \A k \in cached : k \in Signers \cup {None}
    /\ \A c \in Calls :
           /\ call[c].step \in {"idle", "sign", "quote", "keep", "judge"}
           /\ {call[c].by, call[c].signer, call[c].quote} \subseteq Signers \cup {None}
           /\ call[c].tee \in Flags /\ call[c].asked \in BOOLEAN
    /\ verdict.tee \in Flags
    /\ filed \subseteq Readings

\* A punch is only flagged as attested if its receipt names a key that the node's
\* own quote committed to in the life of this process, and if an attested node
\* answered, then it is the key that node signed with: whatever another call or an
\* earlier key has left in the cache (verifier.py:287).  It does not say that the
\* enclave served the answer: the signature is not recovered (verifier.py:19), so
\* whoever names the node's key is flagged too.
TeeIsBacked ==
    verdict.tee = TRUE => verdict.signer \in first..node /\ verdict.by \in {0, verdict.signer}

\* "Missing data is None rather than False" (verifier.py:270): the flag is only
\* false if a stranger answered, or the node has changed its key in the life of
\* this process (the cache keeps the old one, as the comment at 73 says).
DoubtHasACause == verdict.tee = FALSE => verdict.by = 0 \/ node # first

\* The flag is only missing if nobody asked for it, the answer was no JSON, the
\* receipt could not be read or names no key, or a quote could not be read at
\* some time in the life of this process: that absence is cached too (294).
Parsed == verdict.reading # None /\ Answers[verdict.reading].payload.form = "object"
SilenceHasACause ==
    Parsed /\ verdict.tee = None =>
        ~verdict.asked \/ verdict.signer = None \/ blind

\* A receipt earns once, and what it takes for it to earn again: an approval that
\* meets no filed reading in its hash is of another receipt than every filed one,
\* unless one of two photographs shows a number and the other does not, or neither
\* does and they differ in what they show of the sale or in how the total is written
\* (receipt.py:177).  README.md:71 "the same receipt can't earn a punch twice" knows
\* no such exception.
Receipt(reading) == Answers[reading].receipt
ShowOtherThings(a, b) ==
    LET p == Answers[a].payload  q == Answers[b].payload
        Numbered(x) == Strip(x.id) # <<>>
    IN \/ Numbered(p) # Numbered(q)
       \/ ~Numbered(p) /\ (p.total.form # q.total.form \/ (p.date.form = "none") # (q.date.form = "none"))

\* No receipt is refused for another one's sake: two readings that meet in one hash
\* are of one receipt, unless a number consists of punctuation alone, when all such
\* receipts are one.
NoFalseDuplicate ==
    \A twin \in verdict.twins :
        \/ Receipt(verdict.reading) = Receipt(twin)
        \/ {Normalize(i) : i \in CleanIdentifier(Answers[twin].payload.id)} = {<<>>}

\* The answers that may earn a punch by what the code settles for itself: the model
\* saw a receipt of this venue and gave no reason against it, a confidence that is
\* a number is enough (for one that is not, see OnlyConfidentPasses), and of a name
\* with three or more telling words at least two are in the text.  Whether a total
\* and a date or number were read is left to the model (see CarriesAllFour).
Telling == {i \in DOMAIN Words(Name) : Len(Words(Name)[i]) >= MinTokenLength
                                       /\ Words(Name)[i] \notin Generic}
Supported == {reading \in Readings :
    LET a == Answers[reading]  p == a.payload
        seen == {i \in Telling : Occurs(Words(Name)[i], Normalize(a.text))}
    IN /\ p.form = "object" /\ p.isReceipt /\ p.named /\ p.reason \notin ModelReasons
       /\ p.confidence.form # "nan" =>
              \/ MinConfidence = 0
              \/ p.confidence.form = "number" /\ p.confidence.tenths >= MinConfidence
       /\ Telling # {} => seen # {}
       /\ Cardinality(Telling) >= 3 => Cardinality(seen) >= 2}

\* What an approval rests on: no guard that decide_status applies is passed by what
\* should have failed it, and no one word carries a name (receipt.py:134, 149).
ApprovalIsSupported == verdict.status = "verified" => verdict.reading \in Supported
-----------------------------------------------------------------------------
(* What the sources say and the code does not do.                            *)

Read == Answers[verdict.reading].payload

\* README.md:224 "it must carry a total, and it must carry a date or receipt
\* number", and receipt.py:192 of a receipt with neither: "refused".  No guard asks
\* for them.
CarriesAllFour ==
    verdict.status = "verified" =>
        /\ ParseTotal(Read.total) # {}
        /\ ParseDate(Read.date) # {} \/ CleanIdentifier(Read.id) # {}

\* receipt.py:161 "only a confident pass is VERIFIED": a confidence was given, and
\* it is enough.
OnlyConfidentPasses ==
    verdict.status = "verified" /\ MinConfidence > 0 =>
        Read.confidence.form = "number" /\ Read.confidence.tenths >= MinConfidence

\* verifier.py:27 "Nothing here raises at the caller: a Router that is ...
\* answering with something other than the JSON it was asked for comes back
\* REJECTED as verifier_unavailable".
NothingRaises == verdict.status # "raised"
=============================================================================
