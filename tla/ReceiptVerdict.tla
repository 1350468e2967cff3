--------------------------- MODULE ReceiptVerdict ---------------------------
(***************************************************************************)
(* What one answer of the model becomes: the pure functions of             *)
(* src/hour_rewards/zg/receipt.py and build_verdict of zg/verifier.py.     *)
(*                                                                         *)
(* Text is a sequence of characters: Blank, Mark (any punctuation), a      *)
(* letter n > 0 or its capital -n.  A number, a date or a total is a       *)
(* record with the form the model wrote it in; a value that may be missing *)
(* is a set with at most one member.  sha256 is taken to be injective.     *)
(***************************************************************************)
EXTENDS Integers, Sequences, SequencesExt, FiniteSets

CONSTANTS
    Generic,        \* GENERIC_NAME_TOKENS
    MinTokenLength, \* MIN_DISTINCTIVE_TOKEN_LENGTH
    MinConfidence,  \* ZGConfig.min_confidence, in tenths
    IdWidth,        \* the width of the receipt_identifier column
    DayMinutes      \* minutes in a day

ASSUME VerdictNumbers ==
    /\ {MinTokenLength, IdWidth, DayMinutes} \subseteq Nat /\ MinConfidence \in 0..10

Blank == 0
Mark == 1000
Lower(x) == IF x < 0 THEN -x ELSE x

\* Every run of blanks and marks becomes one blank, and none is left at an end.
Normalize(s) ==
    LET step(acc, x) ==
            IF x \in {Blank, Mark}
            THEN IF acc = <<>> \/ Last(acc) = Blank THEN acc ELSE Append(acc, Blank)
            ELSE Append(acc, Lower(x))
        all == FoldLeft(step, <<>>, s)
    IN IF all # <<>> /\ Last(all) = Blank THEN Front(all) ELSE all

Words(s) ==
    LET step(acc, x) == IF x = Blank THEN Append(acc, <<>>)
                        ELSE [acc EXCEPT ![Len(acc)] = Append(@, x)]
    IN FoldLeft(step, << <<>> >>, Normalize(s))

\* By their places in the name: a word that is there twice is looked for twice.
DistinctiveTokens(name) ==
    LET words == Words(name)
    IN {i \in DOMAIN words : Len(words[i]) >= MinTokenLength /\ words[i] \notin Generic}

\* Python's "in": a token also occurs inside a longer word.
Occurs(t, s) == \E i \in 0..Len(s) - Len(t) : SubSeq(s, i + 1, i + Len(t)) = t

Needed(n) == n \div 2  \* mutant
NeededTokens(n) == (n + 1) \div 2
VenueNameInText(name, text) ==
    LET tokens == DistinctiveTokens(name)  haystack == Normalize(text)
    IN tokens = {} \/ Cardinality({i \in tokens : Occurs(Words(name)[i], haystack)})
                          >= NeededTokens(Cardinality(tokens))
-----------------------------------------------------------------------------
(* The fields of an answer *)

\* min(1.0, nan) is 1.0, so a confidence that is not a number counts as certain;
\* one that is no number at all counts as none.
ClampConfidence(c) ==
    CASE c.form = "number" -> IF c.tenths > 10 THEN 10 ELSE IF c.tenths < 0 THEN 0 ELSE c.tenths
      [] c.form = "nan" -> 10
      [] OTHER -> 0

\* Minutes UTC.  A zone is converted; a stamp that cannot be parsed falls back to
\* its first ten characters, which lose the time of day.  The conversion of a
\* stamp at an end of the calendar (form "edge") overflows, see Raises.
ParseDate(d) ==
    CASE d.form = "minute" -> {d.day * DayMinutes + d.minute}
      [] d.form = "zoned" -> {d.day * DayMinutes + d.minute - d.offset}
      [] d.form = "day" -> {d.day * DayMinutes}
      [] OTHER -> {}

\* Cents.  Whatever is not a digit, a point or a minus is dropped, so a decimal
\* comma makes a hundred times the total.
ParseTotal(t) ==
    CASE t.form = "point" -> {t.cents}
      [] t.form = "comma" -> {t.cents * 100}
      [] OTHER -> {}

Strip(s) == LET kept == {i \in DOMAIN s : s[i] # Blank}
            IN IF kept = {} THEN <<>>
               ELSE SubSeq(s, CHOOSE i \in kept : \A j \in kept : i <= j,
                              CHOOSE i \in kept : \A j \in kept : i >= j)
CleanIdentifier(s) ==
    LET kept == Strip(s)
    IN IF kept = <<>> THEN {} ELSE {[i \in 1..Min({Len(kept), IdWidth}) |-> kept[i]]}

ModelReasons == {"not_a_receipt", "venue_mismatch", "no_total", "no_date", "illegible"}

ConfidenceFirst(read, found, confidence, reason) ==  \* mutant
    IF confidence >= MinConfidence THEN <<"verified", "none">> ELSE <<"rejected", "low_confidence">>
DecideStatus(read, found, confidence, reason) ==
    CASE ~read -> <<"rejected", IF reason = "none" THEN "not_a_receipt" ELSE reason>>
      [] read /\ ~found -> <<"rejected", "venue_mismatch">>
      [] read /\ found /\ reason # "none" -> <<"rejected", reason>>
      [] read /\ found /\ reason = "none" /\ confidence < MinConfidence ->
             <<"rejected", "low_confidence">>
      [] OTHER -> <<"verified", "none">>

DedupeTotal(venue, scope, id, date, total, text) ==  \* mutant
    IF id # {} THEN <<venue, scope, "id", {Normalize(i) : i \in id}>>
    ELSE <<venue, scope, "sale", total>>
DedupeHash(venue, scope, id, date, total, text) ==
    CASE id # {} -> <<venue, scope, "id", {Normalize(i) : i \in id}>>
      [] id = {} /\ date \cup total # {} -> <<venue, scope, "sale", date, total>>
      [] OTHER -> <<venue, scope, "text", Normalize(text)>>

\* An answer that is JSON but no object, whose confidence is an integer beyond any
\* float, or whose date leaves the calendar when its zone is converted, makes
\* build_verdict raise, whatever the answer says otherwise.
Raises(p) == p.form = "other" \/ p.confidence.form = "huge" \/ p.date.form = "edge"

Verdict(venue, scope, name, text, p) ==
    LET decision == DecideStatus(p.isReceipt, p.named /\ VenueNameInText(name, text),
                                 ClampConfidence(p.confidence),
                                 IF p.reason \in ModelReasons THEN p.reason ELSE "none")
    IN [status |-> decision[1], reason |-> decision[2],
        hash |-> DedupeHash(venue, scope, CleanIdentifier(p.id), ParseDate(p.date),
                            ParseTotal(p.total), text)]

\* A submission nobody could judge is hashed on its own text.
Unavailable(venue, scope, text) ==
    [status |-> "rejected", reason |-> "verifier_unavailable",
     hash |-> DedupeHash(venue, scope, {}, {}, {}, text)]
=============================================================================
