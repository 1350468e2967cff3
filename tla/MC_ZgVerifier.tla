--------------------------- MODULE MC_ZgVerifier ---------------------------
(* A small instance of the verifier for TLC: one venue, the receipts of a   *)
(* few sales, and the ways a model may read them.                           *)
EXTENDS ZgVerifier, TLC

CallSymmetry == Permutations(Calls)

\* Words of the name and of the texts: "vip", "billiards", "bloor", "bar".
vip == <<1, 2>>  billiards == <<3, 4, 5>>  bloor == <<6, 7>>  bar == <<8, 9>>
MCGeneric == {bar}
MCName == <<-1, 2, Blank, -3, 4, 5, Blank, Mark, -6, 7, Blank, -8, 9>>

Header == <<-1, -2, Mark, -3, -4, -5>>          \* "VIP*BILLIARDS"
Street == <<20, Blank, 6, 7, Blank, 8, 9>>      \* "Japas, Bloor bar"
Blurred == Header \o <<Blank, 21>>

Sure == [form |-> "number", tenths |-> 9]
NoDate == [form |-> "none"]
NoTotal == [form |-> "none"]
Noon(day) == [form |-> "minute", day |-> day, minute |-> 12, offset |-> 0]

\* An approval with an identifier, a date and a total.
Payload(id, date, total) ==
    [form |-> "object", isReceipt |-> TRUE, named |-> TRUE, confidence |-> Sure,
     reason |-> "none", id |-> id, date |-> date, total |-> total]
Reading(receipt, text, p) == [receipt |-> receipt, text |-> text, payload |-> p]

Price(c) == [form |-> "point", cents |-> c]
Numbered == Payload(<<-11, Mark, 12>>, Noon(1), Price(5))
Plain == Payload(<<>>, Noon(1), Price(5))
Bare == Payload(<<>>, NoDate, NoTotal)
Other == [Numbered EXCEPT !.id = <<13>>]

MCAnswers ==
    <<\* one receipt, its number spelt and its text read in different ways, and cut off
     \* in the third photograph
     Reading("numbered", Header, Numbered),
     Reading("numbered", Blurred,
             [Numbered EXCEPT !.id = <<Blank, 11, Blank, 12, Mark>>, !.date = NoDate, !.confidence.tenths = 7]),
     Reading("numbered", Header, [Plain EXCEPT !.confidence.form = "nan"]),
     \* another of the same minute and total, and two whose number is a mark
     Reading("other", Header, [Other EXCEPT !.reason = "tampered", !.confidence.tenths = 95]),
     Reading("mark1", Header, [Numbered EXCEPT !.id = <<Mark>>]),
     Reading("mark2", Header, Payload(<<Mark, Mark>>, Noon(2), Price(7))),
     \* a receipt without a number, told by minute and total; in one photograph the
     \* comma of the total is copied as printed
     Reading("plain", Blurred, [Plain EXCEPT !.date = [Noon(2) EXCEPT !.form = "zoned"]]),
     Reading("plain", Header, [Plain EXCEPT !.date = Noon(2), !.total.form = "comma"]),
     \* one with nothing to tell it by but its text
     Reading("bare", Header, Bare),
     \* answers that must not earn a punch, or that nobody can read
     Reading("numbered", Street, Numbered),
     Reading("menu", Header, [Bare EXCEPT !.isReceipt = FALSE, !.confidence.form = "words"]),
     Reading("other", Header, [Other EXCEPT !.named = FALSE]),
     Reading("other", Header, [Other EXCEPT !.reason = "illegible"]),
     Reading("other", Header, [Other EXCEPT !.confidence.tenths = 6]),
     Reading("other", Header, [Other EXCEPT !.date.form = "edge"]),
     Reading("other", Header, [Other EXCEPT !.form = "notjson"])>>
=============================================================================
