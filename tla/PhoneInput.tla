----------------------------- MODULE PhoneInput -----------------------------
(***************************************************************************)
(* The phone field (shared/phone-input.tsx): typed freely, and normalised   *)
(* to +549 and ten digits when it is left.  A number is a sequence of       *)
(* blocks of digits, of which only the prefixes have a content: 54, 9, the  *)
(* trunk's 0, the mobile's 15; area codes and local numbers have a length.  *)
(***************************************************************************)
EXTENDS Naturals, SequencesExt

CONSTANT Slips      \* how many digits may be missing or too many

PhoneAssumption == Slips \in 0..5

VARIABLES
    typed,      \* how the number was written
    value,      \* the field's value: whether it starts with +, and its digits
    blurred     \* the field was left since

vars == <<typed, value, blurred>>

Area(n) == <<"area", n>>
Local(n) == <<"local", n>>
Prefix(p) == <<p, IF p \in {"54", "15"} THEN 2 ELSE 1>>

Length(digits) ==
    LET upTo[i \in 0..Len(digits)] == IF i = 0 THEN 0 ELSE upTo[i - 1] + digits[i][2]
    IN  upTo[Len(digits)]
StartsWith(digits, prefixes) == IsPrefix([i \in DOMAIN prefixes |-> Prefix(prefixes[i])], digits)

\* The ways to write a mobile number: with the country, from abroad or not, with the
\* trunk's prefix, with the 15, or as one's neighbours write it.
Writing ==
    [lead : {<<>>, <<"0">>, <<"54">>, <<"54", "9">>}, area : 2..4, fifteen : {FALSE}, plus : BOOLEAN,
     slip : 0..Slips, more : BOOLEAN]
    \cup [lead : {<<>>, <<"0">>}, area : 2..4, fifteen : {TRUE}, plus : {FALSE}, slip : 0..Slips, more : BOOLEAN]
    \cup [lead : {<<>>}, area : {0}, fifteen : {TRUE}, plus : {FALSE}, slip : 0..Slips, more : BOOLEAN]

Digits(w) ==
    LET local == IF w.area = 0 THEN 8 ELSE 10 - w.area IN
    [i \in DOMAIN w.lead |-> Prefix(w.lead[i])]
    \o (IF w.area = 0 THEN <<>> ELSE <<Area(w.area)>>)
    \o (IF w.fifteen THEN <<Prefix("15")>> ELSE <<>>)
    \o <<Local(IF w.more THEN local + w.slip ELSE local - w.slip)>>

\* What the number is from abroad; without an area code it is of Buenos Aires.
E164(w) ==
    [plus |-> TRUE,
     digits |-> <<Prefix("54"), Prefix("9"), Area(IF w.area = 0 THEN 2 ELSE w.area),
                  Local(IF w.area = 0 THEN 8 ELSE 10 - w.area)>>]

-----------------------------------------------------------------------------
Mobile(digits) == [plus |-> TRUE, digits |-> <<Prefix("54"), Prefix("9")>> \o digits]

\* A mutant: without the rule for a leading 15.
NormalizeNo15(raw) ==
    LET d == raw.digits IN
    IF StartsWith(d, <<"54", "9">>) /\ Length(d) = 13 THEN [plus |-> TRUE, digits |-> d]
    ELSE IF StartsWith(d, <<"0">>) \/ (StartsWith(d, <<"54">>) /\ Length(d) = 12) THEN Mobile(Tail(d))
    ELSE IF Length(d) = 10 THEN Mobile(d)
    ELSE [plus |-> TRUE, digits |-> d]

\* normalizePhoneAR: the rules apply in this order.
NormalizePhoneAR(raw) ==
    LET d == raw.digits
        full == StartsWith(d, <<"54", "9">>) /\ Length(d) = 13
        withoutNine == StartsWith(d, <<"54">>) /\ ~StartsWith(d, <<"54", "9">>) /\ Length(d) = 12
        trunk == StartsWith(d, <<"0">>)
        fifteen == StartsWith(d, <<"15">>) /\ Length(d) = 10
    IN IF full THEN [plus |-> TRUE, digits |-> d]
       ELSE IF withoutNine \/ trunk THEN Mobile(Tail(d))
       ELSE IF fifteen THEN Mobile(<<Prefix("1")>> \o d)
       ELSE IF Length(d) = 10 THEN Mobile(d)
       ELSE [plus |-> TRUE, digits |-> d]

\* isValidPhoneAR, and the phone's rule in subscriberSchema.
IsValidPhoneAR(v) == v.plus /\ StartsWith(v.digits, <<"54", "9">>) /\ Length(v.digits) = 13

NothingTyped == [plus |-> FALSE, digits |-> <<>>]

Init ==
    /\ typed \in Writing
    /\ value = NothingTyped
    /\ blurred = FALSE

Raw(w) == [plus |-> w.plus, digits |-> Digits(w)]

\* handleChange, up to the whole number.
HandleChange(w) ==
    /\ typed' = w
    /\ value' = Raw(w)
    /\ blurred' = FALSE

\* handleBlur; an empty field is left alone.
HandleBlur ==
    /\ value # NothingTyped
    /\ value' = NormalizePhoneAR(value)
    /\ blurred' = TRUE
    /\ UNCHANGED typed

Next == HandleBlur \/ \E w \in Writing : HandleChange(w)

Spec == Init /\ [][Next]_vars

-----------------------------------------------------------------------------
Mistyped == typed.slip # 0

\* A field that passes for valid holds the number that was meant, and not the one some
\* rule made of a slip or of a prefix it took for another.  Two digits missing after 54 are
\* too many slips: ten digits are taken for a local number.
ValidIsMeant == value # NothingTyped /\ IsValidPhoneAR(value) => ~Mistyped /\ value = E164(typed)

\* A number written with its area code and without the 15 is understood.
Understood == blurred /\ ~Mistyped /\ ~typed.fifteen => value = E164(typed)

\* Leaving the field again changes nothing: the field normalises its own output whenever
\* it loses the focus.
BlurSettles == blurred => NormalizePhoneAR(value) = value

\* Inductive, for at most one slip.
IInv ==
    /\ typed \in Writing /\ blurred \in BOOLEAN
    /\ value \in IF blurred THEN {NormalizePhoneAR(Raw(typed))} ELSE {NothingTyped, Raw(typed)}
=============================================================================
