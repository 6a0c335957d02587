--------------------------- MODULE CurrencyInput ---------------------------
(***************************************************************************)
(* The amount field (shared/currency-input.tsx): while it has the focus it  *)
(* shows a text of its own, otherwise the amount it was given.  Amounts are *)
(* in thousandths; a text is digits, dots and commas, reduced to what       *)
(* parseARS can tell apart.                                                 *)
(***************************************************************************)
EXTENDS Naturals

CONSTANTS
    Whole,      \* the whole parts that are typed
    Decimals,   \* how many decimals may be typed
    Clears      \* the form may set the amount to nothing while the field has no focus

CurrencyAssumption == Whole \subseteq Nat /\ Decimals \in 0..3 /\ Clears \in BOOLEAN

VARIABLES
    value,          \* the form's amount
    displayValue,
    isFocused

vars == <<value, displayValue, isFocused>>

\* A text: its whole part, grouped by dots or not, its decimals, and what sets them off.
NoText == [whole |-> 0, grouped |-> FALSE, sep |-> "none", decimals |-> <<>>]
Digit == {0, 5, 9}
Text ==
    [whole : Whole, grouped : BOOLEAN, sep : {"none"}, decimals : {<<>>}]
    \cup [whole : Whole, grouped : BOOLEAN, sep : {"comma", "dot"},
          decimals : UNION {[1..n -> Digit] : n \in 1..Decimals}]

Power(n) == 10 ^ n
Number(digits) ==
    LET sum[i \in 0..3] == IF i = 0 THEN 0 ELSE sum[i - 1] * 10 + (IF i \in DOMAIN digits THEN digits[i] ELSE 0)
    IN sum

Size(digits) == CHOOSE n \in 0..3 : DOMAIN digits = 1..n
Thousandths(digits) == Number(digits)[3]
Digits(digits) == Number(digits)[Size(digits)]

\* parseARS: dots go, whatever they were meant for, and the first comma is the decimal one.
ParseARS(t) ==
    IF t.sep = "dot" THEN (t.whole * Power(Size(t.decimals)) + Digits(t.decimals)) * 1000
    ELSE t.whole * 1000 + Thousandths(t.decimals)

\* formatARS: dots between thousands (below ten thousand the locale may leave them out, which
\* parseARS cannot tell), at most two decimals, rounded, without trailing zeros.
Rounded(v) == (v + 5) \div 10
FormatARS(v) ==
    LET c == Rounded(v)
        cents == c % 100
    IN [whole |-> c \div 100, grouped |-> c >= 1000000,
        sep |-> IF cents = 0 THEN "none" ELSE "comma",
        decimals |-> IF cents = 0 THEN <<>>
                     ELSE IF cents % 10 = 0 THEN <<cents \div 10>> ELSE <<cents \div 10, cents % 10>>]

Shown == IF isFocused THEN displayValue ELSE IF value = 0 THEN NoText ELSE FormatARS(value)

Init ==
    /\ value \in {0} \cup {w * 1000 : w \in Whole}
    /\ displayValue = IF value = 0 THEN NoText ELSE FormatARS(value)
    /\ isFocused = FALSE

HandleChange(t) ==
    /\ isFocused
    /\ displayValue' = t
    /\ value' = ParseARS(t)
    /\ UNCHANGED isFocused

\* An amount of nothing leaves the text as it was.
HandleFocus ==
    /\ ~isFocused
    /\ isFocused' = TRUE
    /\ displayValue' = IF value = 0 THEN displayValue ELSE FormatARS(value)
    /\ UNCHANGED value

HandleBlur ==
    /\ isFocused
    /\ isFocused' = FALSE
    /\ value' = ParseARS(displayValue)
    /\ displayValue' = IF value' = 0 THEN NoText ELSE FormatARS(value')

\* The form gives the field another amount.
SetValue ==
    /\ ~isFocused
    /\ value' \in {w * 1000 : w \in Whole}
    /\ Clears \/ value' # 0
    /\ UNCHANGED <<displayValue, isFocused>>

Next == HandleFocus \/ HandleBlur \/ SetValue \/ \E t \in Text : HandleChange(t)

Spec == Init /\ [][Next]_vars

-----------------------------------------------------------------------------
\* The amount the form has is the amount its user sees in the field, also when the form set
\* it behind the text the field still has.  Of three decimals one is lost, and for an amount
\* the form clears the old text is shown: two decimals, and a form that does not clear.
ShownIsValue == ParseARS(Shown) = value

\* Inductive, for two decimals: an amount is a number of centavos, and the text of a field
\* that has the focus, or will take it with no amount, is the amount.
IInv ==
    /\ isFocused \in BOOLEAN
    /\ value \in Nat /\ value % 10 = 0
    /\ isFocused \/ value = 0 => ParseARS(displayValue) = value
=============================================================================
