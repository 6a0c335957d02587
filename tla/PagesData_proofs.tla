-------------------------- MODULE PagesData_proofs --------------------------
(***************************************************************************)
(* Proofs about what the pages of MCPages compute of their data, for any    *)
(* amounts, numbers and rows: the field for an amount, the field for a      *)
(* phone, the table of subscribers.                                         *)
(***************************************************************************)
EXTENDS MCPages, FiniteSetTheorems, SequenceTheorems, WellFoundedInduction, TLAPS

-----------------------------------------------------------------------------
(***************************************************************************)
(* The amount.                                                              *)
(***************************************************************************)
\* The i-th decimal, and 0 behind the last.
Decimal(digits, i) == IF i \in DOMAIN digits THEN digits[i] ELSE 0

\* The digits' number, computed one digit after the other, is their sum of powers of ten.
LEMMA NumberIs ==
    ASSUME NEW digits, \A i \in 1..3 : Decimal(digits, i) \in Nat
    PROVE  /\ Amount!Number(digits)[0] = 0
           /\ Amount!Number(digits)[1] = Decimal(digits, 1)
           /\ Amount!Number(digits)[2] = Decimal(digits, 1) * 10 + Decimal(digits, 2)
           /\ Amount!Number(digits)[3] = Decimal(digits, 1) * 100 + Decimal(digits, 2) * 10 + Decimal(digits, 3)
<1>. DEFINE d(i) == Decimal(digits, i)
            Sum(f) == [i \in 0..3 |-> IF i = 0 THEN 0 ELSE f[i - 1] * 10 + d(i)]
            sums == [i \in 0..3 |-> IF i = 0 THEN 0 ELSE IF i = 1 THEN d(1)
                         ELSE IF i = 2 THEN d(1) * 10 + d(2) ELSE d(1) * 100 + d(2) * 10 + d(3)]
            sum == CHOOSE f : f = Sum(f)
<1>1. Amount!Number(digits) = sum
  BY DEF Amount!Number, Decimal
<1>2. d(1) \in Nat /\ d(2) \in Nat /\ d(3) \in Nat
  OBVIOUS
<1>3. sums = Sum(sums)
  <2>. HIDE DEF d
  <2>1. ASSUME NEW i \in 0..3 PROVE sums[i] = (IF i = 0 THEN 0 ELSE sums[i - 1] * 10 + d(i))
    <3>1. i \in {0, 1, 2, 3}
      OBVIOUS
    <3>. QED BY <1>2, <3>1
  <2>. QED BY <2>1
<1>4. sum = Sum(sum)
  BY <1>3
<1>. HIDE DEF d, sum
<1>5. \A i \in 0..3 : sum[i] = (IF i = 0 THEN 0 ELSE sum[i - 1] * 10 + d(i))
  BY <1>4
<1>6. sum[0] = 0 /\ sum[1] = sum[0] * 10 + d(1) /\ sum[2] = sum[1] * 10 + d(2) /\ sum[3] = sum[2] * 10 + d(3)
  BY <1>5
<1>. QED BY <1>1, <1>2, <1>6 DEF d

\* Up to two decimals: how many there are, what their digits say, and in thousandths.
LEMMA DecimalsAre ==
    /\ Amount!Size(<<>>) = 0 /\ Amount!Thousandths(<<>>) = 0
    /\ \A n \in 1..2 : \A digits \in [1..n -> 0..9] :
          /\ Amount!Size(digits) = n
          /\ Amount!Digits(digits) = IF n = 1 THEN digits[1] ELSE digits[1] * 10 + digits[2]
          /\ Amount!Thousandths(digits) = digits[1] * 100 + (IF n = 1 THEN 0 ELSE digits[2] * 10)
<1>1. Amount!Size(<<>>) = 0
  <2>1. DOMAIN <<>> = 1..0 /\ \A n \in 1..3 : 1 \in 1..n /\ 1 \notin 1..0
    OBVIOUS
  <2>2. 0 \in 0..3 /\ \A n \in 0..3 : n # 0 => DOMAIN <<>> # 1..n
    BY <2>1
  <2>. QED BY <2>1, <2>2 DEF Amount!Size
<1>2. Amount!Thousandths(<<>>) = 0
  <2>1. \A i \in 1..3 : Decimal(<<>>, i) = 0
    BY DEF Decimal
  <2>. QED BY <2>1, NumberIs DEF Amount!Thousandths
<1>3. ASSUME NEW n \in 1..2, NEW digits \in [1..n -> 0..9]
      PROVE  /\ Amount!Size(digits) = n
             /\ Amount!Digits(digits) = IF n = 1 THEN digits[1] ELSE digits[1] * 10 + digits[2]
             /\ Amount!Thousandths(digits) = digits[1] * 100 + (IF n = 1 THEN 0 ELSE digits[2] * 10)
  <2>1. Amount!Size(digits) = n
    <3>1. DOMAIN digits = 1..n
      OBVIOUS
    <3>2. ASSUME NEW m \in 0..3, 1..m = 1..n PROVE m = n
      <4>1. n \in 1..m /\ m + 1 \notin 1..m
        BY <3>2
      <4>. QED BY <3>2, <4>1
    <3>. QED BY <3>1, <3>2 DEF Amount!Size
  <2>2. /\ Decimal(digits, 1) = digits[1] /\ digits[1] \in 0..9
        /\ Decimal(digits, 2) = (IF n = 1 THEN 0 ELSE digits[2]) /\ (n = 2 => digits[2] \in 0..9)
        /\ Decimal(digits, 3) = 0
    BY DEF Decimal
  <2>3. \A i \in 1..3 : Decimal(digits, i) \in Nat
    <3>1. \A i \in 1..3 : i \in {1, 2, 3}
      OBVIOUS
    <3>. QED BY <2>2, <3>1
  <2>4. n \in {1, 2}
    OBVIOUS
  <2>5. /\ Amount!Number(digits)[1] = digits[1]
        /\ Amount!Number(digits)[2] = digits[1] * 10 + Decimal(digits, 2)
        /\ Amount!Number(digits)[3] = digits[1] * 100 + Decimal(digits, 2) * 10
    <3>1. /\ Amount!Number(digits)[1] = Decimal(digits, 1)
          /\ Amount!Number(digits)[2] = Decimal(digits, 1) * 10 + Decimal(digits, 2)
          /\ Amount!Number(digits)[3] = Decimal(digits, 1) * 100 + Decimal(digits, 2) * 10 + Decimal(digits, 3)
      BY <2>3, NumberIs
    <3>2. digits[1] * 100 \in Nat /\ Decimal(digits, 2) * 10 \in Nat
      BY <2>2, <2>4
    <3>. QED BY <2>2, <3>1, <3>2
  <2>. QED BY <2>1, <2>2, <2>4, <2>5 DEF Amount!Digits, Amount!Thousandths
<1>. QED BY <1>1, <1>2, <1>3

\* A whole number of centavos, in thousandths.
Centavos == {v \in Nat : v % 10 = 0}

\* Everything the field can hold with two decimals stands for a number of centavos.
LEMMA TextIsCentavos ==
    ASSUME Whole \subseteq Nat, Decimals \in 0..2, NEW t \in Amount!Text
    PROVE  Amount!ParseARS(t) \in Centavos
<1>1. CASE t \in [whole : Whole, grouped : BOOLEAN, sep : {"none"}, decimals : {<<>>}]
  <2>1. t.whole \in Nat /\ t.sep = "none" /\ t.decimals = <<>>
    BY <1>1
  <2>. QED BY <2>1, DecimalsAre DEF Amount!ParseARS, Centavos
<1>2. CASE t \in [whole : Whole, grouped : BOOLEAN, sep : {"comma", "dot"},
                  decimals : UNION {[1..n -> Amount!Digit] : n \in 1..Decimals}]
  <2>1. t.whole \in Nat /\ t.sep \in {"comma", "dot"}
    BY <1>2
  <2>2. PICK n \in 1..2 : t.decimals \in [1..n -> 0..9]
    <3>1. PICK m \in 1..Decimals : t.decimals \in [1..m -> Amount!Digit]
      BY <1>2
    <3>2. m \in 1..2 /\ Amount!Digit \subseteq 0..9
      BY DEF Amount!Digit
    <3>. QED BY <3>1, <3>2
  <2>3. t.decimals[1] \in 0..9 /\ (n = 2 => t.decimals[2] \in 0..9) /\ n \in {1, 2}
    BY <2>2
  <2>4. Amount!Power(1) = 10 /\ Amount!Power(2) = 100
    BY DEF Amount!Power
  <2>5. /\ Amount!Size(t.decimals) = n
        /\ Amount!Digits(t.decimals) = IF n = 1 THEN t.decimals[1] ELSE t.decimals[1] * 10 + t.decimals[2]
        /\ Amount!Thousandths(t.decimals) = t.decimals[1] * 100 + (IF n = 1 THEN 0 ELSE t.decimals[2] * 10)
    BY <2>2, DecimalsAre
  <2>6. CASE t.sep = "comma"
    <3>1. Amount!ParseARS(t) = t.whole * 1000 + (t.decimals[1] * 100 + (IF n = 1 THEN 0 ELSE t.decimals[2] * 10))
      BY <2>5, <2>6 DEF Amount!ParseARS
    <3>2. CASE n = 1
      BY <2>1, <2>3, <3>1, <3>2 DEF Centavos
    <3>3. CASE n = 2
      BY <2>1, <2>3, <3>1, <3>3 DEF Centavos
    <3>. QED BY <2>3, <3>2, <3>3
  <2>7. CASE t.sep = "dot"
    <3>1. Amount!ParseARS(t) = (t.whole * Amount!Power(n) + Amount!Digits(t.decimals)) * 1000
      BY <2>5, <2>7 DEF Amount!ParseARS
    <3>2. Amount!Digits(t.decimals) \in Nat
      BY <2>3, <2>5
    <3>3. t.whole * Amount!Power(n) \in Nat
      BY <2>1, <2>3, <2>4
    <3>. QED BY <3>1, <3>2, <3>3 DEF Centavos
  <2>. QED BY <2>1, <2>6, <2>7
<1>. QED BY <1>1, <1>2 DEF Amount!Text

\* What is written of a number of centavos is read as that number, to the last one.
LEMMA FormatIsRead ==
    ASSUME NEW v \in Centavos
    PROVE  Amount!ParseARS(Amount!FormatARS(v)) = v
<1>. DEFINE c == v \div 10
            cents == c % 100
            t == Amount!FormatARS(v)
<1>1. c \in Nat /\ v = c * 10 /\ Amount!Rounded(v) = c
  BY DEF Centavos, Amount!Rounded
<1>2. cents \in 0..99 /\ c = (c \div 100) * 100 + cents /\ c \div 100 \in Nat
  BY <1>1
<1>. HIDE DEF c
<1>3. /\ t.whole = c \div 100 /\ t.sep # "dot"
      /\ t.decimals = IF cents = 0 THEN <<>>
                      ELSE IF cents % 10 = 0 THEN <<cents \div 10>> ELSE <<cents \div 10, cents % 10>>
  BY <1>1 DEF Amount!FormatARS
<1>. HIDE DEF cents, t
<1>4. Amount!Thousandths(t.decimals) = cents * 10
  <2>1. CASE cents = 0
    BY <1>3, <2>1, DecimalsAre
  <2>2. CASE cents # 0 /\ cents % 10 = 0
    <3>1. t.decimals = <<cents \div 10>> /\ cents \div 10 \in 0..9 /\ cents = (cents \div 10) * 10
      BY <1>2, <1>3, <2>2
    <3>2. t.decimals \in [1..1 -> 0..9]
      BY <3>1
    <3>3. Amount!Thousandths(t.decimals) = t.decimals[1] * 100
      BY <3>1, <3>2, DecimalsAre
    <3>. QED BY <3>1, <3>3
  <2>3. CASE cents # 0 /\ cents % 10 # 0
    <3>1. /\ t.decimals = <<cents \div 10, cents % 10>> /\ cents \div 10 \in 0..9 /\ cents % 10 \in 0..9
          /\ cents = (cents \div 10) * 10 + (cents % 10)
      BY <1>2, <1>3, <2>3
    <3>2. t.decimals \in [1..2 -> 0..9]
      BY <3>1
    <3>3. Amount!Thousandths(t.decimals) = t.decimals[1] * 100 + t.decimals[2] * 10
      BY <3>1, <3>2, DecimalsAre
    <3>4. t.decimals[1] = cents \div 10 /\ t.decimals[2] = cents % 10
      BY <3>1
    <3>. HIDE DEF cents
    <3>. QED BY <3>1, <3>3, <3>4
  <2>. QED BY <2>1, <2>2, <2>3
<1>5. Amount!ParseARS(t) = t.whole * 1000 + Amount!Thousandths(t.decimals)
  BY <1>3 DEF Amount!ParseARS
<1>6. Amount!ParseARS(t) = (c \div 100) * 1000 + cents * 10
  BY <1>3, <1>4, <1>5
<1>7. (c \div 100) * 1000 + cents * 10 = v
  BY <1>1, <1>2
<1>. QED BY <1>6, <1>7 DEF t

\* A whole part of any size is a number of centavos, and an empty field is none.
LEMMA WholeIsCentavos ==
    /\ \A w \in Nat : w * 1000 \in Centavos
    /\ 0 \in Centavos /\ Amount!ParseARS(Amount!NoText) = 0
BY DecimalsAre DEF Centavos, Amount!ParseARS, Amount!NoText

\* What the field shows without the focus is its amount.
LEMMA TextOfAmount ==
    ASSUME NEW v \in Centavos
    PROVE  Amount!ParseARS(IF v = 0 THEN Amount!NoText ELSE Amount!FormatARS(v)) = v
BY FormatIsRead, WholeIsCentavos

\* The field starts with the form's amount.
LEMMA AmountInit == ASSUME Whole \subseteq Nat, Amount!Init PROVE Amount!IInv
<1>1. amount \in Centavos
  BY WholeIsCentavos DEF Amount!Init
<1>2. amount \in Nat /\ amount % 10 = 0
  BY <1>1 DEF Centavos
<1>. QED BY <1>1, <1>2, TextOfAmount DEF Amount!Init, Amount!IInv

\* Typing, taking and losing the focus, and the form's own changes.
LEMMA AmountStep ==
    ASSUME Whole \subseteq Nat, Decimals \in 0..2, Amount!IInv, [Amount!Next]_amountVars
    PROVE  Amount!IInv'
<1>0. amount \in Centavos
  BY DEF Amount!IInv, Centavos
<1>1. ASSUME NEW t \in Amount!Text, Amount!HandleChange(t) PROVE Amount!IInv'
  <2>1. Amount!ParseARS(t) \in Nat /\ Amount!ParseARS(t) % 10 = 0
    BY TextIsCentavos DEF Centavos
  <2>. QED BY <1>1, <2>1 DEF Amount!HandleChange, Amount!IInv
<1>2. CASE Amount!HandleFocus
  BY <1>0, <1>2, FormatIsRead DEF Amount!HandleFocus, Amount!IInv
<1>3. CASE Amount!HandleBlur
  <2>1. amount' = amount
    BY <1>3 DEF Amount!HandleBlur, Amount!IInv
  <2>2. amount' = 0 => Amount!ParseARS(displayValue') = 0
    BY <1>3, WholeIsCentavos DEF Amount!HandleBlur
  <2>. QED BY <1>3, <2>1, <2>2 DEF Amount!HandleBlur, Amount!IInv
<1>4. CASE Amount!SetValue
  <2>1. amount' \in {w * 1000 : w \in Whole} /\ amount' # 0
    BY <1>4 DEF Amount!SetValue
  <2>2. amount' \in Centavos
    BY <2>1, WholeIsCentavos
  <2>. QED BY <1>4, <2>1, <2>2 DEF Amount!SetValue, Amount!IInv, Centavos
<1>5. CASE UNCHANGED amountVars
  BY <1>5 DEF amountVars, Amount!IInv
<1>. QED BY <1>1, <1>2, <1>3, <1>4, <1>5 DEF Amount!Next, amountVars, Amount!vars

\* The amount that is shown is the form's.
LEMMA AmountShown == ASSUME Amount!IInv PROVE Amount!ShownIsValue
<1>1. amount \in Centavos
  BY DEF Amount!IInv, Centavos
<1>. QED BY <1>1, TextOfAmount DEF Amount!IInv, Amount!ShownIsValue, Amount!Shown

-----------------------------------------------------------------------------
(***************************************************************************)
(* Induction.  What recursion computes is proved by looking at the first    *)
(* place where it would be wrong.                                           *)
(***************************************************************************)
\* A set of numbers has a least one.
LEMMA Least == ASSUME NEW T, T \subseteq Nat, T # {} PROVE \E m \in T : \A k \in T : m <= k
<1>1. IsWellFoundedOn(OpToRel(<, Nat), Nat)
  BY NatLessThanWellFounded
<1>2. PICK m \in T : \A k \in T : ~(<<k, m>> \in OpToRel(<, Nat))
  BY <1>1, WFMin
<1>3. \A k \in T : ~(k < m)
  BY <1>2 DEF OpToRel
<1>. QED BY <1>3

-----------------------------------------------------------------------------
(***************************************************************************)
(* The phone number.                                                        *)
(***************************************************************************)
\* f sums up the lengths of the first n blocks of d.
IsSum(f, d, n) == f \in [0..n -> Nat] /\ f[0] = 0 /\ \A i \in 1..n : f[i] = f[i - 1] + d[i][2]

\* There are sums, of any number of blocks.
LEMMA SumExists ==
    ASSUME NEW d, NEW n \in Nat, \A i \in 1..n : d[i][2] \in Nat
    PROVE  \E f : IsSum(f, d, n)
<1>. DEFINE T == {m \in 0..n : ~\E f : IsSum(f, d, m)}
<1>1. ASSUME T # {} PROVE FALSE
  <2>1. PICK m \in T : \A k \in T : m <= k
    <3>1. T \subseteq Nat
      OBVIOUS
    <3>. HIDE DEF T
    <3>. QED BY <1>1, <3>1, Least
  <2>2. m # 0
    <3>1. IsSum([i \in 0..0 |-> 0], d, 0)
      BY DEF IsSum
    <3>. QED BY <3>1
  <2>3. m - 1 \in 0..n /\ m - 1 \notin T
    BY <2>1, <2>2
  <2>4. PICK f : IsSum(f, d, m - 1)
    BY <2>3
  <2>. DEFINE g == [i \in 0..m |-> IF i = m THEN f[m - 1] + d[m][2] ELSE f[i]]
  <2>5. m \in 1..n /\ d[m][2] \in Nat /\ f[m - 1] \in Nat
    BY <2>2, <2>4 DEF IsSum
  <2>6. g \in [0..m -> Nat]
    BY <2>4, <2>5 DEF IsSum
  <2>7. g[0] = 0 /\ \A i \in 1..m : g[i] = g[i - 1] + d[i][2]
    BY <2>4, <2>5 DEF IsSum
  <2>8. IsSum(g, d, m)
    BY <2>6, <2>7 DEF IsSum
  <2>. QED BY <2>8
<1>. QED BY <1>1

\* The recursion computes them.
LEMMA LengthIs ==
    ASSUME NEW d, NEW f, Len(d) \in Nat, IsSum(f, d, Len(d))
    PROVE  Phone!Length(d) = f[Len(d)]
<1>. DEFINE n == Len(d)
            Body(h) == [i \in 0..n |-> IF i = 0 THEN 0 ELSE h[i - 1] + d[i][2]]
            upTo == CHOOSE h : h = Body(h)
<1>1. Phone!Length(d) = upTo[n]
  BY DEF Phone!Length
<1>2. f = Body(f)
  BY DEF IsSum
<1>3. upTo = Body(upTo)
  BY <1>2
<1>. HIDE DEF upTo
<1>4. upTo[0] = 0 /\ \A i \in 1..n : upTo[i] = upTo[i - 1] + d[i][2]
  BY <1>3
<1>. DEFINE T == {m \in 0..n : upTo[m] # f[m]}
<1>5. ASSUME T # {} PROVE FALSE
  <2>1. PICK m \in T : \A k \in T : m <= k
    <3>1. T \subseteq Nat
      OBVIOUS
    <3>. HIDE DEF T
    <3>. QED BY <1>5, <3>1, Least
  <2>2. m # 0
    BY <1>4 DEF IsSum
  <2>3. upTo[m - 1] = f[m - 1] /\ m \in 1..n
    BY <2>1, <2>2
  <2>. QED BY <1>4, <2>3 DEF IsSum
<1>. QED BY <1>1, <1>5

\* The numbers that occur have two to five blocks.
LEMMA LengthOf ==
    ASSUME NEW d, Len(d) \in 2..5, \A i \in 1..Len(d) : d[i][2] \in Nat
    PROVE  /\ Len(d) = 2 => Phone!Length(d) = d[1][2] + d[2][2]
           /\ Len(d) = 3 => Phone!Length(d) = d[1][2] + d[2][2] + d[3][2]
           /\ Len(d) = 4 => Phone!Length(d) = d[1][2] + d[2][2] + d[3][2] + d[4][2]
           /\ Len(d) = 5 => Phone!Length(d) = d[1][2] + d[2][2] + d[3][2] + d[4][2] + d[5][2]
<1>0. Len(d) \in Nat
  OBVIOUS
<1>1. PICK f : IsSum(f, d, Len(d))
  BY <1>0, SumExists
<1>2. Phone!Length(d) = f[Len(d)]
  BY <1>0, <1>1, LengthIs
<1>3. f[0] = 0 /\ \A i \in 1..Len(d) : f[i] = f[i - 1] + d[i][2] /\ d[i][2] \in Nat
  BY <1>1 DEF IsSum
<1>4. /\ f[1] = d[1][2] /\ d[1][2] \in Nat
      /\ f[2] = d[1][2] + d[2][2] /\ d[2][2] \in Nat
  BY <1>3
<1>5. Len(d) >= 3 => f[3] = d[1][2] + d[2][2] + d[3][2] /\ d[3][2] \in Nat
  BY <1>3, <1>4
<1>6. Len(d) >= 4 => f[4] = d[1][2] + d[2][2] + d[3][2] + d[4][2] /\ d[4][2] \in Nat
  BY <1>3, <1>4, <1>5
<1>7. Len(d) = 5 => f[5] = d[1][2] + d[2][2] + d[3][2] + d[4][2] + d[5][2]
  BY <1>3, <1>4, <1>5, <1>6
<1>8. \A k \in 2..5 : Len(d) = k => Phone!Length(d) = f[k]
  BY <1>2
<1>. HIDE DEF IsSum
<1>. QED BY <1>4, <1>5, <1>6, <1>7, <1>8

\* A prefix of one block.
LEMMA StartsWithOne ==
    ASSUME NEW S, NEW d \in Seq(S), NEW p
    PROVE  Phone!StartsWith(d, <<p>>) <=> Len(d) >= 1 /\ d[1] = Phone!Prefix(p)
<1>1. [i \in DOMAIN <<p>> |-> Phone!Prefix(<<p>>[i])] = <<Phone!Prefix(p)>>
  OBVIOUS
<1>. QED BY <1>1 DEF Phone!StartsWith, Phone!IsPrefix

\* Of two.
LEMMA StartsWithTwo ==
    ASSUME NEW S, NEW d \in Seq(S), NEW p, NEW q
    PROVE  Phone!StartsWith(d, <<p, q>>) <=> Len(d) >= 2 /\ d[1] = Phone!Prefix(p) /\ d[2] = Phone!Prefix(q)
<1>1. [i \in DOMAIN <<p, q>> |-> Phone!Prefix(<<p, q>>[i])] = <<Phone!Prefix(p), Phone!Prefix(q)>>
  OBVIOUS
<1>. QED BY <1>1 DEF Phone!StartsWith, Phone!IsPrefix

\* One block behind three.
LEMMA JoinedToThree == ASSUME NEW a, NEW b, NEW c, NEW d PROVE <<a, b, c>> \o <<d>> = <<a, b, c, d>>
<1>. DEFINE S == {a, b, c, d}
<1>1. <<a, b, c>> \in Seq(S) /\ d \in S /\ <<a, b, c, d>> = Append(<<a, b, c>>, d)
  OBVIOUS
<1>. HIDE DEF S
<1>. QED BY <1>1, AppendIsConcat

\* Up to three blocks and none, one or two behind them.
LEMMA Joined ==
    ASSUME NEW a, NEW b, NEW c, NEW d
    PROVE  /\ <<>> \o <<>> = <<>> /\ <<>> \o <<a>> = <<a>>
           /\ <<a>> \o <<>> = <<a>> /\ <<a, b>> \o <<>> = <<a, b>> /\ <<a, b, c>> \o <<>> = <<a, b, c>>
           /\ <<a>> \o <<b>> = <<a, b>> /\ <<a, b>> \o <<c>> = <<a, b, c>>
           /\ <<a, b>> \o <<c, d>> = <<a, b, c, d>>
<1>. DEFINE S == {a, b, c, d}
<1>1. /\ <<>> \in Seq(S) /\ <<a>> \in Seq(S) /\ <<a, b>> \in Seq(S) /\ <<a, b, c>> \in Seq(S)
      /\ <<c>> \in Seq(S) /\ <<d>> \in Seq(S) /\ a \in S /\ b \in S /\ c \in S /\ d \in S
  OBVIOUS
<1>2. /\ <<a>> = Append(<<>>, a) /\ <<a, b>> = Append(<<a>>, b)
      /\ <<a, b, c>> = Append(<<a, b>>, c) /\ <<a, b, c, d>> = Append(<<a, b, c>>, d)
      /\ <<c, d>> = Append(<<c>>, d)
  OBVIOUS
<1>. HIDE DEF S
<1>3. /\ <<>> \o <<>> = <<>> /\ <<>> \o <<a>> = <<a>>
      /\ <<a>> \o <<>> = <<a>> /\ <<a, b>> \o <<>> = <<a, b>> /\ <<a, b, c>> \o <<>> = <<a, b, c>>
  BY <1>1, ConcatEmptySeq
<1>4. /\ <<a>> \o <<b>> = <<a, b>> /\ <<a, b>> \o <<c>> = <<a, b, c>>
      /\ <<a, b, c>> \o <<d>> = <<a, b, c, d>> /\ <<c>> \o <<d>> = <<c, d>>
  BY <1>1, <1>2, AppendIsConcat
<1>5. (<<a, b>> \o <<c>>) \o <<d>> = <<a, b>> \o (<<c>> \o <<d>>)
  BY <1>1, ConcatAssociative
<1>. QED BY <1>3, <1>4, <1>5

\* One block in front of two.
LEMMA JoinedToTwo == ASSUME NEW a, NEW b, NEW c PROVE <<a>> \o <<b, c>> = <<a, b, c>>
<1>. DEFINE S == {a, b, c}
<1>1. /\ <<a>> \in Seq(S) /\ <<b>> \in Seq(S) /\ <<c>> \in Seq(S) /\ <<a, b>> \in Seq(S) /\ c \in S
      /\ <<b, c>> = Append(<<b>>, c) /\ <<a, b, c>> = Append(<<a, b>>, c)
  OBVIOUS
<1>. HIDE DEF S
<1>2. <<b, c>> = <<b>> \o <<c>> /\ <<a, b, c>> = <<a, b>> \o <<c>>
  BY <1>1, AppendIsConcat
<1>3. (<<a>> \o <<b>>) \o <<c>> = <<a>> \o (<<b>> \o <<c>>)
  BY <1>1, ConcatAssociative
<1>4. <<a>> \o <<b>> = <<a, b>>
  BY Joined
<1>. QED BY <1>2, <1>3, <1>4

\* Two blocks in front of three.
LEMMA JoinedWithThree == ASSUME NEW a, NEW b, NEW c, NEW d, NEW e PROVE <<a, b>> \o <<c, d, e>> = <<a, b, c, d, e>>
<1>. DEFINE S == {a, b, c, d, e}
<1>1. /\ <<a, b>> \in Seq(S) /\ <<c, d>> \in Seq(S) /\ <<e>> \in Seq(S) /\ <<a, b, c, d>> \in Seq(S) /\ e \in S
      /\ <<c, d, e>> = Append(<<c, d>>, e) /\ <<a, b, c, d, e>> = Append(<<a, b, c, d>>, e)
  OBVIOUS
<1>. HIDE DEF S
<1>2. <<c, d, e>> = <<c, d>> \o <<e>> /\ <<a, b, c, d, e>> = <<a, b, c, d>> \o <<e>>
  BY <1>1, AppendIsConcat
<1>3. (<<a, b>> \o <<c, d>>) \o <<e>> = <<a, b>> \o (<<c, d>> \o <<e>>)
  BY <1>1, ConcatAssociative
<1>4. <<a, b>> \o <<c, d>> = <<a, b, c, d>>
  BY Joined
<1>. QED BY <1>2, <1>3, <1>4

\* How many digits the local part of a writing has.
Count(w) ==
    LET local == IF w.area = 0 THEN 8 ELSE 10 - w.area
    IN  IF w.more THEN local + w.slip ELSE local - w.slip

\* The seven forms of a writing.
Form(w, lead, fifteen) == w.lead = lead /\ w.fifteen = fifteen /\ w.area \in 2..4

\* There is no other, and its local part is as long as it should be only without a slip.
LEMMA Writings ==
    ASSUME Slips \in 0..1, NEW w \in Phone!Writing
    PROVE  /\ \/ Form(w, <<>>, FALSE) \/ Form(w, <<"0">>, FALSE)
              \/ Form(w, <<"54">>, FALSE) \/ Form(w, <<"54", "9">>, FALSE)
              \/ Form(w, <<>>, TRUE) \/ Form(w, <<"0">>, TRUE)
              \/ w.lead = <<>> /\ w.area = 0 /\ w.fifteen
           /\ w.slip \in 0..1 /\ w.more \in BOOLEAN /\ w.plus \in BOOLEAN
           /\ Count(w) \in Nat
           /\ w.area # 0 => Count(w) + w.area \in 9..11 /\ (Count(w) + w.area = 10 <=> w.slip = 0)
           /\ w.area = 0 => Count(w) \in 7..9 /\ (Count(w) = 8 <=> w.slip = 0)
<1>1. /\ w.slip \in 0..Slips /\ w.more \in BOOLEAN /\ w.plus \in BOOLEAN /\ w.fifteen \in BOOLEAN
      /\ w.area \in 2..4 \/ w.area = 0
  BY DEF Phone!Writing
<1>2. w.slip \in {0, 1} /\ w.area \in {0, 2, 3, 4}
  BY <1>1
<1>3. \/ Form(w, <<>>, FALSE) \/ Form(w, <<"0">>, FALSE)
      \/ Form(w, <<"54">>, FALSE) \/ Form(w, <<"54", "9">>, FALSE)
      \/ Form(w, <<>>, TRUE) \/ Form(w, <<"0">>, TRUE)
      \/ w.lead = <<>> /\ w.area = 0 /\ w.fifteen
  BY DEF Phone!Writing, Form
<1>4. ASSUME w.area = 0 PROVE Count(w) \in 7..9 /\ (Count(w) = 8 <=> w.slip = 0)
  <2>1. Count(w) = IF w.more THEN 8 + w.slip ELSE 8 - w.slip
    BY <1>4 DEF Count
  <2>2. Count(w) \in 7..9 /\ (Count(w) = 8 <=> w.slip = 0)
    BY <1>1, <1>2, <2>1
  <2>. QED BY <1>4, <2>2
<1>5. ASSUME w.area \in 2..4
      PROVE  Count(w) \in Nat /\ Count(w) + w.area \in 9..11 /\ (Count(w) + w.area = 10 <=> w.slip = 0)
  <2>1. Count(w) = IF w.more THEN 10 - w.area + w.slip ELSE 10 - w.area - w.slip
    BY <1>5 DEF Count
  <2>2. Count(w) \in Nat /\ Count(w) + w.area \in 9..11 /\ (Count(w) + w.area = 10 <=> w.slip = 0)
    BY <1>1, <1>2, <1>5, <2>1
  <2>3. w.area # 0
    BY <1>5
  <2>. QED BY <2>2, <2>3
<1>6. /\ Count(w) \in Nat
      /\ w.area # 0 => Count(w) + w.area \in 9..11 /\ (Count(w) + w.area = 10 <=> w.slip = 0)
      /\ w.area = 0 => Count(w) \in 7..9 /\ (Count(w) = 8 <=> w.slip = 0)
  BY <1>1, <1>4, <1>5
<1>7. w.slip \in 0..1
  BY <1>2
<1>. QED BY <1>1, <1>3, <1>6, <1>7, Zenon

\* The digits of each form.
LEMMA DigitsAre ==
    ASSUME NEW w
    PROVE  LET n == Phone!Local(Count(w))
               a == Phone!Area(w.area)
           IN /\ Form(w, <<>>, FALSE) => Phone!Digits(w) = <<a, n>>
              /\ Form(w, <<"0">>, FALSE) => Phone!Digits(w) = <<Phone!Prefix("0"), a, n>>
              /\ Form(w, <<"54">>, FALSE) => Phone!Digits(w) = <<Phone!Prefix("54"), a, n>>
              /\ Form(w, <<"54", "9">>, FALSE) => Phone!Digits(w) = <<Phone!Prefix("54"), Phone!Prefix("9"), a, n>>
              /\ Form(w, <<>>, TRUE) => Phone!Digits(w) = <<a, Phone!Prefix("15"), n>>
              /\ Form(w, <<"0">>, TRUE) => Phone!Digits(w) = <<Phone!Prefix("0"), a, Phone!Prefix("15"), n>>
              /\ w.lead = <<>> /\ w.area = 0 /\ w.fifteen => Phone!Digits(w) = <<Phone!Prefix("15"), n>>
<1>. DEFINE P(p) == Phone!Prefix(p)
            n == Phone!Local(Count(w))
            a == Phone!Area(w.area)
            Lead(lead) == [i \in DOMAIN lead |-> Phone!Prefix(lead[i])]
            area == IF w.area = 0 THEN <<>> ELSE <<a>>
            fifteen == IF w.fifteen THEN <<Phone!Prefix("15")>> ELSE <<>>
<1>1. Phone!Digits(w) = Lead(w.lead) \o area \o fifteen \o <<n>>
  BY DEF Phone!Digits, Count
<1>2. /\ Lead(<<>>) = <<>> /\ Lead(<<"0">>) = <<Phone!Prefix("0")>> /\ Lead(<<"54">>) = <<Phone!Prefix("54")>>
      /\ Lead(<<"54", "9">>) = <<Phone!Prefix("54"), Phone!Prefix("9")>>
  OBVIOUS
<1>3. /\ \A lead, fif : Form(w, lead, fif) => area = <<a>> /\ fifteen = (IF fif THEN <<Phone!Prefix("15")>> ELSE <<>>)
      /\ w.area = 0 /\ w.fifteen => area = <<>> /\ fifteen = <<Phone!Prefix("15")>>
  BY DEF Form
<1>. HIDE DEF n, a, Lead, area, fifteen
<1>4. ASSUME Form(w, <<>>, FALSE) PROVE Phone!Digits(w) = <<a, n>>
  <2>1. Phone!Digits(w) = <<>> \o <<a>> \o <<>> \o <<n>>
    BY <1>1, <1>2, <1>3, <1>4 DEF Form
  <2>2. <<>> \o <<a>> = <<a>>
    BY Joined
  <2>3. <<a>> \o <<>> = <<a>>
    BY Joined
  <2>4. <<a>> \o <<n>> = <<a, n>>
    BY Joined
  <2>. QED BY <2>1, <2>2, <2>3, <2>4
<1>5. ASSUME Form(w, <<"0">>, FALSE) PROVE Phone!Digits(w) = <<P("0"), a, n>>
  <2>1. Phone!Digits(w) = <<P("0")>> \o <<a>> \o <<>> \o <<n>>
    BY <1>1, <1>2, <1>3, <1>5 DEF Form
  <2>2. <<P("0")>> \o <<a>> = <<P("0"), a>>
    BY Joined
  <2>3. <<P("0"), a>> \o <<>> = <<P("0"), a>>
    BY Joined
  <2>4. <<P("0"), a>> \o <<n>> = <<P("0"), a, n>>
    BY Joined
  <2>. QED BY <2>1, <2>2, <2>3, <2>4
<1>6. ASSUME Form(w, <<"54">>, FALSE) PROVE Phone!Digits(w) = <<P("54"), a, n>>
  <2>1. Phone!Digits(w) = <<P("54")>> \o <<a>> \o <<>> \o <<n>>
    BY <1>1, <1>2, <1>3, <1>6 DEF Form
  <2>2. <<P("54")>> \o <<a>> = <<P("54"), a>>
    BY Joined
  <2>3. <<P("54"), a>> \o <<>> = <<P("54"), a>>
    BY Joined
  <2>4. <<P("54"), a>> \o <<n>> = <<P("54"), a, n>>
    BY Joined
  <2>. QED BY <2>1, <2>2, <2>3, <2>4
<1>7. ASSUME Form(w, <<"54", "9">>, FALSE) PROVE Phone!Digits(w) = <<P("54"), P("9"), a, n>>
  <2>1. Phone!Digits(w) = <<P("54"), P("9")>> \o <<a>> \o <<>> \o <<n>>
    BY <1>1, <1>2, <1>3, <1>7 DEF Form
  <2>2. <<P("54"), P("9")>> \o <<a>> = <<P("54"), P("9"), a>>
    BY Joined
  <2>3. <<P("54"), P("9"), a>> \o <<>> = <<P("54"), P("9"), a>>
    BY Joined
  <2>4. <<P("54"), P("9"), a>> \o <<n>> = <<P("54"), P("9"), a, n>>
    BY JoinedToThree
  <2>. QED BY <2>1, <2>2, <2>3, <2>4
<1>8. ASSUME Form(w, <<>>, TRUE) PROVE Phone!Digits(w) = <<a, P("15"), n>>
  <2>1. Phone!Digits(w) = <<>> \o <<a>> \o <<P("15")>> \o <<n>>
    BY <1>1, <1>2, <1>3, <1>8 DEF Form
  <2>2. <<>> \o <<a>> = <<a>>
    BY Joined
  <2>3. <<a>> \o <<P("15")>> = <<a, P("15")>>
    BY Joined
  <2>4. <<a, P("15")>> \o <<n>> = <<a, P("15"), n>>
    BY Joined, JoinedToThree
  <2>. QED BY <2>1, <2>2, <2>3, <2>4
<1>9. ASSUME Form(w, <<"0">>, TRUE) PROVE Phone!Digits(w) = <<P("0"), a, P("15"), n>>
  <2>1. Phone!Digits(w) = <<P("0")>> \o <<a>> \o <<P("15")>> \o <<n>>
    BY <1>1, <1>2, <1>3, <1>9 DEF Form
  <2>2. <<P("0")>> \o <<a>> = <<P("0"), a>>
    BY Joined
  <2>3. <<P("0"), a>> \o <<P("15")>> = <<P("0"), a, P("15")>>
    BY Joined
  <2>4. <<P("0"), a, P("15")>> \o <<n>> = <<P("0"), a, P("15"), n>>
    BY Joined, JoinedToThree
  <2>. QED BY <2>1, <2>2, <2>3, <2>4
<1>10. ASSUME w.lead = <<>> /\ w.area = 0 /\ w.fifteen PROVE Phone!Digits(w) = <<P("15"), n>>
  <2>1. Phone!Digits(w) = <<>> \o <<>> \o <<P("15")>> \o <<n>>
    BY <1>1, <1>2, <1>3, <1>10
  <2>2. <<>> \o <<>> = <<>>
    BY Joined
  <2>3. <<>> \o <<P("15")>> = <<P("15")>>
    BY Joined
  <2>4. <<P("15")>> \o <<n>> = <<P("15"), n>>
    BY Joined
  <2>. QED BY <2>1, <2>2, <2>3, <2>4
<1>. QED BY <1>4, <1>5, <1>6, <1>7, <1>8, <1>9, <1>10 DEF n, a

\* A block's length, and which blocks differ.
LEMMA BlocksAre ==
    /\ Phone!Prefix("54")[2] = 2 /\ Phone!Prefix("15")[2] = 2
    /\ Phone!Prefix("9")[2] = 1 /\ Phone!Prefix("0")[2] = 1 /\ Phone!Prefix("1")[2] = 1
    /\ \A n : Phone!Area(n)[2] = n /\ Phone!Local(n)[2] = n
    /\ \A p, q : p # q => Phone!Prefix(p) # Phone!Prefix(q)
    /\ \A n, p : p \in {"54", "9", "0", "15", "1"} => Phone!Area(n) # Phone!Prefix(p) /\ Phone!Local(n) # Phone!Prefix(p)
BY DEF Phone!Prefix, Phone!Area, Phone!Local

\* The rules, by a number's first two blocks and its length.
LEMMA RulesAre ==
    ASSUME NEW S, NEW d \in Seq(S), Len(d) >= 2, NEW plus \in BOOLEAN
    PROVE  /\ Phone!NormalizePhoneAR([plus |-> plus, digits |-> d]) =
                 IF d[1] = Phone!Prefix("54") /\ d[2] = Phone!Prefix("9") /\ Phone!Length(d) = 13
                 THEN [plus |-> TRUE, digits |-> d]
                 ELSE IF \/ d[1] = Phone!Prefix("54") /\ d[2] # Phone!Prefix("9") /\ Phone!Length(d) = 12
                         \/ d[1] = Phone!Prefix("0")
                 THEN Phone!Mobile(Tail(d))
                 ELSE IF d[1] = Phone!Prefix("15") /\ Phone!Length(d) = 10
                 THEN Phone!Mobile(<<Phone!Prefix("1")>> \o d)
                 ELSE IF Phone!Length(d) = 10 THEN Phone!Mobile(d)
                 ELSE [plus |-> TRUE, digits |-> d]
           /\ Phone!IsValidPhoneAR([plus |-> plus, digits |-> d])
                 <=> plus /\ d[1] = Phone!Prefix("54") /\ d[2] = Phone!Prefix("9") /\ Phone!Length(d) = 13
<1>. DEFINE raw == [plus |-> plus, digits |-> d]
<1>1. raw.digits = d /\ raw.plus = plus
  OBVIOUS
<1>2. /\ Phone!StartsWith(d, <<"54", "9">>) <=> d[1] = Phone!Prefix("54") /\ d[2] = Phone!Prefix("9")
      /\ Phone!StartsWith(d, <<"54">>) <=> d[1] = Phone!Prefix("54")
      /\ Phone!StartsWith(d, <<"0">>) <=> d[1] = Phone!Prefix("0")
      /\ Phone!StartsWith(d, <<"15">>) <=> d[1] = Phone!Prefix("15")
  <2>1. Len(d) \in Nat /\ Len(d) >= 1
    OBVIOUS
  <2>. QED BY <2>1, StartsWithOne, StartsWithTwo
<1>. HIDE DEF raw
<1>3. Phone!IsValidPhoneAR(raw) <=> plus /\ d[1] = Phone!Prefix("54") /\ d[2] = Phone!Prefix("9") /\ Phone!Length(d) = 13
  BY <1>1, <1>2 DEF Phone!IsValidPhoneAR
<1>4. Phone!NormalizePhoneAR(raw) =
                 IF d[1] = Phone!Prefix("54") /\ d[2] = Phone!Prefix("9") /\ Phone!Length(d) = 13
                 THEN [plus |-> TRUE, digits |-> d]
                 ELSE IF \/ d[1] = Phone!Prefix("54") /\ d[2] # Phone!Prefix("9") /\ Phone!Length(d) = 12
                         \/ d[1] = Phone!Prefix("0")
                 THEN Phone!Mobile(Tail(d))
                 ELSE IF d[1] = Phone!Prefix("15") /\ Phone!Length(d) = 10
                 THEN Phone!Mobile(<<Phone!Prefix("1")>> \o d)
                 ELSE IF Phone!Length(d) = 10 THEN Phone!Mobile(d)
                 ELSE [plus |-> TRUE, digits |-> d]
  BY <1>1, <1>2 DEF Phone!NormalizePhoneAR
<1>. QED BY <1>3, <1>4 DEF raw

\* What is to be shown of a writing.
Meant(w, v) ==
    /\ Phone!NormalizePhoneAR(v) = v
    /\ Phone!IsValidPhoneAR(v) => w.slip = 0 /\ v = Phone!E164(w)
    /\ w.slip = 0 /\ ~w.fifteen => v = Phone!E164(w)

\* With the country, the 9 and the area code: right unless the local part is not.
LEMMA WholeNumber ==
    ASSUME Slips \in 0..1, NEW w \in Phone!Writing, w.area \in 2..4, ~w.fifteen, NEW plus \in BOOLEAN,
           NEW d, d = <<Phone!Prefix("54"), Phone!Prefix("9"), Phone!Area(w.area), Phone!Local(Count(w))>>
    PROVE  /\ Phone!NormalizePhoneAR([plus |-> plus, digits |-> d]) = [plus |-> TRUE, digits |-> d]
           /\ Phone!IsValidPhoneAR([plus |-> plus, digits |-> d]) <=> plus /\ w.slip = 0
           /\ Meant(w, [plus |-> TRUE, digits |-> d])
<1>. DEFINE S == {d[1], d[2], d[3], d[4]}
<1>1. d \in Seq(S) /\ Len(d) = 4
  OBVIOUS
<1>2. d[1] = Phone!Prefix("54") /\ d[2] = Phone!Prefix("9") /\ d[3] = Phone!Area(w.area) /\ d[4] = Phone!Local(Count(w))
  OBVIOUS
<1>3. w.area # 0 /\ Count(w) \in Nat /\ Count(w) + w.area \in 9..11 /\ (Count(w) + w.area = 10 <=> w.slip = 0)
  <2>1. w.area # 0
    OBVIOUS
  <2>. QED BY <2>1, Writings
<1>4. /\ d[1][2] = 2 /\ d[2][2] = 1 /\ d[3][2] = w.area /\ d[4][2] = Count(w)
      /\ d[1] # Phone!Prefix("0") /\ d[1] # Phone!Prefix("15")
  BY <1>2, BlocksAre
<1>5. Phone!Length(d) = 3 + w.area + Count(w)
  <2>1. \A i \in 1..Len(d) : d[i][2] \in Nat
    BY <1>1, <1>3, <1>4
  <2>. HIDE DEF S
  <2>2. Len(d) \in 2..5 /\ Len(d) = 4
    BY <1>1
  <2>3. Phone!Length(d) = d[1][2] + d[2][2] + d[3][2] + d[4][2]
    BY <2>1, <2>2, LengthOf
  <2>. QED BY <1>3, <1>4, <2>3
<1>6. Phone!Length(d) # 10 /\ (Phone!Length(d) = 13 <=> w.slip = 0)
  BY <1>3, <1>5
<1>. HIDE DEF S
<1>7. \A p \in BOOLEAN : /\ Phone!NormalizePhoneAR([plus |-> p, digits |-> d]) = [plus |-> TRUE, digits |-> d]
                         /\ Phone!IsValidPhoneAR([plus |-> p, digits |-> d]) <=> p /\ w.slip = 0
  <2>. SUFFICES ASSUME NEW p \in BOOLEAN
                PROVE  /\ Phone!NormalizePhoneAR([plus |-> p, digits |-> d]) = [plus |-> TRUE, digits |-> d]
                       /\ Phone!IsValidPhoneAR([plus |-> p, digits |-> d]) <=> p /\ w.slip = 0
    OBVIOUS
  <2>1. Len(d) >= 2
    BY <1>1
  <2>2. Phone!IsValidPhoneAR([plus |-> p, digits |-> d]) <=> p /\ w.slip = 0
    BY <1>1, <1>2, <1>6, <2>1, RulesAre
  <2>3. Phone!NormalizePhoneAR([plus |-> p, digits |-> d]) = [plus |-> TRUE, digits |-> d]
    BY <1>1, <1>2, <1>4, <1>6, <2>1, RulesAre
  <2>. QED BY <2>2, <2>3
<1>8. w.slip = 0 => Phone!E164(w) = [plus |-> TRUE, digits |-> d]
  <2>1. w.slip = 0 => Count(w) = 10 - w.area
    BY <1>3
  <2>. QED BY <1>3, <2>1 DEF Phone!E164
<1>9. /\ Phone!NormalizePhoneAR([plus |-> TRUE, digits |-> d]) = [plus |-> TRUE, digits |-> d]
      /\ Phone!IsValidPhoneAR([plus |-> TRUE, digits |-> d]) <=> w.slip = 0
  BY <1>7
<1>10. Meant(w, [plus |-> TRUE, digits |-> d])
  BY <1>8, <1>9, Zenon DEF Meant
<1>. QED BY <1>7, <1>10

\* What the rules that put 54 and 9 before an area code make.
LEMMA MobileNumber ==
    ASSUME Slips \in 0..1, NEW w \in Phone!Writing, w.area \in 2..4, ~w.fifteen
    PROVE  Meant(w, Phone!Mobile(<<Phone!Area(w.area), Phone!Local(Count(w))>>))
<1>. DEFINE d == <<Phone!Prefix("54"), Phone!Prefix("9"), Phone!Area(w.area), Phone!Local(Count(w))>>
<1>1. <<Phone!Prefix("54"), Phone!Prefix("9")>> \o <<Phone!Area(w.area), Phone!Local(Count(w))>> = d
  BY Joined
<1>2. Phone!Mobile(<<Phone!Area(w.area), Phone!Local(Count(w))>>) = [plus |-> TRUE, digits |-> d]
  BY <1>1 DEF Phone!Mobile
<1>3. Meant(w, [plus |-> TRUE, digits |-> d])
  BY WholeNumber
<1>. QED BY <1>2, <1>3

\* A number that no rule knows stays as it is, and is not valid.
LEMMA UnknownNumber ==
    ASSUME NEW S, NEW d \in Seq(S), Len(d) >= 2, NEW w, w.slip # 0 \/ w.fifteen,
           Phone!Length(d) # 10, d[1] # Phone!Prefix("0"),
           d[1] = Phone!Prefix("54") => IF d[2] = Phone!Prefix("9") THEN Phone!Length(d) # 13 ELSE Phone!Length(d) # 12,
           NEW plus \in BOOLEAN
    PROVE  /\ Phone!NormalizePhoneAR([plus |-> plus, digits |-> d]) = [plus |-> TRUE, digits |-> d]
           /\ ~Phone!IsValidPhoneAR([plus |-> plus, digits |-> d])
           /\ Meant(w, [plus |-> TRUE, digits |-> d])
<1>1. \A p \in BOOLEAN : /\ Phone!NormalizePhoneAR([plus |-> p, digits |-> d]) = [plus |-> TRUE, digits |-> d]
                         /\ ~Phone!IsValidPhoneAR([plus |-> p, digits |-> d])
  BY BlocksAre, RulesAre
<1>. QED BY <1>1 DEF Meant

\* What the field makes of a writing, and that it is not valid before.
Settles(w) ==
    /\ Meant(w, Phone!NormalizePhoneAR(Phone!Raw(w)))
    /\ Phone!IsValidPhoneAR(Phone!Raw(w)) => w.slip = 0 /\ Phone!Raw(w) = Phone!E164(w)

\* Written with 54 and 9.
LEMMA FromAbroad ==
    ASSUME Slips \in 0..1, NEW w \in Phone!Writing, Form(w, <<"54", "9">>, FALSE) PROVE Settles(w)
<1>. DEFINE d == <<Phone!Prefix("54"), Phone!Prefix("9"), Phone!Area(w.area), Phone!Local(Count(w))>>
<1>1. w.area \in 2..4 /\ ~w.fifteen /\ w.plus \in BOOLEAN
  BY Writings DEF Form
<1>2. Phone!Raw(w) = [plus |-> w.plus, digits |-> d]
  BY DigitsAre DEF Phone!Raw
<1>. HIDE DEF d
<1>3. /\ Phone!NormalizePhoneAR([plus |-> w.plus, digits |-> d]) = [plus |-> TRUE, digits |-> d]
      /\ Phone!IsValidPhoneAR([plus |-> w.plus, digits |-> d]) <=> w.plus /\ w.slip = 0
      /\ Meant(w, [plus |-> TRUE, digits |-> d])
  BY <1>1, WholeNumber DEF d
<1>4. w.plus /\ w.slip = 0 => Phone!Raw(w) = Phone!E164(w)
  BY <1>1, <1>2, <1>3 DEF Meant
<1>. QED BY <1>2, <1>3, <1>4 DEF Settles

\* With the area code only.
LEMMA Plain ==
    ASSUME Slips \in 0..1, NEW w \in Phone!Writing, Form(w, <<>>, FALSE),
           NEW d, d = <<Phone!Area(w.area), Phone!Local(Count(w))>>
    PROVE  Settles(w)
<1>. DEFINE S == {d[1], d[2]}
<1>1. /\ w.area \in 2..4 /\ w.area # 0 /\ ~w.fifteen /\ w.plus \in BOOLEAN /\ Count(w) \in Nat
      /\ Count(w) + w.area \in 9..11 /\ (Count(w) + w.area = 10 <=> w.slip = 0)
  <2>1. w.area \in 2..4 /\ w.area # 0 /\ ~w.fifteen
    BY DEF Form
  <2>. QED BY <2>1, Writings
<1>2. Phone!Raw(w) = [plus |-> w.plus, digits |-> d]
  BY DigitsAre DEF Phone!Raw
<1>3. /\ d \in Seq(S) /\ Len(d) = 2 /\ d[1] = Phone!Area(w.area) /\ d[2] = Phone!Local(Count(w))
  OBVIOUS
<1>. HIDE DEF S
<1>4. d[1][2] = w.area /\ d[2][2] = Count(w) /\ \A p \in {"54", "0", "15"} : d[1] # Phone!Prefix(p)
  BY <1>3, BlocksAre
<1>5. Phone!Length(d) = w.area + Count(w)
  <2>1. Len(d) \in 2..5 /\ \A i \in 1..Len(d) : d[i][2] \in Nat
    BY <1>1, <1>3, <1>4
  <2>2. Phone!Length(d) = d[1][2] + d[2][2]
    BY <1>3, <2>1, LengthOf
  <2>. QED BY <1>4, <2>2
<1>6. Phone!Length(d) = 10 <=> w.slip = 0
  BY <1>1, <1>5
<1>7. Len(d) >= 2
  BY <1>3
<1>8. CASE w.slip = 0
  <2>1. /\ Phone!NormalizePhoneAR(Phone!Raw(w)) = Phone!Mobile(d)
        /\ ~Phone!IsValidPhoneAR(Phone!Raw(w))
    BY <1>1, <1>2, <1>3, <1>4, <1>6, <1>7, <1>8, RulesAre
  <2>2. Meant(w, Phone!Mobile(d))
    BY <1>1, MobileNumber
  <2>. QED BY <2>1, <2>2 DEF Settles
<1>9. CASE w.slip # 0
  <2>1. d[1] # Phone!Prefix("0") /\ d[1] # Phone!Prefix("54") /\ Phone!Length(d) # 10
    BY <1>4, <1>6, <1>9
  <2>. QED BY <1>1, <1>2, <1>3, <1>7, <1>9, <2>1, UnknownNumber DEF Settles
<1>. QED BY <1>8, <1>9

\* With the trunk's 0.
LEMMA WithTrunk ==
    ASSUME Slips \in 0..1, NEW w \in Phone!Writing, Form(w, <<"0">>, FALSE),
           NEW d, d = <<Phone!Prefix("0"), Phone!Area(w.area), Phone!Local(Count(w))>>
    PROVE  Settles(w)
<1>. DEFINE S == {d[1], d[2], d[3]}
<1>1. /\ w.area \in 2..4 /\ w.area # 0 /\ ~w.fifteen /\ w.plus \in BOOLEAN /\ Count(w) \in Nat
      /\ Count(w) + w.area \in 9..11 /\ (Count(w) + w.area = 10 <=> w.slip = 0)
  <2>1. w.area \in 2..4 /\ w.area # 0 /\ ~w.fifteen
    BY DEF Form
  <2>. QED BY <2>1, Writings
<1>2. Phone!Raw(w) = [plus |-> w.plus, digits |-> d]
  BY DigitsAre DEF Phone!Raw
<1>3. /\ d \in Seq(S) /\ Len(d) = 3 /\ d[1] = Phone!Prefix("0")
      /\ Tail(d) = <<Phone!Area(w.area), Phone!Local(Count(w))>>
  OBVIOUS
<1>. HIDE DEF S
<1>4. Phone!Prefix("0") # Phone!Prefix("54")
  BY BlocksAre
<1>5. Len(d) >= 2
  BY <1>3
<1>6. /\ Phone!NormalizePhoneAR(Phone!Raw(w)) = Phone!Mobile(Tail(d))
      /\ ~Phone!IsValidPhoneAR(Phone!Raw(w))
  BY <1>1, <1>2, <1>3, <1>4, <1>5, RulesAre
<1>7. Meant(w, Phone!Mobile(Tail(d)))
  BY <1>1, <1>3, MobileNumber
<1>. QED BY <1>6, <1>7 DEF Settles

\* With 54 and no 9.
LEMMA WithoutNine ==
    ASSUME Slips \in 0..1, NEW w \in Phone!Writing, Form(w, <<"54">>, FALSE),
           NEW d, d = <<Phone!Prefix("54"), Phone!Area(w.area), Phone!Local(Count(w))>>
    PROVE  Settles(w)
<1>. DEFINE S == {d[1], d[2], d[3]}
<1>1. /\ w.area \in 2..4 /\ w.area # 0 /\ ~w.fifteen /\ w.plus \in BOOLEAN /\ Count(w) \in Nat
      /\ Count(w) + w.area \in 9..11 /\ (Count(w) + w.area = 10 <=> w.slip = 0)
  <2>1. w.area \in 2..4 /\ w.area # 0 /\ ~w.fifteen
    BY DEF Form
  <2>. QED BY <2>1, Writings
<1>2. Phone!Raw(w) = [plus |-> w.plus, digits |-> d]
  BY DigitsAre DEF Phone!Raw
<1>3. /\ d \in Seq(S) /\ Len(d) = 3 /\ Tail(d) = <<Phone!Area(w.area), Phone!Local(Count(w))>>
      /\ d[1] = Phone!Prefix("54") /\ d[2] = Phone!Area(w.area) /\ d[3] = Phone!Local(Count(w))
  OBVIOUS
<1>. HIDE DEF S
<1>4. /\ d[1][2] = 2 /\ d[2][2] = w.area /\ d[3][2] = Count(w)
      /\ d[1] # Phone!Prefix("0") /\ d[1] # Phone!Prefix("15") /\ d[2] # Phone!Prefix("9")
  BY <1>3, BlocksAre
<1>5. Phone!Length(d) = 2 + w.area + Count(w)
  <2>1. Len(d) \in 2..5 /\ \A i \in 1..Len(d) : d[i][2] \in Nat
    BY <1>1, <1>3, <1>4
  <2>2. Phone!Length(d) = d[1][2] + d[2][2] + d[3][2]
    BY <1>3, <2>1, LengthOf
  <2>. QED BY <1>4, <2>2
<1>6. (Phone!Length(d) = 12 <=> w.slip = 0) /\ Phone!Length(d) # 10
  BY <1>1, <1>5
<1>7. Len(d) >= 2
  BY <1>3
<1>8. CASE w.slip = 0
  <2>1. /\ Phone!NormalizePhoneAR(Phone!Raw(w)) = Phone!Mobile(Tail(d))
        /\ ~Phone!IsValidPhoneAR(Phone!Raw(w))
    BY <1>1, <1>2, <1>3, <1>4, <1>6, <1>7, <1>8, RulesAre
  <2>2. Meant(w, Phone!Mobile(Tail(d)))
    BY <1>1, <1>3, MobileNumber
  <2>. QED BY <2>1, <2>2 DEF Settles
<1>9. CASE w.slip # 0
  BY <1>1, <1>2, <1>3, <1>4, <1>6, <1>7, <1>9, UnknownNumber DEF Settles
<1>. QED BY <1>8, <1>9

\* With the 15 after the area code: too long for any rule.
LEMMA AreaAndFifteen ==
    ASSUME Slips \in 0..1, NEW w \in Phone!Writing, Form(w, <<>>, TRUE),
           NEW d, d = <<Phone!Area(w.area), Phone!Prefix("15"), Phone!Local(Count(w))>>
    PROVE  Settles(w)
<1>. DEFINE S == {d[1], d[2], d[3]}
<1>1. /\ w.area \in 2..4 /\ w.fifteen /\ w.plus \in BOOLEAN /\ Count(w) \in Nat /\ Count(w) + w.area \in 9..11
  <2>1. w.area \in 2..4 /\ w.area # 0 /\ w.fifteen
    BY DEF Form
  <2>. QED BY <2>1, Writings
<1>2. Phone!Raw(w) = [plus |-> w.plus, digits |-> d]
  BY DigitsAre DEF Phone!Raw
<1>3. /\ d \in Seq(S) /\ Len(d) = 3 /\ Len(d) >= 2
      /\ d[1] = Phone!Area(w.area) /\ d[2] = Phone!Prefix("15") /\ d[3] = Phone!Local(Count(w))
  OBVIOUS
<1>. HIDE DEF S
<1>4. /\ d[1][2] = w.area /\ d[2][2] = 2 /\ d[3][2] = Count(w)
      /\ d[1] # Phone!Prefix("0") /\ d[1] # Phone!Prefix("54")
  BY <1>3, BlocksAre
<1>5. Phone!Length(d) = w.area + 2 + Count(w)
  <2>1. Len(d) \in 2..5 /\ \A i \in 1..Len(d) : d[i][2] \in Nat
    BY <1>1, <1>3, <1>4
  <2>2. Phone!Length(d) = d[1][2] + d[2][2] + d[3][2]
    BY <1>3, <2>1, LengthOf
  <2>. QED BY <1>4, <2>2
<1>6. Phone!Length(d) # 10
  BY <1>1, <1>5
<1>. QED BY <1>1, <1>2, <1>3, <1>4, <1>6, UnknownNumber DEF Settles

\* With the trunk's 0 and the 15: two digits too many for a valid number.
LEMMA TrunkAndFifteen ==
    ASSUME Slips \in 0..1, NEW w \in Phone!Writing, Form(w, <<"0">>, TRUE),
           NEW d, d = <<Phone!Prefix("0"), Phone!Area(w.area), Phone!Prefix("15"), Phone!Local(Count(w))>>,
           NEW e, e = <<Phone!Prefix("54"), Phone!Prefix("9"), Phone!Area(w.area), Phone!Prefix("15"), Phone!Local(Count(w))>>
    PROVE  Settles(w)
<1>. DEFINE S == {d[1], d[2], d[3], d[4]}
            R == {e[1], e[2], e[3], e[4], e[5]}
<1>1. /\ w.area \in 2..4 /\ w.fifteen /\ w.plus \in BOOLEAN /\ Count(w) \in Nat /\ Count(w) + w.area \in 9..11
  <2>1. w.area \in 2..4 /\ w.area # 0 /\ w.fifteen
    BY DEF Form
  <2>. QED BY <2>1, Writings
<1>2. Phone!Raw(w) = [plus |-> w.plus, digits |-> d]
  BY DigitsAre DEF Phone!Raw
<1>3. /\ d \in Seq(S) /\ Len(d) >= 2 /\ d[1] = Phone!Prefix("0")
      /\ Tail(d) = <<Phone!Area(w.area), Phone!Prefix("15"), Phone!Local(Count(w))>>
  OBVIOUS
<1>4. /\ e \in Seq(R) /\ Len(e) = 5 /\ Len(e) >= 2 /\ e[1] = Phone!Prefix("54") /\ e[2] = Phone!Prefix("9")
      /\ e[3] = Phone!Area(w.area) /\ e[4] = Phone!Prefix("15") /\ e[5] = Phone!Local(Count(w))
  OBVIOUS
<1>. HIDE DEF S, R
<1>5. /\ Phone!Prefix("0") # Phone!Prefix("54")
      /\ e[1][2] = 2 /\ e[2][2] = 1 /\ e[3][2] = w.area /\ e[4][2] = 2 /\ e[5][2] = Count(w)
      /\ e[1] # Phone!Prefix("0")
  BY <1>4, BlocksAre
<1>6. /\ Phone!NormalizePhoneAR(Phone!Raw(w)) = Phone!Mobile(Tail(d))
      /\ ~Phone!IsValidPhoneAR(Phone!Raw(w))
  <2>1. d \in Seq(S) /\ Len(d) >= 2 /\ d[1] = Phone!Prefix("0") /\ Phone!Prefix("0") # Phone!Prefix("54")
    BY <1>3, <1>5
  <2>2. w.plus \in BOOLEAN
    BY <1>1
  <2>. QED BY <1>2, <2>1, <2>2, RulesAre
<1>7. Phone!Mobile(Tail(d)) = [plus |-> TRUE, digits |-> e]
  <2>1. <<Phone!Prefix("54"), Phone!Prefix("9")>> \o <<Phone!Area(w.area), Phone!Prefix("15"), Phone!Local(Count(w))>> = e
    BY JoinedWithThree
  <2>. QED BY <1>3, <2>1 DEF Phone!Mobile
<1>8. Phone!Length(e) = 5 + w.area + Count(w)
  <2>1. Len(e) \in 2..5 /\ \A i \in 1..Len(e) : e[i][2] \in Nat
    BY <1>1, <1>4, <1>5
  <2>2. Phone!Length(e) = e[1][2] + e[2][2] + e[3][2] + e[4][2] + e[5][2]
    BY <1>4, <2>1, LengthOf
  <2>. QED BY <1>1, <1>5, <2>2
<1>9. Phone!Length(e) # 10 /\ Phone!Length(e) # 13
  BY <1>1, <1>8
<1>10. Meant(w, [plus |-> TRUE, digits |-> e])
  BY <1>1, <1>4, <1>5, <1>9, UnknownNumber
<1>. QED BY <1>6, <1>7, <1>10 DEF Settles

\* The 15 alone, after 54, 9 and 1: a digit too many.
LEMMA FifteenFromAbroad ==
    ASSUME NEW w, w.fifteen, Count(w) = 8,
           NEW e, e = <<Phone!Prefix("54"), Phone!Prefix("9"), Phone!Prefix("1"), Phone!Prefix("15"), Phone!Local(Count(w))>>
    PROVE  Meant(w, [plus |-> TRUE, digits |-> e])
<1>. DEFINE R == {e[1], e[2], e[3], e[4], e[5]}
<1>1. /\ e \in Seq(R) /\ Len(e) = 5 /\ Len(e) >= 2 /\ e[1] = Phone!Prefix("54") /\ e[2] = Phone!Prefix("9")
      /\ e[3] = Phone!Prefix("1") /\ e[4] = Phone!Prefix("15") /\ e[5] = Phone!Local(Count(w))
  OBVIOUS
<1>. HIDE DEF R
<1>2. /\ e[1][2] = 2 /\ e[2][2] = 1 /\ e[3][2] = 1 /\ e[4][2] = 2 /\ e[5][2] = Count(w)
      /\ e[1] # Phone!Prefix("0")
  BY <1>1, BlocksAre
<1>3. Phone!Length(e) = 14
  <2>1. Len(e) \in 2..5 /\ Len(e) = 5
    BY <1>1
  <2>2. \A i \in 1..Len(e) : e[i][2] \in Nat
    BY <1>2, <2>1
  <2>3. Phone!Length(e) = e[1][2] + e[2][2] + e[3][2] + e[4][2] + e[5][2]
    BY <2>1, <2>2, LengthOf
  <2>. QED BY <1>2, <2>3
<1>4. Phone!Length(e) # 10 /\ Phone!Length(e) # 13
  BY <1>3
<1>. QED BY <1>1, <1>2, <1>4, UnknownNumber

\* The 15 alone: the rule for it makes a number with a digit too many.
LEMMA FifteenAlone ==
    ASSUME Slips \in 0..1, NEW w \in Phone!Writing, w.lead = <<>>, w.area = 0, w.fifteen,
           NEW d, d = <<Phone!Prefix("15"), Phone!Local(Count(w))>>,
           NEW e, e = <<Phone!Prefix("54"), Phone!Prefix("9"), Phone!Prefix("1"), Phone!Prefix("15"), Phone!Local(Count(w))>>
    PROVE  Settles(w)
<1>. DEFINE S == {d[1], d[2]}
<1>1. w.plus \in BOOLEAN /\ Count(w) \in 7..9 /\ (Count(w) = 8 <=> w.slip = 0)
  BY Writings
<1>2. Phone!Raw(w) = [plus |-> w.plus, digits |-> d]
  BY DigitsAre DEF Phone!Raw
<1>3. d \in Seq(S) /\ Len(d) = 2 /\ Len(d) >= 2 /\ d[1] = Phone!Prefix("15") /\ d[2] = Phone!Local(Count(w))
  OBVIOUS
<1>. HIDE DEF S
<1>4. Phone!Prefix("15") # Phone!Prefix("0") /\ Phone!Prefix("15") # Phone!Prefix("54")
  BY BlocksAre
<1>5. Phone!Length(d) = 2 + Count(w)
  <2>1. d[1][2] = 2 /\ d[2][2] = Count(w)
    BY <1>3, BlocksAre
  <2>2. Len(d) \in 2..5 /\ Len(d) = 2
    BY <1>3
  <2>3. \A i \in 1..Len(d) : d[i][2] \in Nat
    BY <1>1, <2>1, <2>2
  <2>4. Phone!Length(d) = d[1][2] + d[2][2]
    BY <2>2, <2>3, LengthOf
  <2>. QED BY <2>1, <2>4
<1>6. Len(d) >= 2 /\ d[1] # Phone!Prefix("0") /\ d[1] # Phone!Prefix("54")
  BY <1>3, <1>4
<1>7. CASE w.slip = 0
  <2>1. Phone!Length(d) = 10 /\ Count(w) = 8
    BY <1>1, <1>5, <1>7
  <2>2. /\ Phone!NormalizePhoneAR(Phone!Raw(w)) = Phone!Mobile(<<Phone!Prefix("1")>> \o d)
        /\ ~Phone!IsValidPhoneAR(Phone!Raw(w))
    <3>1. d \in Seq(S) /\ Len(d) >= 2 /\ d[1] = Phone!Prefix("15")
      BY <1>3
    <3>2. d[1] # Phone!Prefix("0") /\ d[1] # Phone!Prefix("54") /\ Phone!Length(d) = 10
      BY <1>6, <2>1
    <3>3. w.plus \in BOOLEAN
      BY <1>1
    <3>4. Phone!NormalizePhoneAR([plus |-> w.plus, digits |-> d]) = Phone!Mobile(<<Phone!Prefix("1")>> \o d)
      BY <3>1, <3>2, <3>3, RulesAre
    <3>5. ~Phone!IsValidPhoneAR([plus |-> w.plus, digits |-> d])
      BY <3>1, <3>2, <3>3, RulesAre
    <3>. QED BY <1>2, <3>4, <3>5
  <2>3. Phone!Mobile(<<Phone!Prefix("1")>> \o d) = [plus |-> TRUE, digits |-> e]
    <3>1. <<Phone!Prefix("1")>> \o d = <<Phone!Prefix("1"), Phone!Prefix("15"), Phone!Local(Count(w))>>
      BY JoinedToTwo
    <3>2. <<Phone!Prefix("54"), Phone!Prefix("9")>> \o <<Phone!Prefix("1"), Phone!Prefix("15"), Phone!Local(Count(w))>> = e
      BY JoinedWithThree
    <3>. QED BY <3>1, <3>2 DEF Phone!Mobile
  <2>4. Meant(w, [plus |-> TRUE, digits |-> e])
    BY <2>1, FifteenFromAbroad
  <2>. QED BY <2>2, <2>3, <2>4 DEF Settles
<1>8. CASE w.slip # 0
  <2>1. Phone!Length(d) # 10
    BY <1>1, <1>5, <1>8
  <2>2. /\ Phone!NormalizePhoneAR(Phone!Raw(w)) = [plus |-> TRUE, digits |-> d]
        /\ ~Phone!IsValidPhoneAR(Phone!Raw(w))
        /\ Meant(w, [plus |-> TRUE, digits |-> d])
    BY <1>1, <1>2, <1>3, <1>6, <1>8, <2>1, UnknownNumber
  <2>. QED BY <2>2 DEF Settles
<1>. QED BY <1>7, <1>8

\* So however a number is written.
LEMMA EachSettles == ASSUME Slips \in 0..1, NEW w \in Phone!Writing PROVE Settles(w)
BY Writings, FromAbroad, Plain, WithTrunk, WithoutNine, AreaAndFifteen, TrunkAndFifteen, FifteenAlone

\* Nothing typed yet.
LEMMA PhoneInit == ASSUME Phone!Init PROVE Phone!IInv
BY DEF Phone!Init, Phone!IInv

\* Typing, and leaving the field any number of times.
LEMMA PhoneStep ==
    ASSUME Slips \in 0..1, Phone!IInv, [Phone!Next]_phoneVars PROVE Phone!IInv'
<1>1. CASE Phone!HandleBlur
  <2>1. Phone!NormalizePhoneAR(Phone!NormalizePhoneAR(Phone!Raw(typed))) = Phone!NormalizePhoneAR(Phone!Raw(typed))
    BY EachSettles DEF Phone!IInv, Settles, Meant
  <2>. QED BY <1>1, <2>1 DEF Phone!HandleBlur, Phone!IInv
<1>2. ASSUME NEW w \in Phone!Writing, Phone!HandleChange(w) PROVE Phone!IInv'
  BY <1>2 DEF Phone!HandleChange, Phone!IInv
<1>3. CASE UNCHANGED phoneVars
  BY <1>3 DEF phoneVars, Phone!IInv
<1>. QED BY <1>1, <1>2, <1>3 DEF Phone!Next, phoneVars, Phone!vars

\* A valid number is the one that was meant, one with its area code is understood, and a
\* number the field has normalised stays.
LEMMA PhoneMeant ==
    ASSUME Slips \in 0..1, Phone!IInv
    PROVE  Phone!ValidIsMeant /\ Phone!Understood /\ Phone!BlurSettles
<1>1. Settles(typed)
  BY EachSettles DEF Phone!IInv
<1>2. Phone!ValidIsMeant
  BY <1>1 DEF Phone!IInv, Phone!ValidIsMeant, Phone!Mistyped, Settles, Meant
<1>3. Phone!Understood
  BY <1>1 DEF Phone!IInv, Phone!Understood, Phone!Mistyped, Settles, Meant
<1>4. Phone!BlurSettles
  BY <1>1 DEF Phone!IInv, Phone!BlurSettles, Settles, Meant
<1>. QED BY <1>2, <1>3, <1>4

-----------------------------------------------------------------------------
(***************************************************************************)
(* The table of subscribers.                                                *)
(***************************************************************************)
\* The table's module counts as this one does.
LEMMA SameCount == ASSUME NEW S PROVE Table!Cardinality(S) = Cardinality(S)
BY DEF Table!Cardinality, Cardinality

\* And takes the same sets for finite.
LEMMA SameFiniteSets == ASSUME NEW S PROVE Table!IsFiniteSet(S) <=> IsFiniteSet(S)
BY DEF Table!IsFiniteSet, IsFiniteSet

\* Keys that tell the members of a finite set apart put each of them in one place.
LEMMA OrderIs ==
    ASSUME NEW S, IsFiniteSet(S), NEW key,
           \A s \in S : key[s] \in Int, \A s, t \in S : key[s] = key[t] => s = t
    PROVE  /\ Cardinality(S) \in Nat
           /\ Table!InOrder(S, key) \in [1..Cardinality(S) -> S]
           /\ \A m, n \in 1..Cardinality(S) : Table!InOrder(S, key)[m] = Table!InOrder(S, key)[n] => m = n
<1>. DEFINE size == Cardinality(S)
            before(s) == {t \in S : key[t] < key[s]}
            rank == [s \in S |-> Cardinality(before(s))]
            f == Table!InOrder(S, key)
<1>1. size \in Nat
  BY FS_CardinalityType
<1>2. ASSUME NEW s \in S PROVE rank[s] \in 0..size - 1 /\ IsFiniteSet(before(s))
  <2>1. IsFiniteSet(S \ {s}) /\ Cardinality(S \ {s}) = size - 1
    BY FS_RemoveElement
  <2>2. before(s) \in SUBSET (S \ {s})
    OBVIOUS
  <2>. HIDE DEF before
  <2>3. IsFiniteSet(before(s)) /\ Cardinality(before(s)) <= size - 1
    BY <2>1, <2>2, FS_Subset
  <2>4. Cardinality(before(s)) \in Nat
    BY <2>3, FS_CardinalityType
  <2>. QED BY <1>1, <2>3, <2>4
<1>3. ASSUME NEW s \in S, NEW t \in S, key[s] < key[t] PROVE rank[s] < rank[t]
  <2>1. before(s) \in SUBSET before(t) /\ s \in before(t) /\ s \notin before(s)
    BY <1>3
  <2>2. IsFiniteSet(before(s)) /\ IsFiniteSet(before(t)) /\ rank[s] \in Nat /\ rank[t] \in Nat
    BY <1>2
  <2>. HIDE DEF before
  <2>3. Cardinality(before(s)) <= Cardinality(before(t)) /\ Cardinality(before(s)) # Cardinality(before(t))
    BY <2>1, <2>2, FS_Subset
  <2>. QED BY <2>2, <2>3
<1>4. \A s, t \in S : rank[s] = rank[t] => s = t
  <2>. SUFFICES ASSUME NEW s \in S, NEW t \in S, s # t PROVE rank[s] # rank[t]
    OBVIOUS
  <2>1. rank[s] \in Nat /\ rank[t] \in Nat
    BY <1>2
  <2>2. key[s] < key[t] \/ key[t] < key[s]
    OBVIOUS
  <2>. HIDE DEF rank
  <2>. QED BY <1>3, <2>1, <2>2
<1>5. f = [n \in 1..size |-> CHOOSE s \in S : Cardinality(before(s)) = n - 1]
  BY Zenon DEF Table!InOrder, Table!Cardinality, Cardinality
<1>. HIDE DEF before, f
<1>6. ASSUME NEW n \in 1..size PROVE \E s \in S : Cardinality(before(s)) = n - 1
  <2>1. rank \in [S -> 0..size - 1]
    BY <1>2
  <2>2. rank \in Injection(S, 0..size - 1)
    BY <1>4, <2>1 DEF Injection, IsInjective
  <2>3. IsFiniteSet(0..size - 1) /\ Cardinality(0..size - 1) = size
    <3>1. 0 \in Int /\ size - 1 \in Int /\ (IF 0 > size - 1 THEN 0 ELSE (size - 1) - 0 + 1) = size
      BY <1>1
    <3>. QED BY <3>1, FS_Interval
  <2>4. rank \in Surjection(S, 0..size - 1)
    BY <2>2, <2>3, FS_Injection
  <2>5. n - 1 \in 0..size - 1
    BY <1>1
  <2>6. \E s \in S : rank[s] = n - 1
    BY <2>4, <2>5 DEF Surjection
  <2>. QED BY <2>6
<1>7. \A n \in 1..size : f[n] \in S /\ Cardinality(before(f[n])) = n - 1
  BY <1>5, <1>6
<1>8. f \in [1..size -> S]
  <2>1. f = [n \in 1..size |-> f[n]]
    BY <1>5
  <2>. QED BY <1>7, <2>1
<1>9. \A m, n \in 1..size : f[m] = f[n] => m = n
  BY <1>1, <1>7
<1>. HIDE DEF size
<1>. QED BY <1>1, <1>8, <1>9 DEF f, size

\* The data holds each subscriber once.
LEMMA DataAre ==
    ASSUME Table!TableAssumption, Table!IInv
    PROVE  /\ IsFiniteSet(DOMAIN subscribers) /\ DOMAIN subscribers \subseteq Nat
           /\ \A i \in DOMAIN subscribers : subscribers[i] \in 1..RowCount
           /\ \A i, j \in DOMAIN subscribers : subscribers[i] = subscribers[j] => i = j
<1>1. PICK S \in SUBSET (1..RowCount) : subscribers \in Table!SetToSeqs(S)
  BY DEF Table!IInv, Table!Data
<1>2. IsFiniteSet(S) /\ Cardinality(S) \in Nat
  <2>1. IsFiniteSet(1..RowCount)
    BY SameFiniteSets DEF Table!TableAssumption
  <2>2. IsFiniteSet(S)
    BY <2>1, FS_Subset
  <2>. QED BY <2>2, FS_CardinalityType
<1>3. /\ subscribers \in [1..Cardinality(S) -> S]
      /\ \A i, j \in 1..Cardinality(S) : i # j => subscribers[i] # subscribers[j]
  BY <1>1, SameCount DEF Table!SetToSeqs
<1>4. IsFiniteSet(1..Cardinality(S))
  <2>1. 1 \in Int /\ Cardinality(S) \in Int
    BY <1>2
  <2>. QED BY <2>1, FS_Interval
<1>5. DOMAIN subscribers = 1..Cardinality(S)
  BY <1>3
<1>6. \A i \in 1..Cardinality(S) : subscribers[i] \in 1..RowCount
  BY <1>3
<1>7. 1..Cardinality(S) \subseteq Nat
  BY <1>2
<1>. QED BY <1>3, <1>4, <1>5, <1>6, <1>7

\* And so do the rows that the two selects leave.
LEMMA RowsAre ==
    ASSUME Table!TableAssumption, Table!IInv
    PROVE  \E n \in Nat : /\ Table!RowIds = 1..n
                          /\ Table!FilteredData \in [1..n -> 1..RowCount]
                          /\ \A i, j \in 1..n : Table!FilteredData[i] = Table!FilteredData[j] => i = j
<1>. DEFINE Matches(s) == /\ statusFilter \in {"all", statusOf[s]}
                          /\ planFilter \in {"all", [r \in 1..RowCount |-> IF r = 1 THEN "basic" ELSE "full"][s]}
            places == {i \in DOMAIN subscribers : Matches(subscribers[i])}
            key == [i \in places |-> i]
            place == Table!InOrder(places, key)
            n == Cardinality(places)
<1>1. Table!FilteredData = [i \in DOMAIN place |-> subscribers[place[i]]]
  BY Zenon DEF Table!FilteredData
<1>2. places \in SUBSET DOMAIN subscribers
  OBVIOUS
<1>. HIDE DEF places, place
<1>3. /\ IsFiniteSet(places) /\ \A i \in places : key[i] \in Int
      /\ \A i, j \in places : key[i] = key[j] => i = j
  BY <1>2, DataAre, FS_Subset
<1>. HIDE DEF key
<1>4. n \in Nat /\ place \in [1..n -> places] /\ \A i, j \in 1..n : place[i] = place[j] => i = j
  BY <1>3, OrderIs DEF place
<1>. HIDE DEF n
<1>5. /\ Table!RowIds = 1..n /\ Table!FilteredData \in [1..n -> 1..RowCount]
      /\ \A i, j \in 1..n : Table!FilteredData[i] = Table!FilteredData[j] => i = j
  <2>1. Table!FilteredData = [i \in 1..n |-> subscribers[place[i]]]
    BY <1>1, <1>4
  <2>2. \A i \in 1..n : place[i] \in DOMAIN subscribers
    BY <1>2, <1>4
  <2>. QED BY <1>4, <2>1, <2>2, DataAre DEF Table!RowIds
<1>. QED BY <1>4, <1>5

\* The rows that are shown are rows.
LEMMA DisplayedAre ==
    ASSUME Table!TableAssumption, Table!IInv
    PROVE  /\ \A i \in DOMAIN Table!Displayed : Table!Displayed[i] \in Table!RowIds
           /\ Table!PageCount \in Nat /\ Table!Page \subseteq Table!RowIds
<1>. DEFINE rows == Table!FilteredData
            hits == {i \in DOMAIN rows : rows[i] \in globalFilter}
            key == [i \in hits |-> CASE sorting = "none" -> i
                                     [] sorting = "asc"  -> rows[i]
                                     [] sorting = "desc" -> 0 - rows[i]]
            n == Cardinality(hits)
<1>1. Table!Displayed = Table!InOrder(hits, key)
  BY Zenon DEF Table!Displayed
<1>2. PICK k \in Nat : /\ Table!RowIds = 1..k /\ rows \in [1..k -> 1..RowCount]
                       /\ \A i, j \in 1..k : rows[i] = rows[j] => i = j
  BY RowsAre
<1>. HIDE DEF rows
<1>3. hits \in SUBSET (1..k) /\ IsFiniteSet(1..k)
  BY <1>2, FS_Interval
<1>4. IsFiniteSet(hits)
  BY <1>3, FS_Subset
<1>5. /\ \A i \in hits : key[i] \in Int
      /\ \A i, j \in hits : key[i] = key[j] => i = j
  <2>1. \A i \in hits : rows[i] \in Int /\ i \in Int
    BY <1>2, <1>3 DEF Table!TableAssumption
  <2>2. sorting \in {"none", "asc", "desc"}
    BY DEF Table!IInv
  <2>3. \A i, j \in hits : rows[i] = rows[j] => i = j
    BY <1>2, <1>3
  <2>. HIDE DEF hits
  <2>4. /\ sorting = "none" => \A i \in hits : key[i] = i
        /\ sorting = "asc" => \A i \in hits : key[i] = rows[i]
        /\ sorting = "desc" => \A i \in hits : key[i] = 0 - rows[i]
    OBVIOUS
  <2>. HIDE DEF key
  <2>. QED BY <2>1, <2>2, <2>3, <2>4
<1>. HIDE DEF key, hits
<1>6. n \in Nat /\ Table!Displayed \in [1..n -> hits]
  BY <1>1, <1>4, <1>5, OrderIs
<1>7. \A i \in DOMAIN Table!Displayed : Table!Displayed[i] \in Table!RowIds
  BY <1>2, <1>3, <1>6
<1>8. Table!PageCount \in Nat
  <2>1. Len(Table!Displayed) = n
    BY <1>6
  <2>2. PageSize \in Nat \ {0}
    BY DEF Table!TableAssumption
  <2>3. n + PageSize - 1 \in Nat
    BY <1>6, <2>2
  <2>4. \A m \in Nat, p \in Nat \ {0} : m \div p \in Nat
    OBVIOUS
  <2>. HIDE DEF n
  <2>. QED BY <2>1, <2>2, <2>3, <2>4 DEF Table!PageCount
<1>. QED BY <1>7, <1>8 DEF Table!Page

\* Who is ticked and whose row is open, by the rows of the two selects.
LEMMA ChosenAre ==
    /\ Table!SelectedSubscribers = {Table!FilteredData[i] : i \in {j \in Table!RowIds : j \in rowSelection}}
    /\ Table!ExpandedSubscribers = {Table!FilteredData[i] : i \in {j \in Table!RowIds : j \in expanded}}
    /\ Table!SelectedSubscribers' = {Table!FilteredData'[i] : i \in {j \in Table!RowIds' : j \in rowSelection'}}
    /\ Table!ExpandedSubscribers' = {Table!FilteredData'[i] : i \in {j \in Table!RowIds' : j \in expanded'}}
BY DEF Table!SelectedSubscribers, Table!ExpandedSubscribers, Table!RowId, Table!RowIds

\* The number of ticks is that of the ticked, who are each in one row.
LEMMA TicksAreCounted ==
    ASSUME Table!TableAssumption, Table!IInv
    PROVE  Table!BulkActions.selectedCount = Table!Cardinality(rowSelection)
<1>1. PICK k \in Nat : /\ Table!RowIds = 1..k /\ Table!FilteredData \in [1..k -> 1..RowCount]
                       /\ \A i, j \in 1..k : Table!FilteredData[i] = Table!FilteredData[j] => i = j
  BY RowsAre
<1>. DEFINE rows == Table!FilteredData
            image == {rows[i] : i \in rowSelection}
            f == [i \in rowSelection |-> rows[i]]
<1>. HIDE DEF rows
<1>2. rowSelection \in SUBSET (1..k)
  BY <1>1 DEF Table!IInv
<1>3. Table!SelectedSubscribers = image
  BY <1>1, <1>2, ChosenAre DEF rows
<1>4. IsFiniteSet(rowSelection)
  <2>1. 1 \in Int /\ k \in Int
    OBVIOUS
  <2>2. IsFiniteSet(1..k)
    BY <2>1, FS_Interval
  <2>. QED BY <1>2, <2>2, FS_Subset
<1>5. f \in Bijection(rowSelection, image)
  <2>1. \A i, j \in rowSelection : rows[i] = rows[j] => i = j
    BY <1>1, <1>2 DEF rows
  <2>. QED BY <2>1 DEF Bijection, Injection, IsInjective, Surjection
<1>6. ExistsBijection(rowSelection, image)
  BY <1>5, Zenon DEF ExistsBijection
<1>7. Cardinality(image) = Cardinality(rowSelection)
  BY <1>4, <1>6, FS_Bijection
<1>8. Table!BulkActions.selectedCount = Table!Cardinality(Table!SelectedSubscribers)
  BY DEF Table!BulkActions
<1>. QED BY <1>3, <1>7, <1>8, SameCount

\* Nothing is loaded yet.
LEMMA TableInit == ASSUME Table!TableAssumption, Table!Init PROVE Table!IInv
<1>1. subscribers \in Table!Data
  <2>1. Cardinality({}) = 0 /\ {} \in SUBSET (1..RowCount)
    BY FS_EmptySet
  <2>2. <<>> \in Table!SetToSeqs({})
    BY <2>1, SameCount DEF Table!SetToSeqs
  <2>. QED BY <2>1, <2>2 DEF Table!Init, Table!Data
<1>. QED BY <1>1, ChosenAre DEF Table!Init, Table!IInv, Table!PageExists

\* A step that brings the first page, and leaves the rows or is taken with none chosen.
LEMMA FirstPage ==
    ASSUME Table!IInv, pageIndex' = 0, sorting' \in {"none", "asc", "desc"},
           subscribers' \in Table!Data,
           UNCHANGED <<rowSelection, ticked, expanded, opened>>,
           (rowSelection = {} /\ expanded = {}) \/ UNCHANGED <<subscribers, statusOf, statusFilter, planFilter>>
    PROVE  Table!IInv'
<1>1. CASE rowSelection = {} /\ expanded = {}
  <2>1. ticked = {} /\ opened = {}
    BY <1>1, ChosenAre DEF Table!IInv
  <2>. QED BY <1>1, <2>1, ChosenAre DEF Table!IInv, Table!PageExists
<1>2. CASE UNCHANGED <<subscribers, statusOf, statusFilter, planFilter>>
  <2>1. Table!FilteredData' = Table!FilteredData
    BY <1>2 DEF Table!FilteredData
  <2>2. Table!RowIds' = Table!RowIds
    BY <2>1 DEF Table!RowIds
  <2>. QED BY <2>1, <2>2, ChosenAre DEF Table!IInv, Table!PageExists
<1>. QED BY <1>1, <1>2

\* A step that leaves the rows and what is shown of them, ticks other rows and opens others.
LEMMA OtherChoice ==
    ASSUME Table!TableAssumption, Table!IInv,
           UNCHANGED <<subscribers, statusOf, statusFilter, planFilter, globalFilter, sorting>>,
           pageIndex' \in Nat, pageIndex' = pageIndex \/ pageIndex' < Table!PageCount,
           NEW I \in SUBSET Table!RowIds, NEW J \in SUBSET Table!RowIds,
           \/ rowSelection' = rowSelection \cup I /\ ticked' = ticked \cup {Table!FilteredData[i] : i \in I}
           \/ rowSelection' = rowSelection \ I /\ ticked' = ticked \ {Table!FilteredData[i] : i \in I},
           \/ expanded' = expanded \cup J /\ opened' = opened \cup {Table!FilteredData[i] : i \in J}
           \/ expanded' = expanded \ J /\ opened' = opened \ {Table!FilteredData[i] : i \in J}
    PROVE  Table!IInv'
<1>1. Table!FilteredData' = Table!FilteredData
  BY DEF Table!FilteredData
<1>2. Table!RowIds' = Table!RowIds
  BY <1>1 DEF Table!RowIds
<1>3. Table!Displayed' = Table!Displayed
  BY <1>1 DEF Table!Displayed
<1>4. Table!PageCount' = Table!PageCount
  BY <1>3 DEF Table!PageCount
<1>. DEFINE rows == Table!FilteredData
            ids == Table!RowIds
<1>5. /\ \A i, j \in ids : rows[i] = rows[j] => i = j
      /\ rowSelection \subseteq ids /\ ticked = {rows[i] : i \in rowSelection}
      /\ expanded \subseteq ids /\ opened = {rows[i] : i \in expanded}
  <2>1. \A i, j \in ids : rows[i] = rows[j] => i = j
    BY RowsAre
  <2>2. /\ {rows[i] : i \in {j \in ids : j \in rowSelection}} = ticked /\ rowSelection \subseteq ids
        /\ {rows[i] : i \in {j \in ids : j \in expanded}} = opened /\ expanded \subseteq ids
    BY ChosenAre DEF Table!IInv
  <2>. HIDE DEF rows, ids
  <2>. QED BY <2>1, <2>2
<1>6. /\ Table!SelectedSubscribers' = {rows[i] : i \in {j \in ids : j \in rowSelection'}}
      /\ Table!ExpandedSubscribers' = {rows[i] : i \in {j \in ids : j \in expanded'}}
  BY <1>1, <1>2, ChosenAre
<1>. HIDE DEF rows, ids
<1>7. rowSelection' \subseteq ids /\ Table!SelectedSubscribers' = ticked'
  <2>1. rowSelection' \subseteq ids
    BY <1>5 DEF ids
  <2>2. Table!SelectedSubscribers' = {rows[i] : i \in rowSelection'}
    BY <1>6, <2>1
  <2>3. ticked' = {rows[i] : i \in rowSelection'}
    BY <1>5 DEF ids, rows
  <2>. QED BY <2>1, <2>2, <2>3
<1>8. expanded' \subseteq ids /\ Table!ExpandedSubscribers' = opened'
  <2>1. expanded' \subseteq ids
    BY <1>5 DEF ids
  <2>2. Table!ExpandedSubscribers' = {rows[i] : i \in expanded'}
    BY <1>6, <2>1
  <2>3. opened' = {rows[i] : i \in expanded'}
    BY <1>5 DEF ids, rows
  <2>. QED BY <2>1, <2>2, <2>3
<1>9. Table!PageExists'
  BY <1>4 DEF Table!IInv, Table!PageExists
<1>. QED BY <1>2, <1>7, <1>8, <1>9 DEF Table!IInv, ids

\* Every step of the table.
LEMMA TableStep ==
    ASSUME Table!TableAssumption, Table!IInv, [Table!Next]_tableVars PROVE Table!IInv'
<1>. USE DEF Table!dataVars, Table!filterVars, Table!viewVars, Table!tickVars, Table!openVars
<1>0. Table!Page \subseteq Table!RowIds /\ {} \in SUBSET Table!RowIds /\ Table!PageCount \in Nat /\ pageIndex \in Nat
      /\ \A X : X \cup {} = X
      /\ {Table!FilteredData[i] : i \in {}} = {}
  BY DisplayedAre DEF Table!IInv
<1>1. ASSUME NEW rows \in Table!Data,
             NEW status \in [1..RowCount -> Table!Status], Table!MayMove, Table!Refetch(rows, status)
      PROVE  Table!IInv'
  BY <1>1, FirstPage DEF Table!Refetch, Table!MayMove, Table!ResetPage, Table!IInv
<1>2. ASSUME NEW status, NEW plan, Table!MayMove, Table!SetFilters(status, plan) PROVE Table!IInv'
  BY <1>2, FirstPage DEF Table!SetFilters, Table!MayMove, Table!ResetPage, Table!IInv
<1>3. ASSUME NEW hits, Table!Search(hits) PROVE Table!IInv'
  BY <1>3, FirstPage DEF Table!Search, Table!ResetPage, Table!IInv
<1>4. CASE Table!ToggleSorting
  BY <1>4, FirstPage DEF Table!ToggleSorting, Table!ResetPage, Table!IInv
<1>5. ASSUME NEW i, Table!TurnPage(i) PROVE Table!IInv'
  <2>1. i \in Nat /\ pageIndex' = i /\ i < Table!PageCount
    BY <1>0, <1>5 DEF Table!TurnPage
  <2>. QED BY <1>0, <1>5, <2>1, OtherChoice DEF Table!TurnPage
<1>6. ASSUME NEW i \in Table!Page, Table!ToggleSelected(i) PROVE Table!IInv'
  <2>. DEFINE I == {i}
  <2>1. /\ \/ rowSelection' = rowSelection \cup I /\ ticked' = ticked \cup {Table!FilteredData[j] : j \in I}
           \/ rowSelection' = rowSelection \ I /\ ticked' = ticked \ {Table!FilteredData[j] : j \in I}
        /\ UNCHANGED <<subscribers, statusOf, statusFilter, planFilter, globalFilter, sorting, pageIndex, expanded, opened>>
    BY <1>6 DEF Table!ToggleSelected, Table!RowId
  <2>2. I \in SUBSET Table!RowIds
    BY <1>0
  <2>. HIDE DEF I
  <2>. QED BY <1>0, <2>1, <2>2, OtherChoice
<1>7. ASSUME NEW i \in Table!Page, Table!ToggleExpanded(i) PROVE Table!IInv'
  <2>. DEFINE J == {i}
  <2>1. /\ \/ expanded' = expanded \cup J /\ opened' = opened \cup {Table!FilteredData[j] : j \in J}
           \/ expanded' = expanded \ J /\ opened' = opened \ {Table!FilteredData[j] : j \in J}
        /\ UNCHANGED <<subscribers, statusOf, statusFilter, planFilter, globalFilter, sorting, pageIndex, rowSelection, ticked>>
    BY <1>7 DEF Table!ToggleExpanded, Table!RowId
  <2>2. J \in SUBSET Table!RowIds
    BY <1>0
  <2>. HIDE DEF J
  <2>. QED BY <1>0, <2>1, <2>2, OtherChoice
<1>8. CASE Table!ToggleAllPageRowsSelected
  <2>. DEFINE I == Table!Page
  <2>1. /\ \/ rowSelection' = rowSelection \cup I /\ ticked' = ticked \cup {Table!FilteredData[j] : j \in I}
           \/ rowSelection' = rowSelection \ I /\ ticked' = ticked \ {Table!FilteredData[j] : j \in I}
        /\ UNCHANGED <<subscribers, statusOf, statusFilter, planFilter, globalFilter, sorting, pageIndex, expanded, opened>>
    BY <1>8 DEF Table!ToggleAllPageRowsSelected, Table!RowId
  <2>2. I \in SUBSET Table!RowIds
    BY <1>0
  <2>. HIDE DEF I
  <2>. QED BY <1>0, <2>1, <2>2, OtherChoice
<1>9. CASE UNCHANGED tableVars
  BY <1>0, <1>9, OtherChoice DEF tableVars
<1>. QED BY <1>1, <1>2, <1>3, <1>4, <1>5, <1>6, <1>7, <1>8, <1>9 DEF Table!Next

\* Ticks and open rows are those the owner chose, and the page is there.
LEMMA TableHolds ==
    ASSUME Table!TableAssumption, Table!IInv PROVE Table!KeysFollowRows /\ Table!PageExists
BY TicksAreCounted DEF Table!IInv, Table!KeysFollowRows
=============================================================================
