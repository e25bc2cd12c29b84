-------------------------------- MODULE TaxIds --------------------------------
(* The check digits of tax identifiers                                         *)
(* (src/shared/tax-validation/tax-id.validator.ts). An identifier is the       *)
(* sequence of its digits; a letter is its index in the alphabet of its place. *)
(* Punctuation is removed before. nif_ao and rfc have a shape and no check     *)
(* digit, other types are not validated: "unknown" is { valid: null }.         *)
EXTENDS Sequences, Sums

Digits == 0..9
AllDigits(s, n) == Len(s) = n /\ \A i \in 1..n : s[i] \in Digits
Same(s) == \A i \in DOMAIN s : s[i] = s[1]
Weighted(s, weight) == SumOver([i \in DOMAIN weight |-> s[i] * weight[i]], DOMAIN weight)

\* Modulo 11, where 10 and 11 become 0.
Modulo11(sum) == IF sum % 11 < 2 THEN 0 ELSE 11 - (sum % 11)

W1 == <<5, 4, 3, 2, 9, 8, 7, 6, 5, 4, 3, 2>>
W2 == <<6>> \o W1
Cnpj(s) ==
    /\ AllDigits(s, 14) /\ ~Same(s)
    /\ LET first == Modulo11(Weighted(s, W1))
       IN  s[13] = first /\ s[14] = Modulo11(Weighted([s EXCEPT ![13] = first], W2))

CpfDigit(s, n) == LET rest == (Weighted(s, [i \in 1..n |-> n + 2 - i]) * 10) % 11 IN IF rest = 10 THEN 0 ELSE rest
Cpf(s) == AllDigits(s, 11) /\ ~Same(s) /\ s[10] = CpfDigit(s, 9) /\ s[11] = CpfDigit(s, 10)

NifSum(s) == Weighted(s, [i \in 1..8 |-> 10 - i])
Nif(s) == AllDigits(s, 9) /\ s[1] \notin {0, 4} /\ s[9] = Modulo11(NifSum(s))

\* X, Y, Z are 0, 1, 2; the letter is one of 23.
Tens == <<10000000, 1000000, 100000, 10000, 1000, 100, 10, 1>>
Number(s) == Weighted(s, Tens)
Nie(s) == Len(s) = 9 /\ s[1] \in 0..2 /\ (\A i \in 2..8 : s[i] \in Digits) /\ s[9] = Number(s) % 23

\* The first place is the kind of check the letter of the organization asks for, the last a digit,
\* or 10 and more: a letter.
Kinds == {"letter", "digit", "either"}
CifDoubled(d) == IF 2 * d > 9 THEN ((2 * d) \div 10) + ((2 * d) % 10) ELSE 2 * d
CifTerms(s) == [i \in 2..8 |-> IF i % 2 = 0 THEN CifDoubled(s[i]) ELSE s[i]]
CifDigit(s) ==
    LET total == SumOver(CifTerms(s), 2..8) % 10
    IN  IF total = 0 THEN 0 ELSE 10 - total
Cif(s) ==
    /\ Len(s) = 9 /\ s[1] \in Kinds /\ (\A i \in 2..8 : s[i] \in Digits) /\ s[9] \in 0..19
    /\ \/ s[1] # "letter" /\ s[9] = CifDigit(s)
       \/ s[1] # "digit" /\ s[9] = 10 + CifDigit(s)

\* A company: ten digits; a person: nine digits, two letters, three digits.
NifAo(s) ==
    \/ AllDigits(s, 10)
    \/ Len(s) = 14 /\ (\A i \in (1..9) \cup (12..14) : s[i] \in Digits) /\ \A i \in 10..11 : s[i] \in 0..25

ValidTaxId(type, s) ==
    CASE type = "cnpj" -> Cnpj(s)
      [] type = "cpf" -> Cpf(s)
      [] type \in {"nif", "nipc"} -> Nif(s)
      [] type = "nif_ao" -> NifAo(s)
      [] type = "nie" -> Nie(s)
      [] type = "cif" -> Cif(s)

Checked == {"cnpj", "cpf", "nif", "nie", "cif"}
Validate(type, s) == IF type \notin Checked \cup {"nipc", "nif_ao"} THEN "unknown"
                     ELSE IF ValidTaxId(type, s) THEN "valid" ELSE "invalid"

--------------------------------------------------------------------------------
\* What a clerk's slip may make of an identifier: another digit, or two neighbours exchanged,
\* before the check digits.
CheckPlace == [cnpj |-> 13, cpf |-> 10, nif |-> 9]
Body(type) == CASE type = "cnpj" -> 1..12 [] type = "cpf" -> 1..9 [] type = "nif" -> 1..8 [] OTHER -> 2..8
Mistyped(s, i, d) == [s EXCEPT ![i] = d]
Exchanged(s, i) == [s EXCEPT ![i] = s[i + 1], ![i + 1] = s[i]]
Slips(type, s) ==
    {Mistyped(s, i, d) : i \in Body(type), d \in Digits}
    \cup {Exchanged(s, i) : i \in {j \in Body(type) : j + 1 \in Body(type)}}

\* The identifier with these digits and the check digits that belong to them.
Completed(type, digits) ==
    LET first == CASE type = "cnpj" -> Modulo11(Weighted(digits, W1))
                   [] type = "cpf" -> CpfDigit(digits, 9)
                   [] type = "nif" -> Modulo11(NifSum(digits))
                   [] type = "nie" -> Number(digits) % 23
                   [] type = "cif" -> IF digits[1] = "letter" THEN 10 + CifDigit(digits) ELSE CifDigit(digits)
        longer == Append(digits, first)
    IN  CASE type = "cnpj" -> Append(longer, Modulo11(Weighted(longer, W2)))
          [] type = "cpf" -> Append(longer, CpfDigit(longer, 10))
          [] OTHER -> longer

\* Where a check digit stands for two remainders, or weighs 0 and 9 alike, a slip may stay unseen.
Blind(type, s, slip) ==
    \/ type \in {"cnpj", "cpf", "nif"} /\ s[CheckPlace[type]] = 0
    \/ type = "cif" /\ \E i \in 2..7 : {s[i], s[i + 1]} = {0, 9} /\ slip[i] = s[i + 1] /\ slip[i + 1] = s[i]

(* The check digits of a completed identifier are accepted, and a wrong digit *)
(* or an exchange of neighbours is refused, except where the scheme itself is *)
(* blind: where 10 and 11 both become 0, and 09 for 90 in a cif               *)
(* (tax-id.validator.ts:60-177).                                              *)
SlipIsSeen(type, digits) ==
    LET s == Completed(type, digits)
    IN  (type \in {"cnpj", "cpf"} /\ Same(s)) \/ (type = "nif" /\ s[1] \in {0, 4}) \/
        /\ Validate(type, s) = "valid"
        /\ \A slip \in Slips(type, s) \ {s} : Validate(type, slip) = "valid" => Blind(type, s, slip)
================================================================================
