------------------------------ MODULE Documents ------------------------------
(***************************************************************************)
(* The check digits of CPF and CNPJ, app/domain/value_objects.  A document *)
(* is the sequence of the digits that _normalize leaves.                   *)
(***************************************************************************)
EXTENDS Integers, SequencesExt

Repeated(digits) == \A i \in DOMAIN digits : digits[i] = digits[1]

\* The sum of the first digits, each times its weight.
Weighted(digits, weights) ==
    LET term(i) == IF i \in DOMAIN weights THEN digits[i] * weights[i] ELSE 0
    IN  term(1) + term(2) + term(3) + term(4) + term(5) + term(6) + term(7)
        + term(8) + term(9) + term(10) + term(11) + term(12) + term(13)

(************************************ CPF **********************************)

CPFWeights(n) == [i \in 1 .. n |-> n + 2 - i]

\* digit_1 is computed from 9 digits, digit_2 from 10.
CPFDigit(digits, n) ==
    LET r == (Weighted(digits, CPFWeights(n)) * 10) % 11 IN IF r = 10 THEN 0 ELSE r

\* Mutant: the second digit is not looked at.
IsHalfCPF(digits) ==
    /\ Len(digits) = 11
    /\ ~Repeated(digits)
    /\ digits[10] = CPFDigit(digits, 9)

IsCPF(digits) ==
    /\ Len(digits) = 11
    /\ ~Repeated(digits)
    /\ \A n \in 9 .. 10 : digits[n + 1] = CPFDigit(digits, n)

(************************************ CNPJ *********************************)

\* weights_1 for n = 12, weights_2 for n = 13: 2 to 9 from the right, and again.
CNPJWeights(n) == [i \in 1 .. n |-> 2 + ((n - i) % 8)]

CNPJDigit(digits, n) ==
    LET remainder == Weighted(digits, CNPJWeights(n)) % 11
    IN  IF remainder < 2 THEN 0 ELSE 11 - remainder

IsCNPJ(digits) ==
    /\ Len(digits) = 14
    /\ ~Repeated(digits)
    /\ \A n \in 12 .. 13 : digits[n + 1] = CNPJDigit(digits, n)

IsDocument(digits) == IsCPF(digits) \/ IsCNPJ(digits)

(********************************** Slips **********************************)

\* What is meant, one digit wrong, one missing, two neighbours swapped.
OneWrong(digits) == {[digits EXCEPT ![i] = v] : i \in DOMAIN digits, v \in 0 .. 9}
OneMissing(digits) == {RemoveAt(digits, i) : i \in DOMAIN digits}
TwoSwapped(digits) ==
    {[digits EXCEPT ![i] = digits[i + 1], ![i + 1] = digits[i]] : i \in 1 .. Len(digits) - 1}
Slips(digits) == {digits} \cup OneWrong(digits) \cup OneMissing(digits) \cup TwoSwapped(digits)

\* The digit 0 stands for two remainders, and the first digit of a CPF has the weight 11
\* in the second check digit, which cannot see it.
EndsInZeros(digits) == digits[Len(digits)] = 0 /\ digits[Len(digits) - 1] = 0
SlipsThrough(digits, meant) ==
    \/ EndsInZeros(digits)
    \/ digits[Len(digits)] = 0 /\ EndsInZeros(meant)
    \/ Len(digits) = 11 /\ digits[10] = 0 /\ digits[1] # meant[1]
=============================================================================
