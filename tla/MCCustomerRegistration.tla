----------------------- MODULE MCCustomerRegistration -----------------------
(***************************************************************************)
(* A company with an account in two systems, and two people with its       *)
(* e-mail: one whose CPF ends in 00, after a 1, and one whose CPF has a    *)
(* single 0 for a check digit.                                             *)
(***************************************************************************)
EXTENDS CustomerRegistration

CONSTANTS a1, a2, a3, a4

Company == <<1, 1, 2, 2, 2, 3, 3, 3, 0, 0, 0, 1, 8, 1>>
PersonWithZeros == <<5, 5, 4, 5, 8, 8, 0, 8, 1, 0, 0>>
PersonWithZero == <<7, 0, 4, 9, 9, 9, 6, 2, 2, 0, 6>>

MCDocumentOf ==
    (a1 :> Company) @@ (a2 :> Company) @@ (a3 :> PersonWithZeros) @@ (a4 :> PersonWithZero)
MCEmailOf == [a \in Account |-> "family"]
MCTyped == [a \in Account |-> IF a = a1 THEN {Company} ELSE Slips(MCDocumentOf[a])]

Symmetric == Permutations(Call) \cup Permutations(Customer)
=============================================================================
