---------------------------- MODULE MCMercadoPago ----------------------------
(***************************************************************************)
(* Subscriptions that begin on the last days of long and short months, in  *)
(* a leap year and before one, and in the middle of one.                   *)
(***************************************************************************)
EXTENDS MercadoPago

Month(year, month) == 12 * year + month - 1
MCStarts == {[month |-> Month(2023, 1), day |-> 31], [month |-> Month(2023, 2), day |-> 28],
             [month |-> Month(2023, 8), day |-> 31], [month |-> Month(2024, 2), day |-> 29],
             [month |-> Month(2023, 10), day |-> 30], [month |-> Month(2023, 6), day |-> 15]}
MCLastMonth == Month(2025, 3)
=============================================================================
