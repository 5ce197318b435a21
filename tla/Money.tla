------------------------------- MODULE Money -------------------------------
(***************************************************************************)
(* The decimal arithmetic of an invoice.  Amounts are whole cents; prices  *)
(* and the exchange rate are ten-thousandths, quantities hundredths.  What *)
(* an ERP sends has a decimal more: its prices are hundred-thousandths,    *)
(* its quantities thousandths, their products Unit-ths of a cent.          *)
(*                                                                         *)
(* The program computes in doubles and rounds with std::round.  Rounded is *)
(* exact; where a decimal tie comes out a hair below in binary the program *)
(* may be one cent lower, which is why its tolerances, and the properties  *)
(* of CanonicalInvoice, are of more than a cent.                           *)
(***************************************************************************)
EXTENDS Integers

Unit == 1000000

Abs(x) == IF x < 0 THEN -x ELSE x

Max0(x) == IF x < 0 THEN 0 ELSE x

\* a / b to the nearest integer, halves away from zero.
Rounded(a, b) ==
  IF a >= 0 THEN (2 * a + b) \div (2 * b) ELSE -((b - 2 * a) \div (2 * b))

\* round2: price times quantity, in cents.
Priced(price, qty) == Rounded(price * qty, 10000)

\* round2, round4: an amount, or a price, at the rate of exchange.
AtRate(x, rate) == Rounded(x * rate, 10000)
=============================================================================
