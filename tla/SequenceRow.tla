----------------------------- MODULE SequenceRow -----------------------------
(***************************************************************************)
(* The arithmetic of one ecf_sequences row: the last number given out      *)
(* (secuencia_actual) of a range rango_desde..rango_hasta authorised by    *)
(* DGII.  Shared by EcfSequences (all rows, all scopes) and EcfDocuments   *)
(* (the one row an invoice's scope reads).                                 *)
(***************************************************************************)
EXTENDS Integers

\* A counter left below the range is lifted to just before its first number.
Lifted(actual, desde) == IF actual < desde - 1 THEN desde - 1 ELSE actual

\* Fault: one number past the range.
HasNumberOrOneMore(actual, desde, hasta) == Lifted(actual, desde) <= hasta

\* The range still has a number to give.
HasNumber(actual, desde, hasta) == Lifted(actual, desde) < hasta

\* The number getNextEncf hands out, which is also the counter it stores.
NextNumber(actual, desde) == Lifted(actual, desde) + 1

\* Fault: the counter steps back whatever number is given back.
AlwaysSteppedBack(actual, num) == actual - 1

\* Fault: the counter goes back to below the number given back.
SteppedBackTo(actual, num) == IF actual >= num THEN num - 1 ELSE actual

\* releaseUnusedEncf on a row it selects: the counter steps back only when it
\* still stands at the number given back.
SteppedBack(actual, num) == IF actual = num THEN actual - 1 ELSE actual
=============================================================================
