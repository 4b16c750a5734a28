----------------------------- MODULE MCHolidays -----------------------------
(***************************************************************************)
(* A small instance of Holidays for TLC: a year whose list cannot be       *)
(* fetched, so that the first of the built-in holidays are written, with   *)
(* the clock of the server ahead of Greenwich or on it.                    *)
(***************************************************************************)
EXTENDS Holidays, NepalHolidays

MCPublished == << >>
MCFallback == SubSeq(BuiltIn(Year), 1, MaxRows)
MCEntered == {}
=============================================================================
