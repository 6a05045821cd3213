----------------------------- MODULE MCFreshness -----------------------------
(* An instance of Freshness for TLC: its times are small numbers in the     *)
(* proportions of main.rs, so that the alarm takes two missed cycles and    *)
(* the stale label an edition that is missed.                               *)
EXTENDS Freshness
=============================================================================
