----------------------------- MODULE MCGoClient -----------------------------
(* Small instances of GoClient for TLC. *)
EXTENDS GoClient, TLC

CONSTANTS main, other

\* A program that subscribes and writes, from two goroutines, beside a shell's.
MixCalls == (main :> {"Exec", "LiveQuery"}) @@ (other :> {"Query", "Statement"})
MixBudget == (main :> 2) @@ (other :> 1)
=============================================================================
