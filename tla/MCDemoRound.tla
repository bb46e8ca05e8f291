----------------------------- MODULE MCDemoRound ------------------------------
(* DemoRound for TLC: the first two names of the list. *)
EXTENDS DemoRound

CONSTANTS Sepp, Resi

MCBotNames == << Sepp, Resi >>
=============================================================================
