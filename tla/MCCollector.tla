----------------------------- MODULE MCCollector -----------------------------
(* A session collected at most twice, for TLC.                             *)
EXTENDS Collector

(* The run that dies is short, the one after it is whole.                 *)
MCItems == <<1, 3>>
=============================================================================
