------------------------------- MODULE MCSkip -------------------------------
(* Small instances of ProvfsSkip for TLC. *)
EXTENDS ProvfsSkip

CONSTANTS h1, a1, a2, git, tmp, none

(* The default, and a list that shares a token with it at another place: a  *)
(* copy torn between the two misses the shared one.                         *)
GitTmp == <<git, tmp>>
TmpOnly == {<<tmp, none>>}
OnePerToken == {{git}, {tmp}}
=============================================================================
