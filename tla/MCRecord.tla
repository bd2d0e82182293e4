------------------------------ MODULE MCRecord ------------------------------
(***************************************************************************)
(* Small instances of ProvRecord for TLC.  vim's environment has a turn,   *)
(* the daemon's none of the optional keys; the session of a process named  *)
(* "a,b" without CLAUDE_SESSION is "comm:a,b:pid:7".                       *)
(***************************************************************************)
EXTENDS ProvRecord

CONSTANTS vim, sh, comma

MCSession == [c \in Callers |->
  CASE c = vim -> <<"S1">>
    [] c = sh -> <<"comm:sh:pid:5">>
    [] c = comma -> <<"comm:a", "b:pid:7">>]

MCEnv == [id \in Ids |-> IF id = vim THEN {"turn"} ELSE {}]
=============================================================================
