---------------------------- MODULE OverlaySkip ----------------------------
(***************************************************************************)
(* The overlay's skip list (src/skip.rs).  A path relative to the backing  *)
(* directory is the sequence of its names, empty for the directory itself. *)
(* The text of a prefix is cut at its slashes: whole names, then a rest    *)
(* that the next name must begin with, which is empty when the prefix ends *)
(* in a slash.                                                             *)
(***************************************************************************)
EXTENDS Integers, Sequences

CONSTANT Begins  \* the pairs of a non-empty rest and a name it begins

Prefix(names, rest) == [names |-> names, rest |-> rest]
Dir(name) == Prefix(<<name>>, "")

DEFAULT_SKIP_PREFIXES ==
  {Dir(".git"), Prefix(<<".git", "objects">>, ""), Dir("node_modules"),
   Dir("target"), Dir(".cache"), Dir(".venv"), Dir("venv"),
   Dir("__pycache__"), Dir(".pytest_cache"), Dir(".mypy_cache"),
   Dir(".ruff_cache"), Dir("dist"), Dir("build")}

(* from_user_spec(), and defaults() when the option is empty. *)
FromUserSpec(extra) == DEFAULT_SKIP_PREFIXES \cup extra

(* The text of pre occurs in path where its i-th name begins: there is a   *)
(* name after the whole ones, so a prefix "d/" does not match d itself.    *)
OccursAt(path, pre, i) ==
  LET k == Len(pre.names)
  IN /\ i + k <= Len(path)
     /\ \A j \in 1..k : path[i + j - 1] = pre.names[j]
     /\ pre.rest = "" \/ <<pre.rest, path[i + k]>> \in Begins

(* should_skip(): a prefix is tried at the start of the path ... *)
StartsWith(path, pre) == OccursAt(path, pre, 1)

(* ... and after each of its slashes. *)
ContainsSegment(path, pre) == \E i \in 2..Len(path) : OccursAt(path, pre, i)

ShouldSkip(path, prefixes) ==
  \E pre \in prefixes : StartsWith(path, pre) \/ ContainsSegment(path, pre)
=============================================================================
