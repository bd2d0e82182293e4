----------------------------- MODULE BestEffort -----------------------------
(***************************************************************************)
(* What the deferred-stamp queue promises to the file_release hook: a close *)
(* handed over is settled once, by a drop that queue_dropped counts or by   *)
(* an attempt to write its record, and none is left unsettled for ever.     *)
(***************************************************************************)
EXTENDS Integers

CONSTANT MaxCloses  \* bound: number of closes in a behaviour

VARIABLES
  issued,     \* closes handed over so far; they are numbered from 1
  lost,       \* closes whose stamp was dropped
  attempted,  \* closes whose stamp was attempted
  dropped     \* the counter queue_dropped

vars == <<issued, lost, attempted, dropped>>

Unsettled == 1..issued \ (lost \cup attempted)

Init == issued = 0 /\ lost = {} /\ attempted = {} /\ dropped = 0

Issue ==
  /\ issued < MaxCloses
  /\ issued' = issued + 1
  /\ UNCHANGED <<lost, attempted, dropped>>

Lose(x) ==
  /\ x \in Unsettled
  /\ lost' = lost \cup {x}
  /\ dropped' = dropped + 1
  /\ UNCHANGED <<issued, attempted>>

Attempt(x) ==
  /\ x \in Unsettled
  /\ attempted' = attempted \cup {x}
  /\ UNCHANGED <<issued, lost, dropped>>

Settle(x) == Lose(x) \/ Attempt(x)

Next == Issue \/ \E x \in 1..MaxCloses : Settle(x)

SafeSpec == Init /\ [][Next]_vars

Spec ==
  /\ SafeSpec
  /\ \A x \in 1..MaxCloses : WF_vars(Settle(x))
=============================================================================
