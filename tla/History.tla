------------------------------ MODULE History ------------------------------
(***************************************************************************)
(* The history ring (src/history.rs).  Its text is CSV, so it is a         *)
(* sequence of the parts between its commas; a session is such a sequence  *)
(* too: one part, more if it has commas, none if it is empty.              *)
(***************************************************************************)
EXTENDS Integers, Sequences

MutPushHistoryDuplicates(old, session, max) ==
  LET out[i \in 0..Len(old)] ==
        IF i = 0 THEN <<>>
        ELSE IF Len(out[i - 1]) = max - 1 THEN out[i - 1]
        ELSE Append(out[i - 1], old[i])
  IN session \o out[Len(old)]

MutPushHistoryOneTooMany(old, session, max) ==
  LET out[i \in 0..Len(old)] ==
        IF i = 0 THEN <<>>
        ELSE IF <<old[i]>> = session \/ Len(out[i - 1]) = max THEN out[i - 1]
        ELSE Append(out[i - 1], old[i])
  IN session \o out[Len(old)]

MutPushHistoryKeepsOld(old, session, max) ==
  LET out[i \in 0..Len(old)] ==
        IF i = 0 THEN <<>>
        ELSE IF <<old[i]>> = session \/ Len(out[i - 1]) = max - 1 THEN out[i - 1]
        ELSE Append(out[i - 1], old[i])
  IN out[Len(old)] \o session

MutPushHistoryUnbounded(old, session, max) == session \o old

(* push_history(): the session as one entry, then the other parts of the   *)
(* old text in their order, up to max entries, joined with commas again.   *)
(* out[i] are the parts pushed behind the session when i have been seen;   *)
(* once out is full it stays so.                                           *)
PushHistory(old, session, max) ==
  LET out[i \in 0..Len(old)] ==
        IF i = 0 THEN <<>>
        ELSE IF <<old[i]>> = session \/ Len(out[i - 1]) = max - 1 THEN out[i - 1]
        ELSE Append(out[i - 1], old[i])
  IN session \o out[Len(old)]
=============================================================================
