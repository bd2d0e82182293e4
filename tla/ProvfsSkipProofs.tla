-------------------------- MODULE ProvfsSkipProofs --------------------------
(***************************************************************************)
(* Proofs about the skip list for any number of hooks, administrators and  *)
(* tokens.  The inductive invariant says, of each place a task can be in,  *)
(* what it has copied so far:                                              *)
(*   Placed    a task is only where its function can be;                   *)
(*   Excluded  a task that installs a list is alone in the lock;           *)
(*   Copied    the part of a snapshot taken so far is that of the list in  *)
(*             force, the part installed so far that of the staged list,   *)
(*             and without an installer the buffer is the list in force;   *)
(*   Judged    the list a hook has copied was in force during its call,    *)
(*             and the tokens it has tried decide its verdict.             *)
(***************************************************************************)
EXTENDS ProvfsSkip, TLAPS

Placed ==
  /\ \A t \in Hooks : pc[t] \in {"idle", "rlock", "snapshot", "match"}
  /\ \A t \in Admins : pc[t] # "match"
  /\ \A t \in Tasks : /\ path[t] \subseteq Tokens \ {Empty}
                      /\ pc[t] # "match" => verdict[t] = FALSE
                      /\ pc[t] \in {"idle", "rlock", "dostring", "wlock"}
                           => idx[t] = 1

Excluded ==
  \A t \in Tasks : pc[t] = "install" =>
    \A u \in Tasks : u # t => pc[u] \notin {"snapshot", "install"}

Copied ==
  /\ (\A t \in Tasks : pc[t] # "install") => buf = current
  /\ \A t \in Tasks : \A i \in 1..N : i < idx[t] =>
       /\ pc[t] = "snapshot" => local[t][i] = current[i]
       /\ pc[t] = "install" => buf[i] = local[t][i]

Judged ==
  \A t \in Hooks :
    /\ pc[t] \in {"rlock", "snapshot"} => current \in during[t]
    /\ pc[t] = "match" =>
         /\ local[t] \in during[t]
         /\ verdict[t] => SkippedBy(local[t], path[t])
         /\ ~verdict[t] =>
              \A i \in 1..N : i < idx[t] => local[t][i] \notin path[t]

Inv == TypeOK /\ Placed /\ Excluded /\ Copied /\ Judged

USE DEF Tasks, ListType

(* The initial state satisfies the invariant. *)
LEMMA SkipInit == Init => Inv
BY SkipAssumption, SMT
   DEF Init, Inv, TypeOK, Placed, Excluded, Copied, Judged, Nothing

(* Every step keeps the variables in their range. *)
LEMMA SkipTyped == Inv /\ [Next]_vars => TypeOK'
<1> SUFFICES ASSUME Inv, [Next]_vars PROVE TypeOK'
  OBVIOUS
<1> USE SkipAssumption DEF Inv, TypeOK, Placed
<1>1. ASSUME NEW t \in Hooks, NEW p \in Paths, Call(t, p) PROVE TypeOK'
  BY <1>1, SMT DEF Call
<1>2. ASSUME NEW t \in Admins, Access(t) PROVE TypeOK'
  BY <1>2, SMT DEF Access
<1>3. ASSUME NEW t \in Tasks, ReadLock(t) PROVE TypeOK'
  BY <1>3, SMT DEF ReadLock
<1>4. ASSUME NEW t \in Tasks, Snapshot(t) PROVE TypeOK'
  BY <1>4, SMT DEF Snapshot
<1>5. ASSUME NEW t \in Tasks, ReadUnlock(t) PROVE TypeOK'
  BY <1>5, SMT DEF ReadUnlock
<1>6. ASSUME NEW t \in Hooks, Match(t) PROVE TypeOK'
  <2> DEFINE hit == local[t][idx[t]] # Empty /\ Occurs(local[t][idx[t]], path[t])
  <2>1. [verdict EXCEPT ![t] = TRUE] \in [Tasks -> BOOLEAN]
    BY Zenon
  <2>2. verdict' \in [Tasks -> BOOLEAN]
    BY <1>6, <2>1, Zenon DEF Match
  <2>3. \/ idx' = [idx EXCEPT ![t] = N + 1]
        \/ idx' = [idx EXCEPT ![t] = idx[t] + 1]
    <3>1. CASE hit
      BY <1>6, <3>1, Zenon DEF Match
    <3>2. CASE ~hit
      BY <1>6, <3>2, Zenon DEF Match
    <3> QED BY <3>1, <3>2
  <2>4. idx[t] \in 1..N
    BY <1>6, SMT DEF Match
  <2>5. idx' \in [Tasks -> 1..(N + 1)]
    BY <2>3, <2>4, SMT
  <2>6. UNCHANGED <<buf, readers, writers, pc, local, path, current, during>>
    BY <1>6 DEF Match
  <2> QED BY <2>2, <2>5, <2>6, Zenon
<1>7. ASSUME NEW t \in Hooks, Return(t) PROVE TypeOK'
  BY <1>7, SMT DEF Return, Leave, Nothing
<1>8. ASSUME NEW t \in Admins, DostringReturns(t) PROVE TypeOK'
  BY <1>8, SMT DEF DostringReturns, Leave, Nothing
<1>9. ASSUME NEW t \in Admins, NEW l \in Lists, NEW pos \in 0..N,
             DostringWrites(t, l, pos)
      PROVE TypeOK'
  <2>1. [i \in 1..N |-> IF i > pos THEN l[i] ELSE local[t][i]] \in ListType
    OBVIOUS
  <2> QED BY <1>9, <2>1, SMT DEF DostringWrites
<1>10. ASSUME NEW t \in Admins, WriteLock(t) PROVE TypeOK'
  BY <1>10, SMT DEF WriteLock
<1>11. ASSUME NEW t \in Admins, Install(t) PROVE TypeOK'
  BY <1>11, SMT DEF Install
<1>12. ASSUME NEW t \in Admins, WriteUnlock(t) PROVE TypeOK'
  BY <1>12, SMT DEF WriteUnlock, Leave, Nothing
<1>13. CASE UNCHANGED vars
  BY <1>13, SMT DEF vars
<1> QED
  BY <1>1, <1>2, <1>3, <1>4, <1>5, <1>6, <1>7, <1>8, <1>9, <1>10, <1>11,
     <1>12, <1>13, Zenon
     DEF Next, HookStep, AdminStep

(* Every step keeps the rest of the invariant. *)
LEMMA SkipStep ==
  Inv /\ TypeOK' /\ [Next]_vars => Placed' /\ Excluded' /\ Copied' /\ Judged'
<1> SUFFICES ASSUME Inv, TypeOK', [Next]_vars
             PROVE  Placed' /\ Excluded' /\ Copied' /\ Judged'
  OBVIOUS
<1> DEFINE Goal == Placed' /\ Excluded' /\ Copied' /\ Judged'
<1> USE SkipAssumption DEF Inv, TypeOK, Placed, Excluded, Copied, Judged
<1>1. ASSUME NEW t \in Hooks, NEW p \in Paths, Call(t, p) PROVE Goal
  BY <1>1, SMT DEF Call
<1>2. ASSUME NEW t \in Admins, Access(t) PROVE Goal
  BY <1>2, SMT DEF Access
<1>3. ASSUME NEW t \in Tasks, ReadLock(t) PROVE Goal
  BY <1>3, SMT DEF ReadLock
<1>4. ASSUME NEW t \in Tasks, Snapshot(t) PROVE Goal
  BY <1>4, SMT DEF Snapshot
<1>5. ASSUME NEW t \in Tasks, ReadUnlock(t) PROVE Goal
  <2>1. local[t] = current
    <3>1. \A i \in 1..N : local[t][i] = current[i]
      BY <1>5, SMT DEF ReadUnlock
    <3> QED BY <3>1, SMT
  <2>2. Placed' /\ Excluded' /\ Copied'
    BY <1>5, SMT DEF ReadUnlock
  <2>3. Judged'
    BY <1>5, <2>1, SMT DEF ReadUnlock
  <2> QED BY <2>2, <2>3
<1>6. ASSUME NEW t \in Hooks, Match(t) PROVE Goal
  <2>1. Placed' /\ Excluded' /\ Copied'
    BY <1>6, SMT DEF Match
  <2>2. SUFFICES ASSUME NEW u \in Hooks
                 PROVE  /\ pc'[u] \in {"rlock", "snapshot"}
                             => current' \in during'[u]
                        /\ pc'[u] = "match" =>
                             /\ local'[u] \in during'[u]
                             /\ verdict'[u] => SkippedBy(local'[u], path'[u])
                             /\ ~verdict'[u] =>
                                  \A i \in 1..N : i < idx'[u] =>
                                    local'[u][i] \notin path'[u]
    BY <2>1, Zenon DEF SkippedBy
  <2>3. CASE u # t
    BY <1>6, <2>3, SMT DEF Match
  <2>4. CASE u = t /\ local[t][idx[t]] \in path[t]
    <3>1. local[t][idx[t]] # Empty
      BY <2>4
    <3>2. verdict'[t] = TRUE
      BY <1>6, <2>4, <3>1, SMT DEF Match, Occurs
    <3>3. SkippedBy(local[t], path[t])
      BY <1>6, <2>4, SMT DEF Match, SkippedBy
    <3> QED BY <1>6, <2>4, <3>2, <3>3, SMT DEF Match
  <2>5. CASE u = t /\ local[t][idx[t]] \notin path[t]
    <3>1. verdict' = verdict /\ idx' = [idx EXCEPT ![t] = @ + 1]
      BY <1>6, <2>5 DEF Match, Occurs
    <3>2. \A i \in 1..N : i < idx'[t] => i < idx[t] \/ i = idx[t]
      BY <3>1, SMT
    <3> QED BY <1>6, <2>5, <3>1, <3>2, SMT DEF Match
  <2> QED BY <2>3, <2>4, <2>5
<1>7. ASSUME NEW t \in Hooks, Return(t) PROVE Goal
  BY <1>7, SMT DEF Return, Leave
<1>8. ASSUME NEW t \in Admins, DostringReturns(t) PROVE Goal
  BY <1>8, SMT DEF DostringReturns, Leave
<1>9. ASSUME NEW t \in Admins, NEW l \in Lists, NEW pos \in 0..N,
             DostringWrites(t, l, pos)
      PROVE Goal
  BY <1>9, SMT DEF DostringWrites
<1>10. ASSUME NEW t \in Admins, WriteLock(t) PROVE Goal
  BY <1>10, SMT DEF WriteLock
<1>11. ASSUME NEW t \in Admins, Install(t) PROVE Goal
  BY <1>11, SMT DEF Install
<1>12. ASSUME NEW t \in Admins, WriteUnlock(t) PROVE Goal
  BY <1>12, SMT DEF WriteUnlock, Leave
<1>13. CASE UNCHANGED vars
  BY <1>13, SMT DEF vars
<1> QED
  BY <1>1, <1>2, <1>3, <1>4, <1>5, <1>6, <1>7, <1>8, <1>9, <1>10, <1>11,
     <1>12, <1>13, Zenon
     DEF Next, HookStep, AdminStep

(* The invariant holds throughout. *)
THEOREM SkipInvariant == Spec => []Inv
<1>1. Inv /\ [Next]_vars => Inv'
  BY SkipTyped, SkipStep DEF Inv
<1> QED BY SkipInit, <1>1, PTL DEF Spec

(* The variables stay in their range and the lock is held by exactly the   *)
(* tasks that copy.                                                        *)
THEOREM SkipTypeCorrect == Spec => []TypeOK
<1>1. Inv => TypeOK
  BY DEF Inv
<1> QED BY SkipInvariant, <1>1, PTL

(* No hook is judged by a torn list: provfs_path_skipped() answers as one  *)
(* list that was in force during the call, for any number of tokens.       *)
THEOREM MatchIsNeverTorn == Spec => []VerdictOfOneList
<1>1. Inv => VerdictOfOneList
  <2> SUFFICES ASSUME Inv, NEW t \in Hooks, pc[t] = "match", idx[t] > N
               PROVE  \E l \in during[t] : verdict[t] = SkippedBy(l, path[t])
    BY DEF VerdictOfOneList
  <2>1. verdict[t] = SkippedBy(local[t], path[t])
    <3>1. verdict[t] \in BOOLEAN
      BY DEF Inv, TypeOK
    <3>2. CASE verdict[t] = TRUE
      BY <3>2 DEF Inv, Judged, SkippedBy
    <3>3. CASE verdict[t] = FALSE
      <4>1. \A i \in 1..N : local[t][i] \notin path[t]
        BY <3>3, SkipAssumption, SMT DEF Inv, TypeOK, Judged
      <4> QED BY <3>3, <4>1, Zenon DEF SkippedBy
    <3> QED BY <3>1, <3>2, <3>3
  <2> QED BY <2>1 DEF Inv, Judged
<1> QED BY SkipInvariant, <1>1, PTL

(* Concurrent administrators install whole lists: outside the write lock   *)
(* the buffer is what the last of them staged.                             *)
THEOREM InstallsAreWhole == Spec => []BufferIsLastStaged
<1>1. Inv => BufferIsLastStaged
  BY SMT DEF Inv, TypeOK, Copied, BufferIsLastStaged
<1> QED BY SkipInvariant, <1>1, PTL
=============================================================================
