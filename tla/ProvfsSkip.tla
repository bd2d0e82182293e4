----------------------------- MODULE ProvfsSkip -----------------------------
(***************************************************************************)
(* The tunable skip list of the provfs LSM (lsm/provfs_work.c): the shared *)
(* buffer, provfs_path_skipped(), which every writable close runs, and     *)
(* provfs_sysctl_skip_prefixes(), which an administrator's read or write   *)
(* of /proc/sys/kernel/provfs/skip_prefixes runs, with the rwlock between  *)
(* them.                                                                   *)
(*                                                                         *)
(* A list is a fixed number of comma-separated tokens, Empty for the empty *)
(* string.  strscpy() copies a token at a time, so that a copy without the *)
(* lock can be torn.  A path is the set of non-empty tokens that occur in  *)
(* it.                                                                     *)
(***************************************************************************)
EXTENDS Integers

CONSTANTS
  Hooks,    \* tasks that close files
  Admins,   \* tasks that read and write the sysctl entry
  Tokens,   \* substrings to look for
  Empty,    \* the empty token
  N,        \* tokens in a list
  Lists,    \* lists an administrator writes
  DEFAULT,  \* PROVFS_SKIP_DEFAULT
  Paths     \* paths of the files that are closed

Tasks == Hooks \cup Admins
ListType == [1..N -> Tokens]

ASSUME SkipAssumption ==
  /\ Hooks \cap Admins = {}
  /\ Empty \in Tokens
  /\ N \in Nat \ {0}
  /\ Lists \subseteq ListType
  /\ DEFAULT \in ListType
  /\ Paths \subseteq SUBSET (Tokens \ {Empty})

VARIABLES
  buf,      \* provfs_skip_prefixes_buf
  readers,  \* tasks inside read_lock(&provfs_skip_lock)
  writers,  \* tasks inside write_lock(&provfs_skip_lock)
  pc,       \* where each task is
  idx,      \* the token each task copies next
  local,    \* local[] of a hook, staging[] of an administrator
  path,     \* the argument of each provfs_path_skipped() call
  verdict,  \* its result
  \* History variables, read by the properties only.
  current,  \* the list installed last
  during    \* the lists in force since each hook's call began

vars == <<buf, readers, writers, pc, idx, local, path, verdict, current,
          during>>

Nothing == [i \in 1..N |-> Empty]

Init ==
  /\ buf = DEFAULT
  /\ readers = {} /\ writers = {}
  /\ pc = [t \in Tasks |-> "idle"]
  /\ idx = [t \in Tasks |-> 1]
  /\ local = [t \in Tasks |-> Nothing]
  /\ path = [t \in Tasks |-> {}]
  /\ verdict = [t \in Tasks |-> FALSE]
  /\ current = DEFAULT
  /\ during = [t \in Hooks |-> {}]

(* strstr(p, tok); every string contains the empty one. *)
Occurs(tok, p) == tok = Empty \/ tok \in p

(* What the documentation calls a match: some token of l appears in p. *)
SkippedBy(l, p) == \E i \in 1..N : l[i] \in p

-----------------------------------------------------------------------------
(* A hook enters provfs_path_skipped(). *)
Call(t, p) ==
  /\ pc[t] = "idle"
  /\ path' = [path EXCEPT ![t] = p]
  /\ during' = [during EXCEPT ![t] = {current}]
  /\ pc' = [pc EXCEPT ![t] = "rlock"]
  /\ UNCHANGED <<buf, readers, writers, idx, local, verdict, current>>

(* An administrator's access enters provfs_sysctl_skip_prefixes(). *)
Access(t) ==
  /\ pc[t] = "idle"
  /\ pc' = [pc EXCEPT ![t] = "rlock"]
  /\ UNCHANGED <<buf, readers, writers, idx, local, path, verdict, current,
                 during>>

MutReadLockUnheld(t) ==
  /\ pc[t] = "rlock"
  /\ pc' = [pc EXCEPT ![t] = "snapshot"]
  /\ UNCHANGED <<buf, readers, writers, idx, local, path, verdict, current,
                 during>>

ReadLock(t) ==
  /\ pc[t] = "rlock" /\ writers = {}
  /\ readers' = readers \cup {t}
  /\ pc' = [pc EXCEPT ![t] = "snapshot"]
  /\ UNCHANGED <<buf, writers, idx, local, path, verdict, current, during>>

(* One step of strscpy() from the shared buffer. *)
Snapshot(t) ==
  /\ pc[t] = "snapshot" /\ idx[t] <= N
  /\ local' = [local EXCEPT ![t] = [@ EXCEPT ![idx[t]] = buf[idx[t]]]]
  /\ idx' = [idx EXCEPT ![t] = @ + 1]
  /\ UNCHANGED <<buf, readers, writers, pc, path, verdict, current, during>>

MutReadUnlockMissing(t) ==
  /\ pc[t] = "snapshot" /\ idx[t] > N
  /\ idx' = [idx EXCEPT ![t] = 1]
  /\ pc' = [pc EXCEPT ![t] = IF t \in Hooks THEN "match" ELSE "dostring"]
  /\ UNCHANGED <<buf, readers, writers, local, path, verdict, current, during>>

ReadUnlock(t) ==
  /\ pc[t] = "snapshot" /\ idx[t] > N
  /\ readers' = readers \ {t}
  /\ idx' = [idx EXCEPT ![t] = 1]
  /\ pc' = [pc EXCEPT ![t] = IF t \in Hooks THEN "match" ELSE "dostring"]
  /\ UNCHANGED <<buf, writers, local, path, verdict, current, during>>

MutMatchEmptyToken(t) ==
  /\ pc[t] = "match" /\ idx[t] <= N
  /\ IF Occurs(local[t][idx[t]], path[t])
       THEN /\ verdict' = [verdict EXCEPT ![t] = TRUE]
            /\ idx' = [idx EXCEPT ![t] = N + 1]
       ELSE /\ idx' = [idx EXCEPT ![t] = @ + 1]
            /\ UNCHANGED verdict
  /\ UNCHANGED <<buf, readers, writers, pc, local, path, current, during>>

(* One turn of the strsep() loop, over the private copy. *)
Match(t) ==
  /\ pc[t] = "match" /\ idx[t] <= N
  /\ IF local[t][idx[t]] # Empty /\ Occurs(local[t][idx[t]], path[t])
       THEN /\ verdict' = [verdict EXCEPT ![t] = TRUE]
            /\ idx' = [idx EXCEPT ![t] = N + 1]
       ELSE /\ idx' = [idx EXCEPT ![t] = @ + 1]
            /\ UNCHANGED verdict
  /\ UNCHANGED <<buf, readers, writers, pc, local, path, current, during>>

(* The locals of a task that returns. *)
Leave(t) ==
  /\ pc' = [pc EXCEPT ![t] = "idle"]
  /\ idx' = [idx EXCEPT ![t] = 1]
  /\ local' = [local EXCEPT ![t] = Nothing]
  /\ path' = [path EXCEPT ![t] = {}]
  /\ verdict' = [verdict EXCEPT ![t] = FALSE]

Return(t) ==
  /\ pc[t] = "match" /\ idx[t] > N
  /\ Leave(t)
  /\ during' = [during EXCEPT ![t] = {}]
  /\ UNCHANGED <<buf, readers, writers, current>>

(* proc_dostring() fails, or the access was a read. *)
DostringReturns(t) ==
  /\ pc[t] = "dostring"
  /\ Leave(t)
  /\ UNCHANGED <<buf, readers, writers, current, during>>

(* proc_dostring() writes l into staging from position pos: a write at 0    *)
(* replaces the value, a later one on the same descriptor continues it,     *)
(* and one that starts beyond the end leaves the snapshot as it was.        *)
DostringWrites(t, l, pos) ==
  /\ pc[t] = "dostring"
  /\ local' = [local EXCEPT ![t] =
                 [i \in 1..N |-> IF i > pos THEN l[i] ELSE local[t][i]]]
  /\ pc' = [pc EXCEPT ![t] = "wlock"]
  /\ UNCHANGED <<buf, readers, writers, idx, path, verdict, current, during>>

MutWriteLockShared(t) ==
  /\ pc[t] = "wlock" /\ readers = {}
  /\ writers' = writers \cup {t}
  /\ pc' = [pc EXCEPT ![t] = "install"]
  /\ UNCHANGED <<buf, readers, idx, local, path, verdict, current, during>>

WriteLock(t) ==
  /\ pc[t] = "wlock" /\ readers = {} /\ writers = {}
  /\ writers' = {t}
  /\ pc' = [pc EXCEPT ![t] = "install"]
  /\ UNCHANGED <<buf, readers, idx, local, path, verdict, current, during>>

(* One step of strscpy() into the shared buffer. *)
Install(t) ==
  /\ pc[t] = "install" /\ idx[t] <= N
  /\ buf' = [buf EXCEPT ![idx[t]] = local[t][idx[t]]]
  /\ idx' = [idx EXCEPT ![t] = @ + 1]
  /\ UNCHANGED <<readers, writers, pc, local, path, verdict, current, during>>

MutWriteUnlockMissing(t) ==
  /\ pc[t] = "install" /\ idx[t] > N
  /\ Leave(t)
  /\ current' = local[t]
  /\ during' = [u \in Hooks |-> IF pc[u] = "idle" THEN {}
                                 ELSE during[u] \cup {local[t]}]
  /\ UNCHANGED <<buf, readers, writers>>

(* The list is in force; every call under way may be judged by it. *)
WriteUnlock(t) ==
  /\ pc[t] = "install" /\ idx[t] > N
  /\ writers' = writers \ {t}
  /\ Leave(t)
  /\ current' = local[t]
  /\ during' = [u \in Hooks |-> IF pc[u] = "idle" THEN {}
                                 ELSE during[u] \cup {local[t]}]
  /\ UNCHANGED <<buf, readers>>

-----------------------------------------------------------------------------
HookStep(t) ==
  \/ ReadLock(t) \/ Snapshot(t) \/ ReadUnlock(t) \/ Match(t) \/ Return(t)

AdminStep(t) ==
  \/ ReadLock(t) \/ Snapshot(t) \/ ReadUnlock(t) \/ DostringReturns(t)
  \/ \E l \in Lists, pos \in 0..N : DostringWrites(t, l, pos)
  \/ WriteLock(t) \/ Install(t) \/ WriteUnlock(t)

Next ==
  \/ \E t \in Hooks : HookStep(t) \/ \E p \in Paths : Call(t, p)
  \/ \E t \in Admins : AdminStep(t) \/ Access(t)

Spec == Init /\ [][Next]_vars

(* Tasks keep running, and the kernel's queued rwlock lets a reader in      *)
(* ahead of the writers that ask after it.  Nothing is assumed of the       *)
(* writers' turn, nor that anyone calls.                                    *)
FairSpec ==
  /\ Spec
  /\ \A t \in Hooks : WF_vars(HookStep(t)) /\ SF_vars(ReadLock(t))
  /\ \A t \in Admins : WF_vars(AdminStep(t))

-----------------------------------------------------------------------------
(* Properties *)

(* Every variable stays in its range, and the tasks inside the lock are    *)
(* the ones that are copying.                                              *)
TypeOK ==
  /\ buf \in ListType
  /\ readers = {t \in Tasks : pc[t] = "snapshot"}
  /\ writers = {t \in Tasks : pc[t] = "install"}
  /\ pc \in [Tasks -> {"idle", "rlock", "snapshot", "match", "dostring",
                       "wlock", "install"}]
  /\ idx \in [Tasks -> 1..(N + 1)]
  /\ local \in [Tasks -> ListType]
  /\ path \in [Tasks -> SUBSET Tokens]
  /\ verdict \in [Tasks -> BOOLEAN]
  /\ current \in ListType
  /\ during \in [Hooks -> SUBSET ListType]

(* provfs_work.h, "a match is never taken against a torn buffer": the      *)
(* answer a hook returns is the one that some single list gives which was  *)
(* in force at a moment of the call, whatever administrators write         *)
(* meanwhile; empty tokens match nothing.                                  *)
VerdictOfOneList ==
  \A t \in Hooks :
    pc[t] = "match" /\ idx[t] > N =>
      \E l \in during[t] : verdict[t] = SkippedBy(l, path[t])

(* Two administrators never leave a mixture of their lists: outside the    *)
(* write lock the buffer is the list the last of them staged.              *)
BufferIsLastStaged == writers = {} => buf = current

(* A writable close is not held up for ever: the hook returns, even while  *)
(* administrators rewrite the list again and again.                        *)
HooksReturn == \A t \in Hooks : pc[t] # "idle" ~> pc[t] = "idle"
=============================================================================
