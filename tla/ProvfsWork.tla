----------------------------- MODULE ProvfsWork -----------------------------
(***************************************************************************)
(* The deferred-stamp queue of the provfs LSM (lsm/provfs_work.c).         *)
(*                                                                         *)
(* A task whose writable close runs the file_release hook calls            *)
(* provfs_enqueue_stamp(): the call is admitted or dropped against         *)
(* queue_max, and an admitted call becomes a heap-allocated work item that *)
(* a kworker of an unbound workqueue executes later, concurrently with the *)
(* other items.  Every shared access (atomic_read, atomic_inc, dget,       *)
(* queue_work, each setxattr, dput, atomic_dec, kfree) is a step of its    *)
(* own, so calls and workers interleave as they do in the kernel.          *)
(*                                                                         *)
(* The value a call carries is abstracted to its ticket, the number of the *)
(* close it stamps for: an xattr holds the ticket of the close whose value *)
(* was written last, 0 when the key was never written.                     *)
(***************************************************************************)
EXTENDS Integers, FiniteSets

CONSTANTS
  Tasks,           \* tasks that may run the hook at the same time
  Files,           \* dentries of stampable regular files
  Works,           \* addresses kzalloc() can return
  Envs,            \* the sets of optional keys a writer's environment carries
  QueueMaxInputs,  \* integers an administrator writes to queue_max
  QUEUE_MAX_INIT,  \* provfs_queue_max at boot (1024)
  QUEUE_MAX_MIN,   \* provfs_queue_max_min (1)
  QUEUE_MAX_MAX,   \* provfs_queue_max_max (1 << 20)
  MaxCloses,       \* bound: number of closes in a behaviour
  NULL             \* the value of a pointer that points nowhere

MandatoryKeys == {"session", "ts"}
OptionalKeys == {"tool", "turn", "intent"}
Keys == MandatoryKeys \cup OptionalKeys

ASSUME WorkAssumption ==
  /\ IsFiniteSet(Tasks) /\ Tasks # {}
  /\ IsFiniteSet(Works)
  /\ Envs \subseteq SUBSET OptionalKeys
  /\ QueueMaxInputs \subseteq Int
  /\ QUEUE_MAX_MIN \in Nat \ {0}
  /\ QUEUE_MAX_MAX \in Nat
  /\ QUEUE_MAX_INIT \in QUEUE_MAX_MIN..QUEUE_MAX_MAX
  /\ MaxCloses \in Nat
  /\ NULL \notin Files \cup Works

VARIABLES
  wq,        \* provfs_wq: "unset", "up", "failed", "draining" or "gone"
  sysctl,    \* whether provfs_sysctl_hdr is registered
  queueMax,  \* provfs_queue_max
  depth,     \* provfs_queue_depth
  dropped,   \* provfs_queue_dropped
  pc,        \* where each task is in provfs_enqueue_stamp()
  arg,       \* the arguments of each task's call
  seen,      \* the queue_depth each task has read
  mine,      \* the work item each task has allocated
  stage,     \* where each work item is in its life
  item,      \* the payload of each work item
  todo,      \* the keys each work item has still to write
  refs,      \* references the work items hold on each dentry
  xattr,     \* the user.prov.* set of each file
  closes,    \* tickets issued so far
  \* History variables: what has happened, read by the properties only.
  lost,      \* tickets whose call was dropped
  attempted, \* tickets whose worker has tried every key
  peak,      \* the largest queue_max in force so far
  latest,    \* the ticket queued last for each file
  overlapped,\* files two of whose items were outstanding at once, and
  failed     \* files on which a setxattr failed, since the last time the
             \* file was queued with nothing outstanding

queueVars == <<wq, sysctl, queueMax, depth, dropped>>
callVars == <<pc, arg, seen, mine>>
itemVars == <<stage, item, todo>>
fileVars == <<refs, xattr>>
historyVars == <<closes, lost, attempted, peak, latest, overlapped, failed>>
vars == <<queueVars, callVars, itemVars, fileVars, historyVars>>

Tickets == 1..MaxCloses

(* The order in which provfs_stamp_worker() writes the keys. *)
Rank == [session |-> 1, ts |-> 2, tool |-> 3, turn |-> 4, intent |-> 5]

(* provfs_wq is a non-NULL pointer. *)
HaveQueue == wq = "up"

(* Items whose slot in queue_depth is taken: from atomic_inc to atomic_dec. *)
Counted == {w \in Works : stage[w] \in {"counted", "pending", "running", "put"}}

(* Items that hold a reference on dentry f: from dget to dput. *)
Holders(f) ==
  {w \in Works : /\ stage[w] \in {"filled", "counted", "pending", "running"}
                 /\ item[w].file = f}

(* Items the workqueue owns that may still write to f. *)
Outstanding(f) ==
  {w \in Works : stage[w] \in {"pending", "running"} /\ item[w].file = f}

NoArg == [file |-> NULL, ticket |-> 0, env |-> {}]
NoItem == [file |-> NULL, ticket |-> 0]

Init ==
  /\ wq = "unset" /\ sysctl = FALSE
  /\ queueMax = QUEUE_MAX_INIT
  /\ depth = 0 /\ dropped = 0
  /\ pc = [t \in Tasks |-> "idle"]
  /\ arg = [t \in Tasks |-> NoArg]
  /\ seen = [t \in Tasks |-> 0]
  /\ mine = [t \in Tasks |-> NULL]
  /\ stage = [w \in Works |-> "free"]
  /\ item = [w \in Works |-> NoItem]
  /\ todo = [w \in Works |-> {}]
  /\ refs = [f \in Files |-> 0]
  /\ xattr = [f \in Files |-> [k \in Keys |-> 0]]
  /\ closes = 0
  /\ lost = {} /\ attempted = {}
  /\ peak = QUEUE_MAX_INIT
  /\ latest = [f \in Files |-> 0]
  /\ overlapped = {} /\ failed = {}

-----------------------------------------------------------------------------
(* Set-up, tuning and tear-down *)

(* provfs_work_init(): the hooks are already registered when it runs; the   *)
(* allocation may fail, and so may the registration of the sysctl table.    *)
WorkInit ==
  /\ wq = "unset"
  /\ \/ wq' = "up" /\ sysctl' \in BOOLEAN
     \/ wq' = "failed" /\ UNCHANGED sysctl
  /\ UNCHANGED <<queueMax, depth, dropped, callVars, itemVars, fileVars,
                 historyVars>>

MutSetQueueMaxUnchecked(v) ==
  /\ sysctl
  /\ queueMax' = v
  /\ peak' = IF v > peak THEN v ELSE peak
  /\ UNCHANGED <<wq, sysctl, depth, dropped, callVars, itemVars, fileVars,
                 closes, lost, attempted, latest, overlapped, failed>>

(* A write to kernel/provfs/queue_max; out of range it is refused. *)
SetQueueMax(v) ==
  /\ sysctl
  /\ v \in QUEUE_MAX_MIN..QUEUE_MAX_MAX
  /\ queueMax' = v
  /\ peak' = IF v > peak THEN v ELSE peak
  /\ UNCHANGED <<wq, sysctl, depth, dropped, callVars, itemVars, fileVars,
                 closes, lost, attempted, latest, overlapped, failed>>

(* provfs_work_exit(): the sysctl goes first, then destroy_workqueue()      *)
(* starts to drain.  Its caller must have stopped the hooks.                *)
ExitBegin ==
  /\ wq = "up"
  /\ \A t \in Tasks : pc[t] = "idle"
  /\ wq' = "draining" /\ sysctl' = FALSE
  /\ UNCHANGED <<queueMax, depth, dropped, callVars, itemVars, fileVars,
                 historyVars>>

(* destroy_workqueue() returns once every work function has returned,      *)
(* which it does with its kfree(); it knows nothing of memory.             *)
ExitDone ==
  /\ wq = "draining"
  /\ \A w \in Works : stage[w] \notin {"pending", "running", "put", "dead"}
  /\ wq' = "gone"
  /\ UNCHANGED <<sysctl, queueMax, depth, dropped, callVars, itemVars,
                 fileVars, historyVars>>

-----------------------------------------------------------------------------
(* provfs_enqueue_stamp(), one action per access to shared state *)

(* Task t returns: its locals go out of scope. *)
Return(t) ==
  /\ pc' = [pc EXCEPT ![t] = "idle"]
  /\ arg' = [arg EXCEPT ![t] = NoArg]
  /\ seen' = [seen EXCEPT ![t] = 0]
  /\ mine' = [mine EXCEPT ![t] = NULL]

(* The hook is entered for a close of f by a writer whose environment sets  *)
(* the optional keys in e; without a workqueue the call is dropped.         *)
Begin(t, f, e) ==
  /\ pc[t] = "idle" /\ wq # "draining"
  /\ closes < MaxCloses
  /\ closes' = closes + 1
  /\ arg' = [arg EXCEPT ![t] = [file |-> f, ticket |-> closes + 1, env |-> e]]
  /\ pc' = [pc EXCEPT ![t] = IF HaveQueue THEN "read" ELSE "drop"]
  /\ UNCHANGED <<queueVars, seen, mine, itemVars, fileVars, lost, attempted,
                 peak, latest, overlapped, failed>>

(* atomic_read(&provfs_queue_depth) *)
ReadDepth(t) ==
  /\ pc[t] = "read"
  /\ seen' = [seen EXCEPT ![t] = depth]
  /\ pc' = [pc EXCEPT ![t] = "cmp"]
  /\ UNCHANGED <<queueVars, arg, mine, itemVars, fileVars, historyVars>>

MutCompareStrict(t) ==
  /\ pc[t] = "cmp"
  /\ pc' = [pc EXCEPT ![t] = IF seen[t] > queueMax THEN "drop" ELSE "alloc"]
  /\ UNCHANGED <<queueVars, arg, seen, mine, itemVars, fileVars, historyVars>>

(* The depth read earlier against the queue_max of now. *)
Compare(t) ==
  /\ pc[t] = "cmp"
  /\ pc' = [pc EXCEPT ![t] = IF seen[t] >= queueMax THEN "drop" ELSE "alloc"]
  /\ UNCHANGED <<queueVars, arg, seen, mine, itemVars, fileVars, historyVars>>

MutAllocNoDget(t, w) ==
  /\ pc[t] = "alloc" /\ stage[w] = "free"
  /\ mine' = [mine EXCEPT ![t] = w]
  /\ stage' = [stage EXCEPT ![w] = "filled"]
  /\ item' = [item EXCEPT ![w] = [file |-> arg[t].file,
                                  ticket |-> arg[t].ticket]]
  /\ todo' = [todo EXCEPT ![w] = MandatoryKeys \cup arg[t].env]
  /\ pc' = [pc EXCEPT ![t] = "inc"]
  /\ UNCHANGED <<queueVars, arg, seen, refs, xattr, historyVars>>

(* kzalloc(), dget() and the copies: w is private to t until it is queued. *)
AllocOk(t, w) ==
  /\ pc[t] = "alloc" /\ stage[w] = "free"
  /\ mine' = [mine EXCEPT ![t] = w]
  /\ stage' = [stage EXCEPT ![w] = "filled"]
  /\ item' = [item EXCEPT ![w] = [file |-> arg[t].file,
                                  ticket |-> arg[t].ticket]]
  /\ todo' = [todo EXCEPT ![w] = MandatoryKeys \cup arg[t].env]
  /\ refs' = [refs EXCEPT ![arg[t].file] = @ + 1]
  /\ pc' = [pc EXCEPT ![t] = "inc"]
  /\ UNCHANGED <<queueVars, arg, seen, xattr, historyVars>>

MutAllocFailsSilently(t) ==
  /\ pc[t] = "alloc"
  /\ Return(t)
  /\ UNCHANGED <<queueVars, itemVars, fileVars, historyVars>>

(* kzalloc(GFP_ATOMIC) may fail at any time. *)
AllocFails(t) ==
  /\ pc[t] = "alloc"
  /\ pc' = [pc EXCEPT ![t] = "drop"]
  /\ UNCHANGED <<queueVars, arg, seen, mine, itemVars, fileVars, historyVars>>

AtomicInc(t) ==
  /\ pc[t] = "inc"
  /\ depth' = depth + 1
  /\ stage' = [stage EXCEPT ![mine[t]] = "counted"]
  /\ pc' = [pc EXCEPT ![t] = "queue"]
  /\ UNCHANGED <<wq, sysctl, queueMax, dropped, arg, seen, mine, item, todo,
                 fileVars, historyVars>>

(* The history variables of a file whose item w is handed to the workqueue. *)
Enlist(w) ==
  LET f == item[w].file
      busy == Outstanding(f) # {}
  IN /\ latest' = [latest EXCEPT ![f] = item[w].ticket]
     /\ overlapped' = IF busy THEN overlapped \cup {f} ELSE overlapped \ {f}
     /\ failed' = IF busy THEN failed ELSE failed \ {f}

MutQueueWorkFallsThrough(t) ==
  /\ pc[t] = "queue"
  /\ stage' = [stage EXCEPT ![mine[t]] = "pending"]
  /\ Enlist(mine[t])
  /\ pc' = [pc EXCEPT ![t] = "drop"]
  /\ UNCHANGED <<queueVars, arg, seen, mine, item, todo, fileVars, closes,
                 lost, attempted, peak>>

(* queue_work() never finds a fresh struct already queued. *)
QueueWork(t) ==
  /\ pc[t] = "queue"
  /\ stage' = [stage EXCEPT ![mine[t]] = "pending"]
  /\ Enlist(mine[t])
  /\ Return(t)
  /\ UNCHANGED <<queueVars, item, todo, fileVars, closes, lost, attempted,
                 peak>>

MutDropUndoesDepth(t) ==
  /\ pc[t] = "drop"
  /\ dropped' = dropped + 1
  /\ depth' = depth - 1
  /\ lost' = lost \cup {arg[t].ticket}
  /\ Return(t)
  /\ UNCHANGED <<wq, sysctl, queueMax, itemVars, fileVars, closes,
                 attempted, peak, latest, overlapped, failed>>

(* The drop label. *)
Drop(t) ==
  /\ pc[t] = "drop"
  /\ dropped' = dropped + 1
  /\ lost' = lost \cup {arg[t].ticket}
  /\ Return(t)
  /\ UNCHANGED <<wq, sysctl, queueMax, depth, itemVars, fileVars, closes,
                 attempted, peak, latest, overlapped, failed>>

-----------------------------------------------------------------------------
(* provfs_stamp_worker() *)

(* A kworker picks w up; the queue is unbound, so in no particular order. *)
StartWork(w) ==
  /\ stage[w] = "pending"
  /\ stage' = [stage EXCEPT ![w] = "running"]
  /\ UNCHANGED <<queueVars, callVars, item, todo, fileVars, historyVars>>

(* w is at the setxattr of key k. *)
AtKey(w, k) ==
  /\ stage[w] = "running" /\ k \in todo[w]
  /\ \A j \in todo[w] : Rank[k] <= Rank[j]

MutWriteKeyCreateOnly(w, k) ==
  /\ AtKey(w, k)
  /\ xattr' = [xattr EXCEPT ![item[w].file][k] =
                 IF @ = 0 THEN item[w].ticket ELSE @]
  /\ todo' = [todo EXCEPT ![w] = @ \ {k}]
  /\ UNCHANGED <<queueVars, callVars, stage, item, refs, historyVars>>

WriteKey(w, k) ==
  /\ AtKey(w, k)
  /\ xattr' = [xattr EXCEPT ![item[w].file][k] = item[w].ticket]
  /\ todo' = [todo EXCEPT ![w] = @ \ {k}]
  /\ UNCHANGED <<queueVars, callVars, stage, item, refs, historyVars>>

(* The result is cast to void: the worker goes on to the next key. *)
WriteKeyFails(w, k) ==
  /\ AtKey(w, k)
  /\ todo' = [todo EXCEPT ![w] = @ \ {k}]
  /\ failed' = failed \cup {item[w].file}
  /\ UNCHANGED <<queueVars, callVars, stage, item, fileVars, closes, lost,
                 attempted, peak, latest, overlapped>>

Dput(w) ==
  /\ stage[w] = "running" /\ todo[w] = {}
  /\ stage' = [stage EXCEPT ![w] = "put"]
  /\ refs' = [refs EXCEPT ![item[w].file] = @ - 1]
  /\ attempted' = attempted \cup {item[w].ticket}
  /\ UNCHANGED <<queueVars, callVars, item, todo, xattr, closes, lost, peak,
                 latest, overlapped, failed>>

AtomicDec(w) ==
  /\ stage[w] = "put"
  /\ depth' = depth - 1
  /\ stage' = [stage EXCEPT ![w] = "dead"]
  /\ UNCHANGED <<wq, sysctl, queueMax, dropped, callVars, item, todo, fileVars,
                 historyVars>>

MutKfreeLeaks(w) ==
  /\ stage[w] = "dead"
  /\ stage' = [stage EXCEPT ![w] = "leaked"]
  /\ item' = [item EXCEPT ![w] = NoItem]
  /\ UNCHANGED <<queueVars, callVars, todo, fileVars, historyVars>>

Kfree(w) ==
  /\ stage[w] = "dead"
  /\ stage' = [stage EXCEPT ![w] = "free"]
  /\ item' = [item EXCEPT ![w] = NoItem]
  /\ UNCHANGED <<queueVars, callVars, todo, fileVars, historyVars>>

-----------------------------------------------------------------------------
TaskStep(t) ==
  \/ ReadDepth(t) \/ Compare(t)
  \/ \E w \in Works : AllocOk(t, w)
  \/ AllocFails(t) \/ AtomicInc(t) \/ QueueWork(t) \/ Drop(t)

WorkerStep(w) ==
  \/ StartWork(w)
  \/ \E k \in Keys : WriteKey(w, k) \/ WriteKeyFails(w, k)
  \/ Dput(w) \/ AtomicDec(w) \/ Kfree(w)

(* The bound on closes is reached and all the work is done. *)
AllSettled ==
  /\ closes = MaxCloses
  /\ \A t \in Tasks : pc[t] = "idle"
  /\ \A w \in Works : stage[w] = "free"
  /\ UNCHANGED vars

Next ==
  \/ WorkInit \/ ExitBegin \/ ExitDone
  \/ \E v \in QueueMaxInputs : SetQueueMax(v)
  \/ \E t \in Tasks : TaskStep(t)
  \/ \E t \in Tasks, f \in Files, e \in Envs : Begin(t, f, e)
  \/ \E w \in Works : WorkerStep(w)
  \/ AllSettled

Spec == Init /\ [][Next]_vars

(* A task inside the hook keeps running, a queued item is executed (an     *)
(* unbound WQ_MEM_RECLAIM queue has a rescuer).  Closes, tuning, init and  *)
(* exit need never happen.                                                 *)
Fairness ==
  /\ \A t \in Tasks : WF_vars(TaskStep(t))
  /\ \A w \in Works : WF_vars(WorkerStep(w))

FairSpec == Spec /\ Fairness

-----------------------------------------------------------------------------
(* Properties *)

(* Every variable stays in its range; the counters never go negative and   *)
(* queue_max stays within the limits of its sysctl entry.                  *)
TypeOK ==
  /\ wq \in {"unset", "up", "failed", "draining", "gone"}
  /\ sysctl \in BOOLEAN
  /\ queueMax \in QUEUE_MAX_MIN..QUEUE_MAX_MAX
  /\ depth \in Nat /\ dropped \in Nat
  /\ pc \in [Tasks -> {"idle", "read", "cmp", "alloc", "inc", "queue", "drop"}]
  /\ arg \in [Tasks -> [file : Files \cup {NULL}, ticket : 0..MaxCloses,
                        env : SUBSET OptionalKeys]]
  /\ seen \in [Tasks -> Nat]
  /\ mine \in [Tasks -> Works \cup {NULL}]
  /\ stage \in [Works -> {"free", "filled", "counted", "pending", "running",
                          "put", "dead"}]
  /\ item \in [Works -> [file : Files \cup {NULL}, ticket : 0..MaxCloses]]
  /\ todo \in [Works -> SUBSET Keys]
  /\ refs \in [Files -> Nat]
  /\ xattr \in [Files -> [Keys -> 0..MaxCloses]]
  /\ closes \in 0..MaxCloses
  /\ lost \subseteq Tickets /\ attempted \subseteq Tickets
  /\ peak \in QUEUE_MAX_MIN..QUEUE_MAX_MAX
  /\ latest \in [Files -> 0..MaxCloses]
  /\ overlapped \subseteq Files /\ failed \subseteq Files

(* queue_depth is exactly the number of items between their atomic_inc and *)
(* their atomic_dec: no path counts an item twice, forgets one or undoes a *)
(* count it never made, whatever the interleaving.                         *)
DepthCountsWorks == depth = Cardinality(Counted)

(* Every dentry is pinned by exactly the items that may still write to it: *)
(* no reference leaks through a drop path, and no worker writes through a  *)
(* dentry its item has already put.                                        *)
DentryPinned == \A f \in Files : refs[f] = Cardinality(Holders(f))

(* The comment at atomic_inc: racing enqueuers may exceed queue_max by no  *)
(* more than their number (less one: the first was entitled to its slot).  *)
(* Lowering queue_max evicts nothing, hence the largest value in force.    *)
OverAdmitBounded == depth <= peak + Cardinality(Tasks) - 1

(* A dropped close leaves no trace in any xattr, and no close is both      *)
(* dropped and stamped: queue_dropped counts stamps that never happened.   *)
DroppedLeaveNoTrace ==
  /\ lost \cap attempted = {}
  /\ \A f \in Files, k \in Keys : xattr[f][k] \notin lost

(* When nothing is outstanding for a file, its session and ts are those of *)
(* the close queued last, unless its items overlapped or a setxattr failed *)
(* since the file was last at rest.                                        *)
RestingRecordCoherent ==
  \A f \in Files :
    Outstanding(f) = {} /\ f \notin overlapped \cup failed
      => \A k \in MandatoryKeys : xattr[f][k] = latest[f]

(* The bound alone never drops a close that finds the queue empty: no      *)
(* sequence of writes to queue_max switches stamping off.                  *)
EmptyQueueAdmits ==
  [][\A t \in Tasks : pc[t] = "cmp" /\ seen[t] = 0 => pc'[t] # "drop"]_vars

(* Every item kzalloc() returned is freed again, on whatever path. *)
ItemsReleased ==
  \A w \in Works : stage[w] # "free" ~> stage[w] = "free"

(* Every close that entered the hook is in the end dropped or stamped, and *)
(* queue_dropped is the number of the dropped ones.                        *)
BE == INSTANCE BestEffort WITH issued <- closes

BestEffortStamping == BE!Spec
=============================================================================
