-------------------------- MODULE ProvfsWorkProofs --------------------------
(***************************************************************************)
(* Proofs about the deferred-stamp queue of ProvfsWork, for any number of  *)
(* tasks, files, work items and closes.                                    *)
(*                                                                         *)
(* The inductive invariant has six parts, each proved from the ones before *)
(* it: Typed (ranges), Owned (who may touch which item), the two counting  *)
(* invariants DepthCountsWorks and DentryPinned, Admission (the bound on   *)
(* the racing enqueuers), Ledger (what happens to a ticket) and Settling   *)
(* (how far the record of an undisturbed file has come).                   *)
(***************************************************************************)
EXTENDS ProvfsWork, FiniteSetTheorems, TLAPS

(* TypeOK but for the signs of the counters, which follow from counting. *)
Typed ==
  /\ wq \in {"unset", "up", "failed", "draining", "gone"}
  /\ sysctl \in BOOLEAN
  /\ queueMax \in QUEUE_MAX_MIN..QUEUE_MAX_MAX
  /\ depth \in Int /\ dropped \in Nat
  /\ pc \in [Tasks -> {"idle", "read", "cmp", "alloc", "inc", "queue", "drop"}]
  /\ arg \in [Tasks -> [file : Files \cup {NULL}, ticket : 0..MaxCloses,
                        env : SUBSET OptionalKeys]]
  /\ seen \in [Tasks -> Int]
  /\ mine \in [Tasks -> Works \cup {NULL}]
  /\ stage \in [Works -> {"free", "filled", "counted", "pending", "running",
                          "put", "dead"}]
  /\ item \in [Works -> [file : Files \cup {NULL}, ticket : 0..MaxCloses]]
  /\ todo \in [Works -> SUBSET Keys]
  /\ refs \in [Files -> Int]
  /\ xattr \in [Files -> [Keys -> 0..MaxCloses]]
  /\ closes \in 0..MaxCloses
  /\ lost \subseteq Tickets /\ attempted \subseteq Tickets
  /\ peak \in QUEUE_MAX_MIN..QUEUE_MAX_MAX
  /\ queueMax <= peak
  /\ latest \in [Files -> 0..MaxCloses]
  /\ overlapped \subseteq Files /\ failed \subseteq Files

(* A call in progress stamps a real file for an issued ticket, a live item *)
(* too, and an item that is not yet queued belongs to exactly one call.    *)
Owned ==
  /\ \A t \in Tasks :
       /\ pc[t] # "idle" => arg[t].file \in Files /\ arg[t].ticket \in 1..closes
       /\ pc[t] = "inc" => mine[t] \in Works /\ stage[mine[t]] = "filled"
       /\ pc[t] = "queue" => mine[t] \in Works /\ stage[mine[t]] = "counted"
  /\ \A s, t \in Tasks :
       /\ pc[s] \in {"inc", "queue"} /\ pc[t] \in {"inc", "queue"}
       /\ mine[s] = mine[t]
       => s = t
  /\ \A w \in Works :
       stage[w] # "free" => item[w].file \in Files /\ item[w].ticket \in 1..closes

Shape == Typed /\ Owned

(* The initial state has its variables in range and no owner. *)
LEMMA ShapeInit == Init => Shape
<1> SUFFICES ASSUME Init
             PROVE  Shape
  OBVIOUS
<1> USE WorkAssumption DEF Init
<1>1. xattr \in [Files -> [Keys -> 0..MaxCloses]]
  <2>1. [k \in Keys |-> 0] \in [Keys -> 0..MaxCloses]
    OBVIOUS
  <2> QED
    BY <2>1
<1>2. /\ arg \in [Tasks -> [file : Files \cup {NULL}, ticket : 0..MaxCloses,
                           env : SUBSET OptionalKeys]]
      /\ item \in [Works -> [file : Files \cup {NULL}, ticket : 0..MaxCloses]]
  BY DEF NoArg, NoItem
<1>3. /\ queueMax \in QUEUE_MAX_MIN..QUEUE_MAX_MAX /\ queueMax <= peak
      /\ peak \in QUEUE_MAX_MIN..QUEUE_MAX_MAX
      /\ depth \in Int /\ dropped \in Nat /\ closes \in 0..MaxCloses
  OBVIOUS
<1>4. /\ seen \in [Tasks -> Int] /\ mine \in [Tasks -> Works \cup {NULL}]
      /\ todo \in [Works -> SUBSET Keys] /\ refs \in [Files -> Int]
      /\ latest \in [Files -> 0..MaxCloses]
  OBVIOUS
<1>5. Typed
  BY <1>1, <1>2, <1>3, <1>4 DEF Typed, Tickets
<1>6. Owned
  BY DEF Owned
<1> QED
  BY <1>5, <1>6 DEF Shape

(* A step of provfs_enqueue_stamp() preserves ranges and ownership. *)
LEMMA ShapeTask ==
  ASSUME Shape, NEW t \in Tasks, TaskStep(t)
  PROVE  Shape'
<1> USE WorkAssumption DEF Shape, queueVars, callVars, itemVars, fileVars,
      historyVars, Tickets
<1>1. CASE ReadDepth(t)
  BY <1>1 DEF ReadDepth, Typed, Owned
<1>2. CASE Compare(t)
  BY <1>2 DEF Compare, Typed, Owned
<1>3. ASSUME NEW w \in Works, AllocOk(t, w)
      PROVE  Shape'
  <2>1. /\ arg[t].file \in Files /\ arg[t].ticket \in 0..MaxCloses
        /\ MandatoryKeys \cup arg[t].env \in SUBSET Keys
    BY <1>3 DEF AllocOk, Typed, Owned, Keys
  <2>2. Typed'
    BY <1>3, <2>1 DEF AllocOk, Typed
  <2>3. Owned'
    BY <1>3 DEF AllocOk, Typed, Owned
  <2> QED
    BY <2>2, <2>3
<1>4. CASE AllocFails(t)
  BY <1>4 DEF AllocFails, Typed, Owned
<1>5. CASE AtomicInc(t)
  BY <1>5 DEF AtomicInc, Typed, Owned
<1>6. CASE QueueWork(t)
  <2>1. arg' \in [Tasks -> [file : Files \cup {NULL}, ticket : 0..MaxCloses,
                             env : SUBSET OptionalKeys]]
    BY <1>6 DEF QueueWork, Return, NoArg, Typed
  <2>2. /\ latest' \in [Files -> 0..MaxCloses]
        /\ overlapped' \subseteq Files /\ failed' \subseteq Files
    BY <1>6 DEF QueueWork, Enlist, Typed, Owned
  <2>3. Typed'
    BY <1>6, <2>1, <2>2 DEF QueueWork, Return, Typed, Owned
  <2>4. Owned'
    BY <1>6 DEF QueueWork, Return, Typed, Owned
  <2> QED
    BY <2>3, <2>4
<1>7. CASE Drop(t)
  <2>1. arg' \in [Tasks -> [file : Files \cup {NULL}, ticket : 0..MaxCloses,
                             env : SUBSET OptionalKeys]]
    BY <1>7 DEF Drop, Return, NoArg, Typed
  <2>2. arg[t].ticket \in Tickets
    BY <1>7 DEF Drop, Typed, Owned
  <2>3. lost' \subseteq Tickets
    BY <1>7, <2>2 DEF Drop, Typed
  <2>4. Typed'
    BY <1>7, <2>1, <2>3 DEF Drop, Return, Typed
  <2>5. Owned'
    BY <1>7 DEF Drop, Return, Typed, Owned
  <2> QED
    BY <2>4, <2>5
<1> QED
  BY <1>1, <1>2, <1>3, <1>4, <1>5, <1>6, <1>7 DEF TaskStep

(* So does a step of provfs_stamp_worker(). *)
LEMMA ShapeWorker ==
  ASSUME Shape, NEW w \in Works, WorkerStep(w)
  PROVE  Shape'
<1> USE WorkAssumption DEF Shape, queueVars, callVars, itemVars, fileVars,
      historyVars, Tickets
<1>1. CASE StartWork(w)
  BY <1>1 DEF StartWork, Typed, Owned
<1>2. ASSUME NEW k \in Keys, WriteKey(w, k)
      PROVE  Shape'
  <2>1. xattr' \in [Files -> [Keys -> 0..MaxCloses]]
    BY <1>2 DEF WriteKey, AtKey, Typed, Owned
  <2>2. todo' \in [Works -> SUBSET Keys]
    BY <1>2 DEF WriteKey, Typed
  <2>3. Typed'
    BY <1>2, <2>1, <2>2 DEF WriteKey, Typed
  <2>4. Owned'
    BY <1>2 DEF WriteKey, Owned
  <2> QED
    BY <2>3, <2>4
<1>3. ASSUME NEW k \in Keys, WriteKeyFails(w, k)
      PROVE  Shape'
  BY <1>3 DEF WriteKeyFails, AtKey, Typed, Owned
<1>4. CASE Dput(w)
  <2>1. item[w].ticket \in Tickets
    BY <1>4 DEF Dput, Typed, Owned
  <2>2. attempted' \subseteq Tickets
    BY <1>4, <2>1 DEF Dput, Typed
  <2>3. Typed'
    BY <1>4, <2>2 DEF Dput, Typed, Owned
  <2>4. Owned'
    BY <1>4 DEF Dput, Typed, Owned
  <2> QED
    BY <2>3, <2>4
<1>5. CASE AtomicDec(w)
  BY <1>5 DEF AtomicDec, Typed, Owned
<1>6. CASE Kfree(w)
  BY <1>6 DEF Kfree, NoItem, Typed, Owned
<1> QED
  BY <1>1, <1>2, <1>3, <1>4, <1>5, <1>6 DEF WorkerStep

(* Every step preserves ranges and ownership. *)
LEMMA ShapeStep == Shape /\ [Next]_vars => Shape'
<1> SUFFICES ASSUME Shape, [Next]_vars
             PROVE  Shape'
  OBVIOUS
<1> USE WorkAssumption DEF queueVars, callVars, itemVars, fileVars, historyVars
<1>1. CASE WorkInit
  BY <1>1 DEF WorkInit, Shape, Typed, Owned
<1>2. CASE ExitBegin
  BY <1>2 DEF ExitBegin, Shape, Typed, Owned
<1>3. CASE ExitDone
  BY <1>3 DEF ExitDone, Shape, Typed, Owned
<1>4. ASSUME NEW v \in QueueMaxInputs, SetQueueMax(v)
      PROVE  Shape'
  BY <1>4 DEF SetQueueMax, Shape, Typed, Owned
<1>5. ASSUME NEW t \in Tasks, NEW f \in Files, NEW e \in Envs, Begin(t, f, e)
      PROVE  Shape'
  <2>1. Typed'
    BY <1>5 DEF Begin, Shape, Typed, Owned, Tickets
  <2>2. Owned'
    BY <1>5 DEF Begin, Shape, Typed, Owned
  <2> QED
    BY <2>1, <2>2 DEF Shape
<1>6. CASE UNCHANGED vars
  BY <1>6 DEF vars, Shape, Typed, Owned, Tickets
<1> QED
  BY <1>1, <1>2, <1>3, <1>4, <1>5, <1>6, ShapeTask, ShapeWorker
  DEF Next, AllSettled

(* The shape of every reachable state. *)
THEOREM ShapeInvariant == Spec => []Shape
  BY ShapeInit, ShapeStep, PTL DEF Spec

-----------------------------------------------------------------------------
(* Counting the items *)

(* The items queue_depth counts are finitely many. *)
LEMMA CountedFinite == IsFiniteSet(Counted)
  BY WorkAssumption, FS_Subset DEF Counted

(* So are the items that pin a dentry. *)
LEMMA HoldersFinite == \A f : IsFiniteSet(Holders(f))
<1> TAKE f
<1> QED
  BY WorkAssumption, FS_Subset DEF Holders

(* Every step keeps queue_depth equal to the number of counted items. *)
LEMMA DepthStep ==
  ASSUME Shape, DepthCountsWorks, [Next]_vars
  PROVE  DepthCountsWorks'
<1> USE DEF queueVars, callVars, itemVars, fileVars, historyVars
<1> USE CountedFinite
<1>1. ASSUME NEW t \in Tasks, AtomicInc(t)
      PROVE  DepthCountsWorks'
  <2>1. mine[t] \in Works \ Counted
    BY <1>1 DEF AtomicInc, Shape, Owned, Counted
  <2>2. Counted' = Counted \cup {mine[t]}
    BY <1>1, <2>1 DEF AtomicInc, Shape, Typed, Counted
  <2>3. depth' = depth + 1
    BY <1>1 DEF AtomicInc
  <2> QED
    BY <2>1, <2>2, <2>3, FS_AddElement DEF DepthCountsWorks
<1>2. ASSUME NEW w \in Works, AtomicDec(w)
      PROVE  DepthCountsWorks'
  <2>1. w \in Counted
    BY <1>2 DEF AtomicDec, Counted
  <2>2. Counted' = Counted \ {w}
    BY <1>2, <2>1 DEF AtomicDec, Shape, Typed, Counted
  <2>3. depth' = depth - 1
    BY <1>2 DEF AtomicDec
  <2> QED
    BY <2>1, <2>2, <2>3, FS_RemoveElement DEF DepthCountsWorks
<1>3. SUFFICES ASSUME \A t \in Tasks : ~AtomicInc(t),
                      \A w \in Works : ~AtomicDec(w)
               PROVE  depth' = depth /\ Counted' = Counted
  BY <1>1, <1>2 DEF DepthCountsWorks
<1>4. ASSUME NEW t \in Tasks, TaskStep(t)
      PROVE  depth' = depth /\ Counted' = Counted
  <2>1. CASE QueueWork(t)
    BY <2>1 DEF QueueWork, Shape, Typed, Owned, Counted
  <2>2. ASSUME NEW w \in Works, AllocOk(t, w)
        PROVE  depth' = depth /\ Counted' = Counted
    BY <2>2 DEF AllocOk, Shape, Typed, Counted
  <2>3. CASE ReadDepth(t) \/ Compare(t) \/ AllocFails(t) \/ Drop(t)
    BY <2>3 DEF ReadDepth, Compare, AllocFails, Drop, Counted
  <2> QED
    BY <1>3, <1>4, <2>1, <2>2, <2>3 DEF TaskStep
<1>5. ASSUME NEW w \in Works, WorkerStep(w)
      PROVE  depth' = depth /\ Counted' = Counted
  <2>1. CASE StartWork(w) \/ Dput(w) \/ Kfree(w)
    BY <2>1 DEF StartWork, Dput, Kfree, Shape, Typed, Counted
  <2>2. ASSUME NEW k \in Keys, WriteKey(w, k) \/ WriteKeyFails(w, k)
        PROVE  depth' = depth /\ Counted' = Counted
    BY <2>2 DEF WriteKey, WriteKeyFails, Counted
  <2> QED
    BY <1>3, <1>5, <2>1, <2>2 DEF WorkerStep
<1>6. CASE \/ WorkInit \/ ExitBegin \/ ExitDone \/ AllSettled
           \/ \E v \in QueueMaxInputs : SetQueueMax(v)
           \/ \E t \in Tasks, f \in Files, e \in Envs : Begin(t, f, e)
           \/ UNCHANGED vars
  BY <1>6 DEF WorkInit, ExitBegin, ExitDone, AllSettled, SetQueueMax, Begin,
              vars, Counted
<1> QED
  BY <1>4, <1>5, <1>6 DEF Next

(* queue_depth is exact in every reachable state. *)
THEOREM DepthExact == Spec => []DepthCountsWorks
<1>1. Init => DepthCountsWorks
  <2>1. Init => Counted = {} /\ depth = 0
    BY DEF Init, Counted
  <2> QED
    BY <2>1, FS_EmptySet DEF DepthCountsWorks
<1>2. Shape /\ DepthCountsWorks /\ [Next]_vars => DepthCountsWorks'
  BY DepthStep
<1> QED
  BY <1>1, <1>2, ShapeInvariant, PTL DEF Spec

(* Every step keeps each reference count equal to its holders. *)
LEMMA PinStep ==
  ASSUME Shape, DentryPinned, [Next]_vars
  PROVE  DentryPinned'
<1> USE DEF queueVars, callVars, itemVars, fileVars, historyVars
<1> SUFFICES ASSUME NEW f \in Files
             PROVE  refs'[f] = Cardinality(Holders(f)')
  BY DEF DentryPinned
<1>0. refs[f] = Cardinality(Holders(f)) /\ IsFiniteSet(Holders(f))
  BY HoldersFinite DEF DentryPinned
<1>1. ASSUME NEW t \in Tasks, NEW w \in Works, AllocOk(t, w)
      PROVE  refs'[f] = Cardinality(Holders(f)')
  <2>1. CASE arg[t].file = f
    <3>1. w \notin Holders(f)
      BY <1>1 DEF AllocOk, Holders
    <3>2. Holders(f)' = Holders(f) \cup {w}
      BY <1>1, <2>1 DEF AllocOk, Shape, Typed, Holders
    <3>3. refs'[f] = refs[f] + 1
      BY <1>1, <2>1 DEF AllocOk, Shape, Typed
    <3> QED
      BY <1>0, <3>1, <3>2, <3>3, FS_AddElement
  <2>2. CASE arg[t].file # f
    <3>1. Holders(f)' = Holders(f)
      BY <1>1, <2>2 DEF AllocOk, Shape, Typed, Holders
    <3>2. refs'[f] = refs[f]
      BY <1>1, <2>2 DEF AllocOk, Shape, Typed
    <3> QED
      BY <1>0, <3>1, <3>2
  <2> QED
    BY <2>1, <2>2
<1>2. ASSUME NEW w \in Works, Dput(w)
      PROVE  refs'[f] = Cardinality(Holders(f)')
  <2>1. CASE item[w].file = f
    <3>1. w \in Holders(f)
      BY <1>2, <2>1 DEF Dput, Holders
    <3>2. Holders(f)' = Holders(f) \ {w}
      BY <1>2 DEF Dput, Shape, Typed, Holders
    <3>3. refs'[f] = refs[f] - 1
      BY <1>2, <2>1 DEF Dput, Shape, Typed
    <3> QED
      BY <1>0, <3>1, <3>2, <3>3, FS_RemoveElement
  <2>2. CASE item[w].file # f
    <3>1. Holders(f)' = Holders(f)
      BY <1>2, <2>2 DEF Dput, Shape, Typed, Holders
    <3>2. refs'[f] = refs[f]
      BY <1>2, <2>2 DEF Dput, Shape, Typed
    <3> QED
      BY <1>0, <3>1, <3>2
  <2> QED
    BY <2>1, <2>2
<1>3. SUFFICES ASSUME \A t \in Tasks, w \in Works : ~AllocOk(t, w),
                      \A w \in Works : ~Dput(w)
               PROVE  refs' = refs /\ Holders(f)' = Holders(f)
  BY <1>0, <1>1, <1>2
<1>4. ASSUME NEW t \in Tasks, TaskStep(t)
      PROVE  refs' = refs /\ Holders(f)' = Holders(f)
  <2>1. CASE AtomicInc(t)
    BY <2>1 DEF AtomicInc, Shape, Typed, Owned, Holders
  <2>2. CASE QueueWork(t)
    BY <2>2 DEF QueueWork, Shape, Typed, Owned, Holders
  <2>3. CASE ReadDepth(t) \/ Compare(t) \/ AllocFails(t) \/ Drop(t)
    BY <2>3 DEF ReadDepth, Compare, AllocFails, Drop, Holders
  <2> QED
    BY <1>3, <1>4, <2>1, <2>2, <2>3 DEF TaskStep
<1>5. ASSUME NEW w \in Works, WorkerStep(w)
      PROVE  refs' = refs /\ Holders(f)' = Holders(f)
  <2>1. CASE StartWork(w) \/ AtomicDec(w) \/ Kfree(w)
    BY <2>1 DEF StartWork, AtomicDec, Kfree, Shape, Typed, Holders
  <2>2. ASSUME NEW k \in Keys, WriteKey(w, k) \/ WriteKeyFails(w, k)
        PROVE  refs' = refs /\ Holders(f)' = Holders(f)
    BY <2>2 DEF WriteKey, WriteKeyFails, Holders
  <2> QED
    BY <1>3, <1>5, <2>1, <2>2 DEF WorkerStep
<1>6. CASE \/ WorkInit \/ ExitBegin \/ ExitDone \/ AllSettled
           \/ \E v \in QueueMaxInputs : SetQueueMax(v)
           \/ \E t \in Tasks, g \in Files, e \in Envs : Begin(t, g, e)
           \/ UNCHANGED vars
  BY <1>6 DEF WorkInit, ExitBegin, ExitDone, AllSettled, SetQueueMax, Begin,
              vars, Holders
<1> QED
  BY <1>4, <1>5, <1>6 DEF Next

(* No dentry reference leaks or is put twice, in any reachable state. *)
THEOREM PinsExact == Spec => []DentryPinned
<1>1. Init => DentryPinned
  <2>1. Init => \A f \in Files : Holders(f) = {} /\ refs[f] = 0
    BY DEF Init, Holders
  <2> QED
    BY <2>1, FS_EmptySet DEF DentryPinned
<1>2. Shape /\ DentryPinned /\ [Next]_vars => DentryPinned'
  BY PinStep
<1> QED
  BY <1>1, <1>2, ShapeInvariant, PTL DEF Spec

SeenNat == \A t \in Tasks : seen[t] \in Nat

(* A counter that counts a finite set is never negative. *)
LEMMA DepthNat == DepthCountsWorks => depth \in Nat
  BY CountedFinite, FS_CardinalityType DEF DepthCountsWorks

(* A depth that was read was a natural number. *)
LEMMA SeenStep ==
  ASSUME Shape, DepthCountsWorks, SeenNat, [Next]_vars
  PROVE  SeenNat'
<1> USE DepthNat DEF queueVars, callVars, itemVars, fileVars, historyVars,
      SeenNat, Shape, Typed
<1>1. ASSUME NEW t \in Tasks, TaskStep(t)
      PROVE  SeenNat'
  BY <1>1 DEF TaskStep, ReadDepth, Compare, AllocOk, AllocFails, AtomicInc,
              QueueWork, Drop, Return
<1>2. ASSUME NEW w \in Works, WorkerStep(w)
      PROVE  SeenNat'
  BY <1>2 DEF WorkerStep, StartWork, WriteKey, WriteKeyFails, Dput, AtomicDec,
              Kfree
<1>3. CASE \/ WorkInit \/ ExitBegin \/ ExitDone \/ AllSettled
           \/ \E v \in QueueMaxInputs : SetQueueMax(v)
           \/ \E t \in Tasks, f \in Files, e \in Envs : Begin(t, f, e)
           \/ UNCHANGED vars
  BY <1>3 DEF WorkInit, ExitBegin, ExitDone, AllSettled, SetQueueMax, Begin,
              vars
<1> QED
  BY <1>1, <1>2, <1>3 DEF Next

(* Every variable keeps its range; no counter is ever negative. *)
THEOREM TypeCorrect == Spec => []TypeOK
<1>1. Init => SeenNat
  BY DEF Init, SeenNat
<1>2. Shape /\ DepthCountsWorks /\ SeenNat /\ [Next]_vars => SeenNat'
  BY SeenStep
<1>3. Shape /\ DepthCountsWorks /\ DentryPinned /\ SeenNat => TypeOK
  <2> SUFFICES ASSUME Shape, DepthCountsWorks, DentryPinned, SeenNat
               PROVE  TypeOK
    OBVIOUS
  <2>1. refs \in [Files -> Nat]
    BY HoldersFinite, FS_CardinalityType DEF DentryPinned, Shape, Typed
  <2>2. seen \in [Tasks -> Nat]
    BY DEF SeenNat, Shape, Typed
  <2> QED
    BY <2>1, <2>2, DepthNat DEF TypeOK, Shape, Typed
<1> QED
  BY <1>1, <1>2, <1>3, ShapeInvariant, DepthExact, PinsExact, PTL DEF Spec

-----------------------------------------------------------------------------
(* Racing enqueuers *)

(* The calls that are past the bound check, or will pass it with the depth *)
(* they have read, when queue_max is m.                                    *)
Admitted(m) ==
  {t \in Tasks : \/ pc[t] \in {"alloc", "inc"}
                 \/ pc[t] = "cmp" /\ seen[t] < m}

(* OverAdmitBounded counting the calls under way, and for every value that *)
(* queue_max may still be raised to: a depth read before a raise is        *)
(* compared with the raised bound.                                         *)
Admission ==
  \A m \in peak..QUEUE_MAX_MAX :
    depth + Cardinality(Admitted(m)) <= m - 1 + Cardinality(Tasks)

(* The calls that were let in are finitely many. *)
LEMMA AdmittedFinite ==
  \A m : /\ IsFiniteSet(Admitted(m)) /\ Cardinality(Admitted(m)) \in Nat
         /\ Cardinality(Tasks) \in Nat
<1> TAKE m
<1>1. Admitted(m) \in SUBSET Tasks
  BY DEF Admitted
<1> QED
  BY <1>1, WorkAssumption, FS_Subset, FS_CardinalityType

(* Calls may leave the set of the admitted ones, or the depth sink. *)
LEMMA AdmissionShrinks ==
  ASSUME Shape, Admission, Typed', peak' >= peak,
         depth' <= depth,
         \A m \in peak'..QUEUE_MAX_MAX : Admitted(m)' \subseteq Admitted(m)
  PROVE  Admission'
<1> SUFFICES ASSUME NEW m \in peak'..QUEUE_MAX_MAX
             PROVE  depth' + Cardinality(Admitted(m)') <= m - 1 + Cardinality(Tasks)
  BY DEF Admission
<1>1. m \in peak..QUEUE_MAX_MAX
  BY WorkAssumption DEF Shape, Typed
<1>2. /\ Cardinality(Admitted(m)') \in Nat
      /\ Cardinality(Admitted(m)') <= Cardinality(Admitted(m))
  BY AdmittedFinite, FS_Subset, FS_CardinalityType
<1>3. depth + Cardinality(Admitted(m)) <= m - 1 + Cardinality(Tasks)
  BY <1>1 DEF Admission
<1>4. depth \in Int /\ depth' \in Int /\ m \in Int
  BY <1>1, WorkAssumption DEF Shape, Typed
<1> QED
  BY <1>2, <1>3, <1>4, AdmittedFinite

(* Every step keeps the number let in within the bound. *)
LEMMA AdmissionStep ==
  ASSUME Shape, Shape', Admission, [Next]_vars
  PROVE  Admission'
<1> USE DEF queueVars, callVars, itemVars, fileVars, historyVars
<1>1. ASSUME NEW t \in Tasks, ReadDepth(t)
      PROVE  Admission'
  <2> SUFFICES ASSUME NEW m \in peak..QUEUE_MAX_MAX
               PROVE  depth + Cardinality(Admitted(m)')
                        <= m - 1 + Cardinality(Tasks)
    BY <1>1 DEF ReadDepth, Admission
  <2>1. depth + Cardinality(Admitted(m)) <= m - 1 + Cardinality(Tasks)
    BY DEF Admission
  <2>2. depth \in Int /\ m \in Int
    BY WorkAssumption DEF Shape, Typed
  <2>3. t \notin Admitted(m)
    BY <1>1 DEF ReadDepth, Admitted
  <2>4. CASE depth < m
    <3>1. Admitted(m)' = Admitted(m) \cup {t}
      BY <1>1, <2>4 DEF ReadDepth, Admitted, Shape, Typed
    <3>2. Cardinality(Admitted(m)') = Cardinality(Admitted(m)) + 1
      BY <2>3, <3>1, AdmittedFinite, FS_AddElement
    <3>3. Admitted(m)' \in SUBSET Tasks
      BY <3>1 DEF Admitted
    <3>4. Cardinality(Admitted(m)') <= Cardinality(Tasks)
      BY <3>3, WorkAssumption, FS_Subset
    <3> QED
      BY <2>2, <2>4, <3>2, <3>4, AdmittedFinite
  <2>5. CASE ~(depth < m)
    <3>1. Admitted(m)' = Admitted(m)
      BY <1>1, <2>5 DEF ReadDepth, Admitted, Shape, Typed
    <3> QED
      BY <2>1, <3>1
  <2> QED
    BY <2>4, <2>5
<1>2. ASSUME NEW t \in Tasks, AtomicInc(t)
      PROVE  Admission'
  <2> SUFFICES ASSUME NEW m \in peak..QUEUE_MAX_MAX
               PROVE  depth' + Cardinality(Admitted(m)')
                        <= m - 1 + Cardinality(Tasks)
    BY <1>2 DEF AtomicInc, Admission
  <2>1. depth + Cardinality(Admitted(m)) <= m - 1 + Cardinality(Tasks)
    BY DEF Admission
  <2>2. depth \in Int /\ m \in Int /\ depth' = depth + 1
    BY <1>2, WorkAssumption DEF Shape, Typed, AtomicInc
  <2>3. t \in Admitted(m) /\ Admitted(m)' = Admitted(m) \ {t}
    BY <1>2 DEF AtomicInc, Admitted, Shape, Typed
  <2>4. Cardinality(Admitted(m)') = Cardinality(Admitted(m)) - 1
    BY <2>3, AdmittedFinite, FS_RemoveElement
  <2> QED
    BY <2>1, <2>2, <2>4, AdmittedFinite
<1>3. ASSUME NEW t \in Tasks, Compare(t)
      PROVE  Admission'
  <2>1. ASSUME NEW m \in peak'..QUEUE_MAX_MAX
        PROVE  Admitted(m)' \subseteq Admitted(m)
    <3>1. m \in Int /\ queueMax \in Int /\ queueMax <= m /\ seen[t] \in Int
      BY <1>3, WorkAssumption DEF Compare, Shape, Typed
    <3> QED
      BY <1>3, <3>1 DEF Compare, Admitted, Shape, Typed
  <2>2. peak' = peak /\ depth' = depth /\ Typed' /\ depth \in Int /\ peak \in Int
    BY <1>3, WorkAssumption DEF Compare, Shape, Typed
  <2> QED
    BY <2>1, <2>2, AdmissionShrinks
<1>4. ASSUME NEW t \in Tasks,
             \/ \E w \in Works : AllocOk(t, w)
             \/ AllocFails(t) \/ QueueWork(t) \/ Drop(t)
      PROVE  Admission'
  <2>1. \A m : Admitted(m)' \subseteq Admitted(m)
    BY <1>4 DEF AllocOk, AllocFails, QueueWork, Drop, Return, Admitted, Shape,
                Typed
  <2>2. peak' = peak /\ depth' = depth
    BY <1>4 DEF AllocOk, AllocFails, QueueWork, Drop
  <2>3. Typed' /\ depth \in Int /\ peak \in Int
    BY WorkAssumption DEF Shape, Typed
  <2> QED
    BY <2>1, <2>2, <2>3, AdmissionShrinks
<1>5. ASSUME NEW w \in Works, WorkerStep(w)
      PROVE  Admission'
  <2>1. \A m : Admitted(m)' = Admitted(m)
    BY <1>5 DEF WorkerStep, StartWork, WriteKey, WriteKeyFails, Dput,
                AtomicDec, Kfree, Admitted
  <2>2. depth \in Int /\ peak \in Int /\ Typed'
    BY WorkAssumption DEF Shape, Typed
  <2>3. peak' = peak /\ (depth' = depth \/ depth' = depth - 1)
    BY <1>5 DEF WorkerStep, StartWork, WriteKey, WriteKeyFails, Dput,
                AtomicDec, Kfree
  <2> QED
    BY <2>1, <2>2, <2>3, AdmissionShrinks
<1>6. CASE \/ WorkInit \/ ExitBegin \/ ExitDone \/ AllSettled
           \/ \E v \in QueueMaxInputs : SetQueueMax(v)
           \/ \E t \in Tasks, f \in Files, e \in Envs : Begin(t, f, e)
           \/ UNCHANGED vars
  <2>1. \A m : Admitted(m)' \subseteq Admitted(m)
    <3>1. ASSUME NEW t \in Tasks, NEW f \in Files, NEW e \in Envs, Begin(t, f, e)
          PROVE  \A m : Admitted(m)' \subseteq Admitted(m)
      BY <3>1 DEF Begin, Admitted, Shape, Typed
    <3>2. CASE UNCHANGED <<pc, seen>>
      BY <3>2 DEF Admitted
    <3> QED
      BY <1>6, <3>1, <3>2 DEF WorkInit, ExitBegin, ExitDone, AllSettled,
                              SetQueueMax, vars
  <2>2. depth \in Int /\ peak \in Int /\ Typed' /\ QueueMaxInputs \subseteq Int
    BY WorkAssumption DEF Shape, Typed
  <2>3. peak' >= peak /\ depth' = depth
    BY <1>6, <2>2 DEF WorkInit, ExitBegin, ExitDone, AllSettled, SetQueueMax,
                      Begin, vars
  <2> QED
    BY <2>1, <2>2, <2>3, AdmissionShrinks
<1> QED
  BY <1>1, <1>2, <1>3, <1>4, <1>5, <1>6 DEF Next, TaskStep

(* However many calls race past the bound check, and however queue_max is  *)
(* tuned meanwhile, the depth exceeds the largest queue_max ever in force  *)
(* by less than the number of tasks.                                       *)
THEOREM OverAdmission == Spec => []OverAdmitBounded
<1>1. Init => Admission
  <2> SUFFICES ASSUME Init, NEW m \in peak..QUEUE_MAX_MAX
               PROVE  depth + Cardinality(Admitted(m))
                        <= m - 1 + Cardinality(Tasks)
    BY DEF Admission
  <2>1. Admitted(m) = {} /\ depth = 0
    BY DEF Init, Admitted
  <2>2. m \in Int /\ m >= 1
    BY WorkAssumption DEF Init
  <2> QED
    BY <2>1, <2>2, FS_EmptySet, AdmittedFinite
<1>2. Shape /\ Shape' /\ Admission /\ [Next]_vars => Admission'
  BY AdmissionStep
<1>3. Shape /\ Admission => OverAdmitBounded
  <2> SUFFICES ASSUME Shape, Admission
               PROVE  OverAdmitBounded
    OBVIOUS
  <2>1. peak \in peak..QUEUE_MAX_MAX /\ peak \in Int /\ depth \in Int
    BY WorkAssumption DEF Shape, Typed
  <2>2. depth + Cardinality(Admitted(peak)) <= peak - 1 + Cardinality(Tasks)
    BY <2>1 DEF Admission
  <2> QED
    BY <2>1, <2>2, AdmittedFinite DEF OverAdmitBounded
<1> QED
  BY <1>1, <1>2, <1>3, ShapeInvariant, PTL DEF Spec

-----------------------------------------------------------------------------
(* What becomes of a ticket *)

(* Calls that have not handed their ticket to an item, and items that have *)
(* not finished with theirs.                                               *)
Holding == {t \in Tasks : pc[t] \in {"read", "cmp", "alloc", "drop"}}
Carrying ==
  {w \in Works : stage[w] \in {"filled", "counted", "pending", "running"}}

(* A ticket is held by one call or carried by one item until it is lost or *)
(* attempted; only a carried or attempted one can be in an xattr.          *)
Ledger ==
  /\ lost \subseteq 1..closes /\ attempted \subseteq 1..closes
  /\ \A f \in Files, k \in Keys : xattr[f][k] \in 0..closes
  /\ \A t \in Holding : arg[t].ticket \notin lost \cup attempted
  /\ \A w \in Carrying : item[w].ticket \notin lost \cup attempted
  /\ \A s, t \in Holding : arg[s].ticket = arg[t].ticket => s = t
  /\ \A v, w \in Carrying : item[v].ticket = item[w].ticket => v = w
  /\ \A t \in Holding, w \in Carrying : arg[t].ticket # item[w].ticket
  /\ \A t \in Holding, f \in Files, k \in Keys : xattr[f][k] # arg[t].ticket
  /\ \A f \in Files, k \in Keys : xattr[f][k] \notin lost
  /\ lost \cap attempted = {}

(* Steps that pass no ticket on. *)
LEMMA LedgerKept ==
  ASSUME Ledger, Holding' \subseteq Holding, Carrying' \subseteq Carrying,
         \A t \in Holding' : arg'[t] = arg[t],
         \A w \in Carrying' : item'[w] = item[w],
         UNCHANGED <<xattr, closes, lost, attempted>>
  PROVE  Ledger'
  BY DEF Ledger

(* Every step keeps each ticket in one place: call, item, lost, attempted. *)
LEMMA LedgerStep ==
  ASSUME Shape, Ledger, [Next]_vars
  PROVE  Ledger'
<1> USE DEF queueVars, callVars, itemVars, fileVars, historyVars
<1>1. ASSUME NEW t \in Tasks, NEW f \in Files, NEW e \in Envs, Begin(t, f, e)
      PROVE  Ledger'
  <2>1. /\ Holding' = Holding \cup {t} /\ Carrying' = Carrying /\ t \notin Holding
        /\ arg'[t].ticket = closes + 1 /\ closes' = closes + 1 /\ closes \in Nat
        /\ \A s \in Holding : arg'[s] = arg[s]
        /\ UNCHANGED <<item, xattr, lost, attempted>>
    BY <1>1, WorkAssumption
    DEF Begin, Shape, Typed, Holding, Carrying
  <2>2. /\ \A s \in Holding : arg[s].ticket \in 1..closes
        /\ \A w \in Carrying : item[w].ticket \in 1..closes
    BY DEF Shape, Owned, Holding, Carrying
  <2> QED
    BY <2>1, <2>2 DEF Ledger
<1>2. ASSUME NEW t \in Tasks, NEW w \in Works, AllocOk(t, w)
      PROVE  Ledger'
  <2>1. /\ Holding' = Holding \ {t} /\ Carrying' = Carrying \cup {w}
        /\ t \in Holding /\ w \notin Carrying
        /\ item'[w].ticket = arg[t].ticket
        /\ \A v \in Carrying : item'[v] = item[v]
        /\ UNCHANGED <<arg, closes, xattr, lost, attempted>>
    BY <1>2 DEF AllocOk, Shape, Typed, Holding, Carrying
  <2> QED
    BY <2>1 DEF Ledger
<1>3. ASSUME NEW t \in Tasks, Drop(t)
      PROVE  Ledger'
  <2>1. /\ Holding' = Holding \ {t} /\ Carrying' = Carrying /\ t \in Holding
        /\ lost' = lost \cup {arg[t].ticket}
        /\ arg[t].ticket \in 1..closes
        /\ \A s \in Holding \ {t} : arg'[s] = arg[s]
        /\ UNCHANGED <<item, closes, xattr, attempted>>
    BY <1>3 DEF Drop, Return, Shape, Typed, Owned, Holding, Carrying
  <2> DEFINE x == arg[t].ticket
  <2>2. /\ x \notin attempted
        /\ \A s \in Holding' : arg'[s].ticket # x
        /\ \A w \in Carrying : item[w].ticket # x
        /\ \A f \in Files, k \in Keys : xattr[f][k] # x
    BY <2>1 DEF Ledger
  <2>3. lost' = lost \cup {x} /\ x \in 1..closes
    BY <2>1
  <2> HIDE DEF x
  <2>4. /\ \A s \in Holding' : arg'[s].ticket \notin lost' \cup attempted'
        /\ \A w \in Carrying' : item'[w].ticket \notin lost' \cup attempted'
        /\ \A f \in Files, k \in Keys : xattr'[f][k] \notin lost'
        /\ lost' \cap attempted' = {}
        /\ lost' \subseteq 1..closes
    BY <2>1, <2>2, <2>3 DEF Ledger
  <2> QED
    BY <2>1, <2>4 DEF Ledger
<1>4. ASSUME NEW w \in Works, NEW k \in Keys, WriteKey(w, k)
      PROVE  Ledger'
  <2> DEFINE x == item[w].ticket
  <2>1. /\ Holding' = Holding /\ Carrying' = Carrying /\ w \in Carrying
        /\ x \in 1..closes
        /\ UNCHANGED <<arg, item, closes, lost, attempted>>
    BY <1>4 DEF WriteKey, AtKey, Shape, Owned, Holding, Carrying
  <2>2. \A f \in Files, j \in Keys : xattr'[f][j] \in {xattr[f][j], x}
    BY <1>4 DEF WriteKey, Shape, Typed
  <2> HIDE DEF x
  <2>3. x \notin lost /\ \A t \in Holding : x # arg[t].ticket
    BY <2>1 DEF Ledger, x
  <2> QED
    BY <2>1, <2>2, <2>3 DEF Ledger
<1>5. ASSUME NEW w \in Works, Dput(w)
      PROVE  Ledger'
  <2>1. /\ Holding' = Holding /\ Carrying' = Carrying \ {w} /\ w \in Carrying
        /\ attempted' = attempted \cup {item[w].ticket}
        /\ item[w].ticket \in 1..closes
        /\ UNCHANGED <<arg, item, closes, xattr, lost>>
    BY <1>5 DEF Dput, Shape, Typed, Owned, Holding, Carrying
  <2> QED
    BY <2>1 DEF Ledger
<1>6. ASSUME NEW t \in Tasks,
             ReadDepth(t) \/ Compare(t) \/ AllocFails(t) \/ AtomicInc(t)
      PROVE  Ledger'
  <2>1. /\ Holding' = Holding /\ Carrying' = Carrying
        /\ UNCHANGED <<arg, item, xattr, closes, lost, attempted>>
    BY <1>6 DEF ReadDepth, Compare, AllocFails, AtomicInc, Shape, Typed, Owned,
                Holding, Carrying
  <2> QED
    BY <2>1, LedgerKept
<1>7. ASSUME NEW t \in Tasks, QueueWork(t)
      PROVE  Ledger'
  <2>1. /\ Holding' = Holding /\ Carrying' = Carrying
        /\ \A s \in Holding : arg'[s] = arg[s]
        /\ UNCHANGED <<item, xattr, closes, lost, attempted>>
    BY <1>7 DEF QueueWork, Return, Shape, Typed, Owned, Holding, Carrying
  <2> QED
    BY <2>1, LedgerKept
<1>8. ASSUME NEW w \in Works, StartWork(w) \/ AtomicDec(w) \/ Kfree(w)
      PROVE  Ledger'
  <2>1. /\ Holding' = Holding /\ Carrying' = Carrying
        /\ \A v \in Carrying : item'[v] = item[v]
        /\ UNCHANGED <<arg, xattr, closes, lost, attempted>>
    BY <1>8 DEF StartWork, AtomicDec, Kfree, Shape, Typed, Holding, Carrying
  <2> QED
    BY <2>1, LedgerKept
<1>9. ASSUME NEW w \in Works, NEW k \in Keys, WriteKeyFails(w, k)
      PROVE  Ledger'
  <2>1. /\ Holding' = Holding /\ Carrying' = Carrying
        /\ UNCHANGED <<arg, item, xattr, closes, lost, attempted>>
    BY <1>9 DEF WriteKeyFails, Holding, Carrying
  <2> QED
    BY <2>1, LedgerKept
<1>10. CASE \/ WorkInit \/ ExitBegin \/ ExitDone \/ AllSettled
            \/ \E v \in QueueMaxInputs : SetQueueMax(v)
            \/ UNCHANGED vars
  <2>1. /\ Holding' = Holding /\ Carrying' = Carrying
        /\ UNCHANGED <<arg, item, xattr, closes, lost, attempted>>
    BY <1>10 DEF WorkInit, ExitBegin, ExitDone, AllSettled, SetQueueMax, vars,
                 Holding, Carrying
  <2> QED
    BY <2>1, LedgerKept
<1> QED
  BY <1>1, <1>2, <1>3, <1>4, <1>5, <1>6, <1>7, <1>8, <1>9, <1>10
  DEF Next, TaskStep, WorkerStep

(* The ledger of tickets balances throughout. *)
LEMMA LedgerInvariant == Spec => []Ledger
<1>1. Init => Ledger
  BY WorkAssumption DEF Init, Ledger, Holding, Carrying
<1>2. Shape /\ Ledger /\ [Next]_vars => Ledger'
  BY LedgerStep
<1> QED
  BY <1>1, <1>2, ShapeInvariant, PTL DEF Spec

(* A dropped close is never stamped, not even in part. *)
THEOREM DropsAreClean == Spec => []DroppedLeaveNoTrace
<1>1. Ledger => DroppedLeaveNoTrace
  BY DEF Ledger, DroppedLeaveNoTrace
<1> QED
  BY <1>1, LedgerInvariant, PTL

(* The queue implements the safety part of BestEffort: each close handed   *)
(* over is settled at most once, by one counted drop or by one attempt.    *)
THEOREM ImplementsBestEffort == Spec => BE!SafeSpec
<1>1. Init => BE!Init
  BY DEF Init, BE!Init
<1>2. Shape /\ Ledger /\ [Next]_vars => [BE!Next]_(BE!vars)
  <2> SUFFICES ASSUME Shape, Ledger, [Next]_vars
               PROVE  BE!Next \/ UNCHANGED <<closes, lost, attempted, dropped>>
    BY DEF BE!vars
  <2> USE DEF queueVars, callVars, itemVars, fileVars, historyVars
  <2>1. ASSUME NEW t \in Tasks, NEW f \in Files, NEW e \in Envs, Begin(t, f, e)
        PROVE  BE!Next
    BY <2>1 DEF Begin, BE!Next, BE!Issue
  <2>2. ASSUME NEW t \in Tasks, Drop(t)
        PROVE  BE!Next
    <3> DEFINE x == arg[t].ticket
    <3>1. t \in Holding /\ x \in 1..closes /\ closes <= MaxCloses
      BY <2>2 DEF Drop, Holding, Shape, Typed, Owned
    <3>2. x \notin lost \cup attempted
      BY <3>1 DEF Ledger
    <3>3. x \in BE!Unsettled /\ x \in 1..MaxCloses
      BY <3>1, <3>2, WorkAssumption DEF BE!Unsettled, Shape, Typed
    <3>4. BE!Lose(x)
      BY <2>2, <3>3 DEF Drop, BE!Lose
    <3> QED
      BY <3>3, <3>4 DEF BE!Next, BE!Settle
  <2>3. ASSUME NEW w \in Works, Dput(w)
        PROVE  BE!Next
    <3> DEFINE x == item[w].ticket
    <3>1. w \in Carrying /\ x \in 1..closes /\ closes <= MaxCloses
      BY <2>3 DEF Dput, Carrying, Shape, Typed, Owned
    <3>2. x \notin lost \cup attempted
      BY <3>1 DEF Ledger
    <3>3. x \in BE!Unsettled /\ x \in 1..MaxCloses
      BY <3>1, <3>2, WorkAssumption DEF BE!Unsettled, Shape, Typed
    <3>4. BE!Attempt(x)
      BY <2>3, <3>3 DEF Dput, BE!Attempt
    <3> QED
      BY <3>3, <3>4 DEF BE!Next, BE!Settle
  <2>4. ASSUME NEW t \in Tasks, TaskStep(t), ~Drop(t)
        PROVE  UNCHANGED <<closes, lost, attempted, dropped>>
    BY <2>4 DEF TaskStep, ReadDepth, Compare, AllocOk, AllocFails, AtomicInc,
                QueueWork
  <2>5. ASSUME NEW w \in Works, WorkerStep(w), ~Dput(w)
        PROVE  UNCHANGED <<closes, lost, attempted, dropped>>
    BY <2>5 DEF WorkerStep, StartWork, WriteKey, WriteKeyFails, AtomicDec, Kfree
  <2>6. CASE \/ WorkInit \/ ExitBegin \/ ExitDone \/ AllSettled
             \/ \E v \in QueueMaxInputs : SetQueueMax(v)
             \/ UNCHANGED vars
    BY <2>6 DEF WorkInit, ExitBegin, ExitDone, AllSettled, SetQueueMax, vars
  <2> QED
    BY <2>1, <2>2, <2>3, <2>4, <2>5, <2>6 DEF Next
<1> QED
  BY <1>1, <1>2, ShapeInvariant, LedgerInvariant, PTL DEF Spec, BE!SafeSpec

-----------------------------------------------------------------------------
(* Admission on an empty queue *)

(* No tuning of queue_max makes the bound drop a close that has read an    *)
(* empty queue.                                                            *)
THEOREM EmptyQueueIsOpen == Spec => EmptyQueueAdmits
<1> DEFINE A == \A t \in Tasks :
                  pc[t] = "cmp" /\ seen[t] = 0 => pc'[t] # "drop"
<1>1. Shape /\ [Next]_vars => [A]_vars
  <2> SUFFICES ASSUME Shape, Next, NEW t \in Tasks, pc[t] = "cmp", seen[t] = 0
               PROVE  pc'[t] # "drop"
    OBVIOUS
  <2> USE DEF queueVars, callVars, itemVars, fileVars, historyVars
  <2>1. ASSUME NEW s \in Tasks, TaskStep(s)
        PROVE  pc'[t] # "drop"
    <3>1. CASE s = t
      <4>1. Compare(t)
        BY <2>1, <3>1 DEF TaskStep, ReadDepth, AllocOk, AllocFails, AtomicInc,
                          QueueWork, Drop
      <4>2. ~(seen[t] >= queueMax)
        BY WorkAssumption DEF Shape, Typed
      <4> QED
        BY <4>1, <4>2 DEF Compare, Shape, Typed
    <3>2. CASE s # t
      BY <2>1, <3>2 DEF TaskStep, ReadDepth, Compare, AllocOk, AllocFails,
         AtomicInc, QueueWork, Drop, Return, Shape, Typed
    <3> QED
      BY <3>1, <3>2
  <2>2. ASSUME NEW s \in Tasks, NEW f \in Files, NEW e \in Envs, Begin(s, f, e)
        PROVE  pc'[t] # "drop"
    BY <2>2 DEF Begin, Shape, Typed
  <2>3. ASSUME NEW w \in Works, WorkerStep(w)
        PROVE  pc'[t] # "drop"
    BY <2>3 DEF WorkerStep, StartWork, WriteKey, WriteKeyFails, Dput,
                AtomicDec, Kfree
  <2>4. CASE \/ WorkInit \/ ExitBegin \/ ExitDone \/ AllSettled
             \/ \E v \in QueueMaxInputs : SetQueueMax(v)
    BY <2>4 DEF WorkInit, ExitBegin, ExitDone, AllSettled, SetQueueMax, vars
  <2> QED
    BY <2>1, <2>2, <2>3, <2>4 DEF Next
<1> QED
  BY <1>1, ShapeInvariant, PTL DEF Spec, EmptyQueueAdmits

-----------------------------------------------------------------------------
(* The record of a file at rest *)

(* An item that has not run has both mandatory keys to write; a file whose *)
(* items neither overlapped nor failed has at most one outstanding item,   *)
(* the latest, and the keys that one is done with are the latest too.      *)
Settling ==
  /\ \A w \in Works : stage[w] \in {"filled", "counted", "pending"}
       => MandatoryKeys \subseteq todo[w]
  /\ \A f \in Files \ (overlapped \cup failed) :
       /\ \A v, w \in Outstanding(f) : v = w
       /\ \A w \in Outstanding(f) : item[w].ticket = latest[f]
       /\ \A k \in MandatoryKeys :
            (\A w \in Outstanding(f) : k \notin todo[w])
              => xattr[f][k] = latest[f]

(* Steps that leave the workqueue's items alone. *)
LEMMA SettlingKept ==
  ASSUME Settling, \A f \in Files : Outstanding(f)' = Outstanding(f),
         \A w \in Works : stage'[w] \in {"filled", "counted", "pending"}
           => MandatoryKeys \subseteq todo'[w],
         \A f \in Files : \A w \in Outstanding(f) :
           todo'[w] = todo[w] /\ item'[w] = item[w],
         UNCHANGED <<xattr, latest, overlapped>>, failed \subseteq failed'
  PROVE  Settling'
  BY DEF Settling

(* Every step keeps the record of an undisturbed file on course. *)
LEMMA SettlingStep ==
  ASSUME Shape, Settling, [Next]_vars
  PROVE  Settling'
<1> USE DEF queueVars, callVars, itemVars, fileVars, historyVars
<1>1. ASSUME NEW t \in Tasks, NEW w \in Works, AllocOk(t, w)
      PROVE  Settling'
  <2>1. /\ todo'[w] = MandatoryKeys \cup arg[t].env /\ stage[w] = "free"
        /\ stage'[w] = "filled"
        /\ \A v \in Works \ {w} : /\ stage'[v] = stage[v] /\ todo'[v] = todo[v]
                                  /\ item'[v] = item[v]
        /\ UNCHANGED <<xattr, latest, overlapped, failed>>
    BY <1>1 DEF AllocOk, Shape, Typed
  <2>2. \A f \in Files : Outstanding(f)' = Outstanding(f) /\ w \notin Outstanding(f)
    BY <2>1 DEF Outstanding
  <2>3. \A v \in Works : stage'[v] \in {"filled", "counted", "pending"}
           => MandatoryKeys \subseteq todo'[v]
    BY <2>1 DEF Settling
  <2>4. \A f \in Files : \A v \in Outstanding(f) :
          todo'[v] = todo[v] /\ item'[v] = item[v]
    BY <2>1, <2>2 DEF Outstanding
  <2> QED
    BY <2>1, <2>2, <2>3, <2>4, SettlingKept
<1>2. ASSUME NEW t \in Tasks, AtomicInc(t)
      PROVE  Settling'
  <2>1. /\ mine[t] \in Works /\ stage[mine[t]] = "filled"
        /\ stage' = [stage EXCEPT ![mine[t]] = "counted"]
        /\ UNCHANGED <<item, todo, xattr, latest, overlapped, failed>>
    BY <1>2 DEF AtomicInc, Shape, Owned
  <2>2. \A f \in Files : Outstanding(f)' = Outstanding(f)
    BY <2>1 DEF Outstanding, Shape, Typed
  <2>3. \A v \in Works : stage'[v] \in {"filled", "counted", "pending"}
           => MandatoryKeys \subseteq todo'[v]
    BY <2>1 DEF Settling, Shape, Typed
  <2> QED
    BY <2>1, <2>2, <2>3, SettlingKept
<1>3. ASSUME NEW t \in Tasks, QueueWork(t)
      PROVE  Settling'
  <2> DEFINE w == mine[t]
             g == item[w].file
  <2>1. /\ w \in Works /\ stage[w] = "counted" /\ g \in Files
        /\ stage' = [stage EXCEPT ![w] = "pending"]
        /\ latest' = [latest EXCEPT ![g] = item[w].ticket]
        /\ overlapped' = IF Outstanding(g) # {} THEN overlapped \cup {g}
                                                ELSE overlapped \ {g}
        /\ failed' = IF Outstanding(g) # {} THEN failed ELSE failed \ {g}
        /\ UNCHANGED <<item, todo, xattr>>
    BY <1>3 DEF QueueWork, Enlist, Shape, Owned
  <2> HIDE DEF w, g
  <2>2. \A v \in Works : stage'[v] \in {"filled", "counted", "pending"}
           => MandatoryKeys \subseteq todo'[v]
    BY <2>1 DEF Settling, Shape, Typed
  <2>3. ASSUME NEW f \in Files \ (overlapped' \cup failed')
        PROVE  /\ \A u, v \in Outstanding(f)' : u = v
               /\ \A v \in Outstanding(f)' : item'[v].ticket = latest'[f]
               /\ \A k \in MandatoryKeys :
                    (\A v \in Outstanding(f)' : k \notin todo'[v])
                      => xattr'[f][k] = latest'[f]
    <3>1. CASE f = g
      <4>1. Outstanding(g) = {}
        BY <2>1, <2>3, <3>1
      <4>2. Outstanding(f)' = {w}
        BY <2>1, <3>1, <4>1 DEF Outstanding, Shape, Typed, g
      <4>3. latest'[f] = item[w].ticket /\ MandatoryKeys \subseteq todo'[w]
        BY <2>1, <2>2, <3>1 DEF Shape, Typed
      <4> QED
        BY <2>1, <4>2, <4>3
    <3>2. CASE f # g
      <4>1. Outstanding(f)' = Outstanding(f)
        BY <2>1, <3>2 DEF Outstanding, Shape, Typed, g
      <4>2. latest'[f] = latest[f] /\ f \in Files \ (overlapped \cup failed)
        BY <2>1, <2>3, <3>2 DEF Shape, Typed
      <4> QED
        BY <2>1, <4>1, <4>2 DEF Settling
    <3> QED
      BY <3>1, <3>2
  <2> QED
    BY <2>2, <2>3 DEF Settling
<1>4. ASSUME NEW w \in Works, StartWork(w)
      PROVE  Settling'
  <2>1. /\ stage[w] = "pending" /\ stage' = [stage EXCEPT ![w] = "running"]
        /\ UNCHANGED <<item, todo, xattr, latest, overlapped, failed>>
    BY <1>4 DEF StartWork
  <2>2. \A f \in Files : Outstanding(f)' = Outstanding(f)
    BY <2>1 DEF Outstanding, Shape, Typed
  <2>3. \A v \in Works : stage'[v] \in {"filled", "counted", "pending"}
           => MandatoryKeys \subseteq todo'[v]
    BY <2>1 DEF Settling, Shape, Typed
  <2> QED
    BY <2>1, <2>2, <2>3, SettlingKept
<1>5. ASSUME NEW w \in Works, NEW k \in Keys, WriteKey(w, k)
      PROVE  Settling'
  <2> DEFINE g == item[w].file
  <2>1. /\ stage[w] = "running" /\ g \in Files /\ w \in Outstanding(g)
        /\ xattr' = [xattr EXCEPT ![g][k] = item[w].ticket]
        /\ todo' = [todo EXCEPT ![w] = @ \ {k}]
        /\ UNCHANGED <<stage, item, latest, overlapped, failed>>
    BY <1>5 DEF WriteKey, AtKey, Shape, Owned, Outstanding
  <2>2. \A v \in Works : stage'[v] \in {"filled", "counted", "pending"}
           => MandatoryKeys \subseteq todo'[v]
    BY <2>1 DEF Settling, Shape, Typed
  <2> HIDE DEF g
  <2>3. \A f \in Files : Outstanding(f)' = Outstanding(f)
    BY <2>1 DEF Outstanding
  <2>4. ASSUME NEW f \in Files \ (overlapped \cup failed), NEW j \in MandatoryKeys,
               \A v \in Outstanding(f) : j \notin todo'[v]
        PROVE  xattr'[f][j] = latest[f]
    <3>1. CASE f = g /\ j = k
      <4>1. item[w].ticket = latest[f]
        BY <2>1, <3>1 DEF Settling
      <4> QED
        BY <2>1, <3>1, <4>1 DEF Shape, Typed
    <3>2. CASE f = g /\ j # k
      <4>1. \A v \in Outstanding(f) : j \notin todo[v]
        BY <2>1, <2>4, <3>2 DEF Outstanding, Shape, Typed
      <4>2. xattr[f][j] = latest[f]
        BY <4>1 DEF Settling
      <4>3. j \in Keys
        BY DEF Keys
      <4> QED
        BY <2>1, <3>2, <4>2, <4>3 DEF Shape, Typed
    <3>3. CASE f # g
      <4>1. w \notin Outstanding(f)
        BY <3>3 DEF Outstanding, g
      <4>2. \A v \in Outstanding(f) : j \notin todo[v]
        BY <2>1, <2>4, <4>1 DEF Outstanding, Shape, Typed
      <4>3. xattr[f][j] = latest[f]
        BY <4>2 DEF Settling
      <4> QED
        BY <2>1, <3>3, <4>3 DEF Shape, Typed
    <3> QED
      BY <3>1, <3>2, <3>3
  <2> QED
    BY <2>1, <2>2, <2>3, <2>4 DEF Settling
<1>6. ASSUME NEW w \in Works, NEW k \in Keys, WriteKeyFails(w, k)
      PROVE  Settling'
  <2> DEFINE g == item[w].file
  <2>1. /\ stage[w] = "running"
        /\ todo' = [todo EXCEPT ![w] = @ \ {k}] /\ failed' = failed \cup {g}
        /\ UNCHANGED <<stage, item, xattr, latest, overlapped>>
    BY <1>6 DEF WriteKeyFails, AtKey
  <2>2. \A v \in Works : stage'[v] \in {"filled", "counted", "pending"}
           => MandatoryKeys \subseteq todo'[v]
    BY <2>1 DEF Settling, Shape, Typed
  <2>3. \A f \in Files : Outstanding(f)' = Outstanding(f)
    BY <2>1 DEF Outstanding
  <2>4. \A f \in Files \ {g} : \A v \in Outstanding(f) : todo'[v] = todo[v]
    BY <2>1 DEF Outstanding, Shape, Typed
  <2> QED
    BY <2>1, <2>2, <2>3, <2>4 DEF Settling
<1>7. ASSUME NEW w \in Works, Dput(w)
      PROVE  Settling'
  <2> DEFINE g == item[w].file
  <2>1. /\ stage[w] = "running" /\ todo[w] = {} /\ g \in Files
        /\ stage' = [stage EXCEPT ![w] = "put"]
        /\ UNCHANGED <<item, todo, xattr, latest, overlapped, failed>>
    BY <1>7 DEF Dput, Shape, Owned
  <2>2. \A v \in Works : stage'[v] \in {"filled", "counted", "pending"}
           => MandatoryKeys \subseteq todo'[v]
    BY <2>1 DEF Settling, Shape, Typed
  <2>3. \A f \in Files : Outstanding(f)' = Outstanding(f) \ {w}
    BY <2>1 DEF Outstanding, Shape, Typed
  <2> QED
    BY <2>1, <2>2, <2>3 DEF Settling
<1>8. ASSUME NEW w \in Works, AtomicDec(w) \/ Kfree(w)
      PROVE  Settling'
  <2>1. /\ stage[w] \in {"put", "dead"}
        /\ stage'[w] \in {"dead", "free"}
        /\ \A v \in Works \ {w} : stage'[v] = stage[v] /\ item'[v] = item[v]
        /\ UNCHANGED <<todo, xattr, latest, overlapped, failed>>
    BY <1>8 DEF AtomicDec, Kfree, Shape, Typed
  <2>2. \A f \in Files : Outstanding(f)' = Outstanding(f) /\ w \notin Outstanding(f)
    BY <2>1 DEF Outstanding
  <2>3. \A v \in Works : stage'[v] \in {"filled", "counted", "pending"}
           => MandatoryKeys \subseteq todo'[v]
    BY <2>1 DEF Settling
  <2>4. \A f \in Files : \A v \in Outstanding(f) : item'[v] = item[v]
    BY <2>1, <2>2 DEF Outstanding
  <2> QED
    BY <2>1, <2>2, <2>3, <2>4, SettlingKept
<1>9. CASE UNCHANGED <<stage, item, todo, xattr, latest, overlapped, failed>>
  <2>1. \A f \in Files : Outstanding(f)' = Outstanding(f)
    BY <1>9 DEF Outstanding
  <2> QED
    BY <1>9, <2>1 DEF Settling
<1>10. ASSUME NEW t \in Tasks, ReadDepth(t) \/ Compare(t) \/ AllocFails(t) \/ Drop(t)
       PROVE  UNCHANGED <<stage, item, todo, xattr, latest, overlapped, failed>>
  BY <1>10 DEF ReadDepth, Compare, AllocFails, Drop
<1>11. CASE \/ WorkInit \/ ExitBegin \/ ExitDone \/ AllSettled
            \/ \E v \in QueueMaxInputs : SetQueueMax(v)
            \/ \E t \in Tasks, f \in Files, e \in Envs : Begin(t, f, e)
            \/ UNCHANGED vars
  BY <1>9, <1>11 DEF WorkInit, ExitBegin, ExitDone, AllSettled, SetQueueMax,
                     Begin, vars
<1> QED
  BY <1>1, <1>2, <1>3, <1>4, <1>5, <1>6, <1>7, <1>8, <1>9, <1>10, <1>11
  DEF Next, TaskStep, WorkerStep

(* A file at rest carries the session and ts of the close queued last,     *)
(* unless its items overlapped or a setxattr failed since it last rested.  *)
THEOREM RestIsCoherent == Spec => []RestingRecordCoherent
<1>1. Init => Settling
  BY DEF Init, Settling, Outstanding, MandatoryKeys, Keys
<1>2. Shape /\ Settling /\ [Next]_vars => Settling'
  BY SettlingStep
<1>3. Settling => RestingRecordCoherent
  BY DEF Settling, RestingRecordCoherent
<1> QED
  BY <1>1, <1>2, <1>3, ShapeInvariant, PTL DEF Spec
=============================================================================
