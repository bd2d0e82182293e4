---------------------------- MODULE ProvFsProofs ----------------------------
(***************************************************************************)
(* Proofs about the overlay of ProvFs, for any tree, any processes, any    *)
(* descriptors and any number of inodes and backing objects.               *)
(*                                                                         *)
(* Table is ranges, TableInverse and DirtyImpliesOpen.  Bound: each        *)
(* handle's inode number leads to the object it was opened on, or to       *)
(* nothing.  Stamped (records and histories) and Attributed hold whichever *)
(* stamps fail.  At the end are theorems about the operators of the skip   *)
(* list.                                                                   *)
(***************************************************************************)
EXTENDS ProvFs, OverlaySkip, LoopProofs, FiniteSetTheorems, TLAPS

Handle == [ino : 0..MaxIno, obj : 0..MaxObj, proc : Procs \cup {None},
           write : BOOLEAN]

(* The ranges of the variables that are not stamps. *)
Typed ==
  /\ fwd \in [Inos -> Paths \cup {None}]
  /\ rev \in [Paths -> 0..MaxIno]
  /\ next \in 2..(MaxIno + 1)
  /\ dirty \subseteq Inos
  /\ fh \in [Fds -> Handle]
  /\ names \in [Paths -> 0..MaxObj]
  /\ kind \in [Objs -> {"file", "dir"}]
  /\ created \in Objs
  /\ \A d \in Fds :
       fh[d] # Closed => /\ fh[d].ino \in Inos /\ fh[d].ino < next
                         /\ fh[d].obj \in Objs

Table == Typed /\ TableInverse /\ DirtyImpliesOpen

(* intern() keeps the table in its range. *)
LEMMA InternTyped ==
  ASSUME Typed, TableInverse, NEW p \in Paths, Intern(p)
  PROVE  /\ fwd' \in [Inos -> Paths \cup {None}]
         /\ rev' \in [Paths -> 0..MaxIno]
         /\ next' \in 2..(MaxIno + 1) /\ next <= next'
         /\ TableInverse'
         /\ InoOf(p) \in Inos /\ InoOf(p) < next'
<1>1. CASE rev[p] # 0
  BY <1>1, ProvFsAssumption DEF Intern, table, Typed, TableInverse, InoOf, Inos
<1>2. CASE rev[p] = 0
  <2>1. /\ next \in Inos
        /\ fwd' = [fwd EXCEPT ![next] = p]
        /\ rev' = [rev EXCEPT ![p] = next]
        /\ next' = next + 1
    BY <1>2 DEF Intern
  <2>2. /\ fwd' \in [Inos -> Paths \cup {None}]
        /\ rev' \in [Paths -> 0..MaxIno]
        /\ next' \in 2..(MaxIno + 1) /\ next <= next'
        /\ InoOf(p) \in Inos /\ InoOf(p) < next'
    BY <1>2, <2>1, ProvFsAssumption DEF Typed, InoOf, Inos
  <2>3. TableInverse'
    BY <1>2, <2>1, ProvFsAssumption DEF Typed, TableInverse, Inos
  <2> QED
    BY <2>2, <2>3
<1> QED
  BY <1>1, <1>2

(* forget_path() keeps the table in its range. *)
LEMMA ForgetTyped ==
  ASSUME Typed, TableInverse, NEW p \in Paths, ForgetPath(p)
  PROVE  /\ fwd' \in [Inos -> Paths \cup {None}]
         /\ rev' \in [Paths -> 0..MaxIno]
         /\ TableInverse'
<1>1. fwd' \in [Inos -> Paths \cup {None}] /\ rev' \in [Paths -> 0..MaxIno]
  BY ProvFsAssumption DEF ForgetPath, Typed
<1>2. TableInverse'
  BY ProvFsAssumption DEF ForgetPath, Typed, TableInverse, Inos
<1> QED
  BY <1>1, <1>2

(* Interning a whole listing keeps the table in its range. *)
LEMMA ReaddirTyped ==
  ASSUME Typed, TableInverse, NEW p \in Paths, Readdir(p)
  PROVE  /\ fwd' \in [Inos -> Paths \cup {None}]
         /\ rev' \in [Paths -> 0..MaxIno]
         /\ next' \in 2..(MaxIno + 1) /\ next <= next'
         /\ TableInverse'
         /\ \A i \in Inos : i < next => fwd'[i] = fwd[i]
         /\ \A q \in Paths : rev[q] # 0 => rev'[q] = rev[q]
         /\ \A i \in Inos : fwd'[i] # fwd[i] => names[fwd'[i]] # 0
<1> DEFINE fresh == {q \in Children(p) : names[q] # 0 /\ rev[q] = 0}
           last == next + Cardinality(fresh) - 1
<1>1. PICK num \in [fresh -> next..last] :
        /\ \A q, r \in fresh : num[q] = num[r] => q = r
        /\ fwd' = [i \in Inos |-> IF \E q \in fresh : num[q] = i
                                    THEN CHOOSE q \in fresh : num[q] = i
                                    ELSE fwd[i]]
        /\ rev' = [q \in Paths |-> IF q \in fresh THEN num[q] ELSE rev[q]]
  BY DEF Readdir
<1>2. fresh \subseteq Paths /\ IsFiniteSet(fresh) /\ Cardinality(fresh) \in Nat
  BY ProvFsAssumption, FS_Subset, FS_CardinalityType DEF Children
<1>3. next \in Int /\ next >= 2 /\ last \in Int /\ last <= MaxIno
      /\ next' = last + 1 /\ next <= next'
  BY <1>2, ProvFsAssumption DEF Readdir, Typed
<1> HIDE DEF last
<1>4. \A q \in fresh : num[q] \in Inos /\ num[q] >= next /\ num[q] < next'
  BY <1>1, <1>3, ProvFsAssumption DEF Inos
<1>5. \A q \in fresh : fwd'[num[q]] = q
  BY <1>1, <1>4
<1>6. \A i \in Inos : (\A q \in fresh : num[q] # i) => fwd'[i] = fwd[i]
  BY <1>1
<1>7. \A i \in Inos : i < next => fwd'[i] = fwd[i]
  BY <1>3, <1>4, <1>6 DEF Inos
<1>8. fwd' \in [Inos -> Paths \cup {None}]
  BY <1>1, <1>2, <1>5, <1>6 DEF Typed
<1>9. rev' \in [Paths -> 0..MaxIno]
  BY <1>1, <1>4, ProvFsAssumption DEF Typed, Inos
<1>10. next' \in 2..(MaxIno + 1)
  BY <1>3, ProvFsAssumption
<1>11. \A q \in Paths : rev[q] # 0 => rev'[q] = rev[q]
  BY <1>1
<1>12. \A i \in Inos : fwd'[i] # fwd[i] => names[fwd'[i]] # 0
  BY <1>5, <1>6
<1>13. ASSUME NEW i \in Inos, fwd'[i] # None
       PROVE  rev'[fwd'[i]] = i /\ i < next'
  <2>1. CASE \E q \in fresh : num[q] = i
    BY <1>1, <1>2, <1>4, <1>5, <2>1
  <2>2. CASE \A q \in fresh : num[q] # i
    <3>1. fwd'[i] = fwd[i] /\ rev[fwd[i]] = i /\ i < next
      BY <1>6, <1>13, <2>2 DEF TableInverse
    <3>2. fwd[i] \in Paths /\ i # 0 /\ i \in Int
      BY <1>13, <3>1, ProvFsAssumption DEF Typed, Inos
    <3> QED
      BY <1>3, <1>11, <3>1, <3>2
  <2> QED
    BY <2>1, <2>2
<1>14. ASSUME NEW q \in Paths, rev'[q] # 0
       PROVE  fwd'[rev'[q]] = q
  <2>1. CASE q \in fresh
    BY <1>1, <1>5, <2>1
  <2>2. CASE q \notin fresh
    <3>1. rev'[q] = rev[q] /\ fwd[rev[q]] = q
      BY <1>1, <1>14, <2>2 DEF TableInverse
    <3>2. rev[q] \in Inos /\ rev[q] < next
      BY <1>14, <3>1, ProvFsAssumption DEF Typed, TableInverse, Inos
    <3> QED
      BY <1>7, <3>1, <3>2
  <2> QED
    BY <2>1, <2>2
<1> QED
  BY <1>3, <1>7, <1>8, <1>9, <1>10, <1>11, <1>12, <1>13, <1>14 DEF TableInverse

-----------------------------------------------------------------------------
(* The inode table and the dirty map *)

(* The table starts with the root alone. *)
LEMMA TableInit == Init => Table
<1> SUFFICES ASSUME Init
             PROVE  Table
  OBVIOUS
<1> USE ProvFsAssumption DEF Init, Inos, Objs, ROOT_INO
<1>1. fh \in [Fds -> Handle]
  BY DEF Closed, Handle
<1>2. /\ fwd \in [Inos -> Paths \cup {None}] /\ rev \in [Paths -> 0..MaxIno]
      /\ next \in 2..(MaxIno + 1) /\ dirty \subseteq Inos
      /\ kind \in [Objs -> {"file", "dir"}] /\ created \in Objs
      /\ \A d \in Fds : fh[d] = Closed
  OBVIOUS
<1>3. names \in [Paths -> 0..MaxObj]
  OBVIOUS
<1>4. Typed
  BY <1>1, <1>2, <1>3 DEF Typed
<1>5. TableInverse /\ DirtyImpliesOpen
  BY DEF TableInverse, DirtyImpliesOpen
<1> QED
  BY <1>4, <1>5 DEF Table

(* A handle stored in a closed descriptor. *)
LEMMA StoreHandle ==
  ASSUME Typed, NEW d \in Fds, fh[d] = Closed, NEW h \in Handle,
         fh' = [fh EXCEPT ![d] = h], h.ino \in Inos
  PROVE  /\ fh' \in [Fds -> Handle]
         /\ fh'[d] = h
         /\ \A e \in Fds : fh[e] # Closed => fh'[e] = fh[e]
         /\ \A e \in Fds : fh[e].ino \in Inos => fh'[e] = fh[e]
<1>1. Closed.ino \notin Inos
  BY ProvFsAssumption DEF Closed, Inos
<1> QED
  BY <1>1 DEF Typed

(* Every step keeps the table inverse and each dirty inode open. *)
LEMMA TableStep ==
  ASSUME Table, Next
  PROVE  Table'
<1> USE ProvFsAssumption DEF table, backing, stamps, Table
<1>1. ASSUME NEW p \in Paths, Lookup(p)
      PROVE  Table'
  <2>1. Intern(p) /\ UNCHANGED <<dirty, fh, names, kind, created>>
    BY <1>1 DEF Lookup
  <2>2. /\ fwd' \in [Inos -> Paths \cup {None}] /\ rev' \in [Paths -> 0..MaxIno]
        /\ next' \in 2..(MaxIno + 1) /\ next <= next' /\ TableInverse'
    BY <2>1, InternTyped
  <2>3. \A d \in Fds : fh'[d] # Closed => fh'[d].ino \in Inos /\ fh'[d].ino < next'
    BY <2>1, <2>2 DEF Typed, Inos
  <2>4. Typed'
    BY <2>1, <2>2, <2>3 DEF Typed
  <2> QED
    BY <2>1, <2>2, <2>4 DEF DirtyImpliesOpen
<1>2. ASSUME NEW p \in Paths, Readdir(p)
      PROVE  Table'
  <2>1. UNCHANGED <<dirty, fh, names, kind, created>>
    BY <1>2 DEF Readdir
  <2>2. /\ fwd' \in [Inos -> Paths \cup {None}] /\ rev' \in [Paths -> 0..MaxIno]
        /\ next' \in 2..(MaxIno + 1) /\ next <= next' /\ TableInverse'
    BY <1>2, ReaddirTyped
  <2>3. Typed'
    BY <2>1, <2>2 DEF Typed, Inos
  <2> QED
    BY <2>1, <2>2, <2>3 DEF DirtyImpliesOpen
<1>3. ASSUME NEW p \in Paths, Unlink(p) \/ Rmdir(p)
      PROVE  Table'
  <2>1. names' \in [Paths -> 0..MaxObj]
    BY <1>3 DEF Unlink, Rmdir, Typed
  <2>2. ForgetPath(p) /\ UNCHANGED <<next, dirty, fh, kind, created>>
    BY <1>3 DEF Unlink, Rmdir, ForgetPath
  <2>3. Typed'
    BY <2>1, <2>2, ForgetTyped DEF Typed
  <2> QED
    BY <2>2, <2>3, ForgetTyped DEF DirtyImpliesOpen
<1>4. ASSUME NEW p \in Paths, NEW proc \in Procs, Mkdir(p, proc)
      PROVE  Table'
  <2>1. UNCHANGED <<dirty, fh>> /\ Intern(p)
    BY <1>4 DEF Mkdir
  <2>2. /\ names' \in [Paths -> 0..MaxObj] /\ created' \in Objs
        /\ kind' \in [Objs -> {"file", "dir"}]
    BY <1>4 DEF Mkdir, NewObject, Typed, Objs
  <2>3. /\ fwd' \in [Inos -> Paths \cup {None}] /\ rev' \in [Paths -> 0..MaxIno]
        /\ next' \in 2..(MaxIno + 1) /\ next <= next' /\ TableInverse'
    BY <2>1, InternTyped
  <2>4. Typed'
    BY <2>1, <2>2, <2>3 DEF Typed, Inos
  <2> QED
    BY <2>1, <2>3, <2>4 DEF DirtyImpliesOpen
<1>5. ASSUME NEW p \in Paths, NEW proc \in Procs, NEW write \in BOOLEAN,
             NEW d \in Fds, Create(p, proc, write, d)
      PROVE  Table'
  <2> DEFINE h == [ino |-> InoOf(p), obj |-> names'[p], proc |-> proc,
                   write |-> write]
  <2>1. /\ Intern(p) /\ fh[d] = Closed /\ fh' = [fh EXCEPT ![d] = h]
        /\ dirty' = dirty \cup {InoOf(p)}
    BY <1>5 DEF Create
  <2>2. /\ names' \in [Paths -> 0..MaxObj] /\ created' \in Objs
        /\ kind' \in [Objs -> {"file", "dir"}] /\ names'[p] \in Objs
    <3>1. CASE NewObject(p, "file")
      BY <3>1 DEF NewObject, Typed, Objs
    <3>2. CASE IsFile(p) /\ UNCHANGED backing
      BY <3>2 DEF IsFile, Typed, Objs
    <3> QED
      BY <1>5, <3>1, <3>2 DEF Create
  <2>3. /\ InoOf(p) \in Inos /\ InoOf(p) < next'
        /\ next' \in 2..(MaxIno + 1) /\ next <= next'
    BY <2>1, InternTyped
  <2>4. h \in Handle /\ h.ino \in Inos /\ h.ino < next' /\ h.obj \in Objs
    BY <2>2, <2>3 DEF Handle, Inos, Objs
  <2> HIDE DEF h
  <2>5. /\ fh' \in [Fds -> Handle] /\ fh'[d] = h
        /\ \A e \in Fds : fh[e] # Closed => fh'[e] = fh[e]
        /\ \A e \in Fds : fh[e].ino \in Inos => fh'[e] = fh[e]
    BY <2>1, <2>4, StoreHandle
  <2>6. \A e \in Fds : e # d => fh'[e] = fh[e]
    BY <2>1 DEF Typed
  <2>7. \A e \in Fds :
          fh'[e] # Closed => /\ fh'[e].ino \in Inos /\ fh'[e].ino < next'
                             /\ fh'[e].obj \in Objs
    BY <2>3, <2>4, <2>5, <2>6 DEF Typed, Inos
  <2>8. Typed'
    BY <2>1, <2>2, <2>3, <2>5, <2>7, InternTyped DEF Typed
  <2>9. DirtyImpliesOpen'
    <3> SUFFICES ASSUME NEW i \in dirty'
                 PROVE  \E e \in Fds : fh'[e].ino = i
      BY DEF DirtyImpliesOpen
    <3>1. CASE i = InoOf(p)
      BY <2>5, <3>1 DEF h
    <3>2. CASE i \in dirty
      BY <2>5, <3>2 DEF DirtyImpliesOpen, Typed
    <3> QED
      BY <2>1, <3>1, <3>2
  <2> QED
    BY <2>1, <2>8, <2>9, InternTyped
<1>6. ASSUME NEW i \in Inos, NEW proc \in Procs, NEW write \in BOOLEAN,
             NEW d \in Fds, Open(i, proc, write, d)
      PROVE  Table'
  <2> DEFINE h == [ino |-> i, obj |-> names[fwd[i]], proc |-> proc,
                   write |-> write]
  <2>1. /\ fwd[i] \in Paths /\ fh[d] = Closed /\ fh' = [fh EXCEPT ![d] = h]
        /\ UNCHANGED <<fwd, rev, next, names, kind, created>>
        /\ dirty' = dirty \/ dirty' = dirty \cup {i}
    BY <1>6 DEF Open, Typed
  <2>2. names[fwd[i]] \in Objs /\ i < next
    BY <1>6, <2>1 DEF Open, IsFile, Typed, TableInverse, Objs
  <2>3. h \in Handle /\ h.ino = i /\ h.obj \in Objs
    BY <2>2 DEF Handle, Inos, Objs
  <2> HIDE DEF h
  <2>4. /\ fh' \in [Fds -> Handle] /\ fh'[d] = h
        /\ \A e \in Fds : fh[e] # Closed => fh'[e] = fh[e]
        /\ \A e \in Fds : fh[e].ino \in Inos => fh'[e] = fh[e]
    BY <2>1, <2>3, StoreHandle
  <2>5. \A e \in Fds : e # d => fh'[e] = fh[e]
    BY <2>1 DEF Typed
  <2>6. \A e \in Fds :
          fh'[e] # Closed => /\ fh'[e].ino \in Inos /\ fh'[e].ino < next
                             /\ fh'[e].obj \in Objs
    BY <2>2, <2>3, <2>4, <2>5 DEF Typed
  <2>7. Typed'
    BY <2>1, <2>4, <2>6 DEF Typed
  <2>8. DirtyImpliesOpen'
    <3> SUFFICES ASSUME NEW j \in dirty'
                 PROVE  \E e \in Fds : fh'[e].ino = j
      BY DEF DirtyImpliesOpen
    <3>1. CASE j = i
      BY <2>3, <2>4, <3>1
    <3>2. CASE j \in dirty
      BY <2>4, <3>2 DEF DirtyImpliesOpen, Typed
    <3> QED
      BY <2>1, <3>1, <3>2
  <2> QED
    BY <2>1, <2>7, <2>8 DEF TableInverse
<1>7. ASSUME NEW i \in Inos, NEW proc \in Procs, NEW truncate \in BOOLEAN,
             Setattr(i, proc, truncate)
      PROVE  Table'
  BY <1>7 DEF Setattr, Typed, TableInverse, DirtyImpliesOpen
<1>8. ASSUME NEW d \in Fds, Write(d)
      PROVE  Table'
  <2>1. fh[d].ino \in Inos
    BY <1>8 DEF Write, Typed, Closed
  <2> QED
    BY <1>8, <2>1 DEF Write, Typed, TableInverse, DirtyImpliesOpen
<1>9. ASSUME NEW d \in Fds, Release(d)
       PROVE  Table'
  <2>1. /\ fh' = [fh EXCEPT ![d] = Closed] /\ dirty' = dirty \ {fh[d].ino}
        /\ UNCHANGED <<fwd, rev, next, names, kind, created>>
    BY <1>9 DEF Release
  <2>2. Closed \in Handle
    BY DEF Closed, Handle
  <2>3. Typed'
    BY <2>1, <2>2 DEF Typed
  <2>4. DirtyImpliesOpen'
    BY <2>1 DEF Typed, DirtyImpliesOpen
  <2> QED
    BY <2>1, <2>3, <2>4 DEF TableInverse
<1> QED
  BY <1>1, <1>2, <1>3, <1>4, <1>5, <1>6, <1>7, <1>8, <1>9 DEF Next

(* A stuttering step changes nothing of it. *)
LEMMA TableStutter == Table /\ UNCHANGED vars => Table'
  BY DEF Table, Typed, TableInverse, DirtyImpliesOpen, vars, table, backing

(* The table invariant holds throughout. *)
LEMMA TableInvariant == Spec => []Table
  BY TableInit, TableStep, TableStutter, PTL DEF Spec

(* The two directions of the inode table stay inverse to each other,       *)
(* whichever handlers run and in whatever order.                           *)
THEOREM TableStaysInverse == Spec => []TableInverse
  BY TableInvariant, PTL DEF Table

(* No entry of the dirty map outlives the last handle on its inode. *)
THEOREM DirtyNeverLeaks == Spec => []DirtyImpliesOpen
  BY TableInvariant, PTL DEF Table

(* An inode number, once given to a path, never names another one. *)
THEOREM InosKeepTheirPath == Spec => InosNeverRebound
<1>1. Table /\ [Next]_vars
        => [\A i \in Inos : i < next => fwd'[i] \in {fwd[i], None}]_vars
  <2> SUFFICES ASSUME Table, Next
               PROVE  \A i \in Inos : i < next => fwd'[i] \in {fwd[i], None}
    OBVIOUS
  <2> USE ProvFsAssumption DEF table, Table
  <2>1. ASSUME NEW p \in Paths, Intern(p)
        PROVE  \A i \in Inos : i < next => fwd'[i] \in {fwd[i], None}
    BY <2>1 DEF Intern, Typed, Inos
  <2>2. ASSUME NEW p \in Paths, ForgetPath(p)
        PROVE  \A i \in Inos : i < next => fwd'[i] \in {fwd[i], None}
    BY <2>2 DEF ForgetPath, Typed
  <2>3. ASSUME NEW p \in Paths, Readdir(p)
        PROVE  \A i \in Inos : i < next => fwd'[i] \in {fwd[i], None}
    BY <2>3, ReaddirTyped
  <2>4. CASE UNCHANGED fwd
    BY <2>4
  <2>5. Next => \/ \E p \in Paths : Intern(p) \/ ForgetPath(p) \/ Readdir(p)
                \/ UNCHANGED fwd
    BY DEF Next, Lookup, Unlink, Rmdir, Mkdir, Create, Open, Setattr, Write, Release
  <2> QED
    BY <2>1, <2>2, <2>3, <2>4, <2>5
<1> QED
  BY <1>1, TableInvariant, PTL DEF Spec, InosNeverRebound

-----------------------------------------------------------------------------
(* Handles and the objects they were opened on *)

(* No object is at two paths; a number in the table leads to an object     *)
(* that exists; a handle's number leads to the handle's object or, once    *)
(* that is unlinked, nowhere.                                              *)
Bound ==
  /\ \A p \in Paths : names[p] <= created
  /\ \A p, q \in Paths : names[p] = names[q] /\ names[p] # 0 => p = q
  /\ \A i \in Inos : fwd[i] # None => names[fwd[i]] # 0
  /\ \A d \in Fds : fh[d] # Closed =>
       /\ fh[d].obj <= created
       /\ fwd[fh[d].ino] # None => names[fwd[fh[d].ino]] = fh[d].obj
       /\ \A p \in Paths : names[p] = fh[d].obj => fwd[fh[d].ino] = p
  /\ \A o \in unstamped : o \in Objs /\ o <= created

(* A stamp changes the record of one object only. *)
LEMMA StampTouches ==
  ASSUME NEW p \in Paths, NEW o, NEW id, NEW touched,
         MaybeStamp(p, o, id, touched)
  PROVE  /\ unstamped' \subseteq unstamped \cup touched
         /\ unstamped' \ faulty' \subseteq (unstamped \ faulty) \cup touched
         /\ p \notin SkippedPaths /\ o # 0 => o \notin unstamped' \ faulty'
<1>1. CASE p \in SkippedPaths \/ o = 0
  BY <1>1 DEF MaybeStamp
<1>2. ASSUME NEW n, Stamp(o, id, n, touched)
      PROVE  /\ unstamped' \subseteq unstamped \cup touched
             /\ unstamped' \ faulty' \subseteq (unstamped \ faulty) \cup touched
             /\ o \notin unstamped' \ faulty'
  BY <1>2 DEF Stamp
<1> QED
  BY <1>1, <1>2 DEF MaybeStamp

(* No handle is open at first. *)
LEMMA BoundInit == Init => Bound
<1> SUFFICES ASSUME Init
             PROVE  Bound
  OBVIOUS
<1>1. PICK old \in Children(Root) \cup {Root} :
        names = [p \in Paths |-> IF p = Root THEN 1 ELSE IF p = old THEN 2 ELSE 0]
  BY DEF Init
<1>2. \A p \in Paths : names[p] <= 2
  BY <1>1
<1>3. \A p, q \in Paths : names[p] = names[q] /\ names[p] # 0 => p = q
  BY <1>1
<1>4. \A i \in Inos : fwd[i] # None => names[fwd[i]] # 0
  BY <1>1, ProvFsAssumption DEF Init
<1> QED
  BY <1>2, <1>3, <1>4 DEF Bound, Init

(* A new handle h for the object at path p, which the table maps to h.ino. *)
LEMMA BoundNewHandle ==
  ASSUME Table, Bound, NEW p \in Paths, NEW d \in Fds, fh[d] = Closed,
         NEW h \in Handle, fh' = [fh EXCEPT ![d] = h],
         h.ino \in Inos, h.obj \in Objs, h.obj = names'[p], fwd'[h.ino] = p,
         \A q \in Paths : q # p => names'[q] = names[q],
         names[p] \in {0, names'[p]},
         names[p] = 0 => names'[p] = created + 1 /\ created' = created + 1,
         names[p] # 0 => created' = created,
         \A i \in Inos : fwd[i] # None => fwd'[i] = fwd[i],
         \A i \in Inos : i < next => fwd'[i] = fwd[i],
         \A i \in Inos : fwd'[i] \in {fwd[i], p},
         unstamped' \subseteq unstamped \cup {names'[p]}
  PROVE  Bound'
<1> USE ProvFsAssumption DEF Table, Objs
<1>1. /\ created \in Int /\ created >= 1 /\ created' \in Int
      /\ created <= created' /\ names'[p] \in Int /\ names'[p] # 0
      /\ \A q \in Paths : names[q] \in Int
  BY DEF Typed
<1>2. \A q \in Paths : names'[q] <= created'
  BY <1>1 DEF Bound
<1>3. \A q, r \in Paths : names'[q] = names'[r] /\ names'[q] # 0 => q = r
  <2>1. \A q \in Paths : q # p => names'[q] # names'[p]
    <3> SUFFICES ASSUME NEW q \in Paths, q # p
                 PROVE  names'[q] # names'[p]
      OBVIOUS
    <3>1. CASE names[p] = 0
      BY <1>1, <3>1 DEF Bound
    <3>2. CASE names[p] = names'[p]
      BY <1>1, <3>2 DEF Bound
    <3> QED
      BY <3>1, <3>2
  <2> QED
    BY <2>1 DEF Bound
<1>4. \A i \in Inos : fwd'[i] # None => names'[fwd'[i]] # 0
  <2> SUFFICES ASSUME NEW i \in Inos, fwd'[i] # None PROVE names'[fwd'[i]] # 0
    OBVIOUS
  <2>1. CASE fwd'[i] = p
    BY <1>1, <2>1
  <2>2. CASE fwd'[i] # p
    <3>1. fwd'[i] = fwd[i] /\ fwd[i] \in Paths /\ names[fwd[i]] # 0
      BY <2>2 DEF Bound, Typed
    <3> QED BY <2>2, <3>1
  <2> QED BY <2>1, <2>2
<1>5. \A o \in unstamped' : o \in Objs /\ o <= created'
  BY <1>1, <1>2 DEF Bound
<1>6. fh'[d] = h /\ \A e \in Fds : e # d => fh'[e] = fh[e]
  BY DEF Typed
<1>7. ASSUME NEW e \in Fds, fh'[e] # Closed
      PROVE  /\ fh'[e].obj <= created'
             /\ fwd'[fh'[e].ino] # None
                  => names'[fwd'[fh'[e].ino]] = fh'[e].obj
             /\ \A q \in Paths : names'[q] = fh'[e].obj
                  => fwd'[fh'[e].ino] = q
  <2>1. CASE e = d
    BY <1>1, <1>2, <1>3, <1>6, <2>1
  <2>2. CASE e # d
    <3> DEFINE i == fh[e].ino
               o == fh[e].obj
    <3>1. /\ fh'[e] = fh[e] /\ fh[e] # Closed /\ i \in Inos /\ i < next
          /\ o \in Objs /\ o <= created
      BY <1>6, <1>7, <2>2 DEF Typed, Bound
    <3>2. /\ fwd[i] # None => names[fwd[i]] = o
          /\ \A q \in Paths : names[q] = o => fwd[i] = q
      BY <3>1 DEF Bound
    <3>3. fwd'[i] = fwd[i]
      BY <3>1
    <3>4. o <= created'
      BY <1>1, <3>1
    <3>5. fwd'[i] # None => names'[fwd'[i]] = o
      BY <3>1, <3>2, <3>3 DEF Typed
    <3>6. \A q \in Paths : names'[q] = o => fwd'[i] = q
      BY <1>1, <3>1, <3>2, <3>3
    <3> QED
      BY <3>1, <3>4, <3>5, <3>6
  <2> QED
    BY <2>1, <2>2
<1> QED
  BY <1>2, <1>3, <1>4, <1>5, <1>7 DEF Bound

(* intern() leaves every number that is in use with its path. *)
LEMMA InternKeeps ==
  ASSUME Table, NEW p \in Paths, Intern(p)
  PROVE  /\ fwd'[InoOf(p)] = p /\ rev'[p] = InoOf(p)
         /\ \A i \in Inos : fwd[i] # None => fwd'[i] = fwd[i]
         /\ \A i \in Inos : i < next => fwd'[i] = fwd[i]
         /\ \A i \in Inos : fwd'[i] \in {fwd[i], p}
         /\ \A q \in Paths : q # p => rev'[q] = rev[q]
<1> USE ProvFsAssumption DEF Table, table
<1>1. CASE rev[p] # 0
  BY <1>1 DEF Intern, InoOf, Typed, TableInverse
<1>2. CASE rev[p] = 0
  <2>1. fwd[next] = None \/ next \notin Inos
    BY DEF Typed, TableInverse, Inos
  <2> QED
    BY <1>2, <2>1 DEF Intern, InoOf, Typed, Inos
<1> QED
  BY <1>1, <1>2

(* What create() leaves behind; both proofs about it start from here. *)
LEMMA CreateEffect ==
  ASSUME Table, Bound, NEW p \in Paths, NEW proc \in Procs,
         NEW write \in BOOLEAN, NEW d \in Fds, Create(p, proc, write, d)
  PROVE  /\ names'[p] \in Objs /\ names[p] \in {0, names'[p]}
         /\ \A q \in Paths : q # p => names'[q] = names[q]
         /\ names[p] = 0 => names'[p] = created + 1 /\ created' = created + 1
         /\ names[p] # 0 => created' = created
<1> USE DEF Table, backing
<1>1. CASE names[p] = 0 /\ NewObject(p, "file")
  BY <1>1, ProvFsAssumption DEF NewObject, Typed, Objs
<1>2. CASE IsFile(p) /\ UNCHANGED backing
  BY <1>2, ProvFsAssumption DEF IsFile, Typed, Objs
<1> QED
  BY <1>1, <1>2 DEF Create

(* Every step keeps each handle on the object at its path, if it has one. *)
LEMMA BoundStep ==
  ASSUME Table, Table', Bound, Next
  PROVE  Bound'
<1> USE ProvFsAssumption DEF table, backing, stamps
<1>1. ASSUME NEW p \in Paths, Lookup(p)
      PROVE  Bound'
  <2>1. /\ Intern(p) /\ names[p] # 0
        /\ UNCHANGED <<dirty, fh, names, created, unstamped>>
    BY <1>1 DEF Lookup
  <2>2. /\ \A i \in Inos : i < next => fwd'[i] = fwd[i]
        /\ \A i \in Inos : fwd'[i] \in {fwd[i], p}
    BY <2>1, InternKeeps
  <2> QED
    BY <2>1, <2>2 DEF Bound, Table, Typed
<1>2. ASSUME NEW p \in Paths, Readdir(p)
      PROVE  Bound'
  <2>1. UNCHANGED <<dirty, fh, names, created, unstamped>>
    BY <1>2 DEF Readdir
  <2>2. /\ \A i \in Inos : i < next => fwd'[i] = fwd[i]
        /\ \A i \in Inos : fwd'[i] # fwd[i] => names[fwd'[i]] # 0
    BY <1>2, ReaddirTyped DEF Table
  <2> QED
    BY <2>1, <2>2 DEF Bound, Table, Typed
<1>3. ASSUME NEW p \in Paths, Unlink(p) \/ Rmdir(p)
      PROVE  Bound'
  <2>1. /\ names' = [names EXCEPT ![p] = 0]
        /\ UNCHANGED <<fh, created, unstamped>>
        /\ fwd' = [i \in Inos |-> IF i = rev[p] THEN None ELSE fwd[i]]
    BY <1>3 DEF Unlink, Rmdir, ForgetPath
  <2>2. \A i \in Inos : fwd'[i] # None => fwd'[i] = fwd[i] /\ fwd[i] # p
    BY <2>1 DEF Table, Typed, TableInverse
  <2>3. /\ \A q \in Paths : names'[q] <= created'
        /\ \A q, r \in Paths : names'[q] = names'[r] /\ names'[q] # 0 => q = r
        /\ \A i \in Inos : fwd'[i] # None => names'[fwd'[i]] # 0
    BY <2>1, <2>2 DEF Bound, Table, Typed, Objs
  <2>4. ASSUME NEW e \in Fds, fh'[e] # Closed
        PROVE  /\ fh'[e].obj <= created'
               /\ fwd'[fh'[e].ino] # None
                    => names'[fwd'[fh'[e].ino]] = fh'[e].obj
               /\ \A q \in Paths : names'[q] = fh'[e].obj
                    => fwd'[fh'[e].ino] = q
    <3> DEFINE i == fh[e].ino
               o == fh[e].obj
    <3>1. /\ fh' = fh /\ i \in Inos /\ o \in Objs /\ o # 0 /\ o <= created
          /\ fwd[i] # None => names[fwd[i]] = o
          /\ \A q \in Paths : names[q] = o => fwd[i] = q
      BY <2>1, <2>4 DEF Bound, Table, Typed, Objs
    <3>2. fwd'[i] # None => names'[fwd'[i]] = o
      BY <2>1, <2>2, <3>1 DEF Table, Typed
    <3>3. ASSUME NEW q \in Paths, names'[q] = o
          PROVE  fwd'[i] = q
      <4>1. q # p /\ names[q] = o /\ fwd[i] = q
        BY <2>1, <3>1, <3>3 DEF Table, Typed
      <4>2. i # rev[p]
        BY <3>1, <4>1 DEF Table, Typed, TableInverse, Inos
      <4> QED
        BY <2>1, <3>1, <4>1, <4>2
    <3> QED
      BY <2>1, <3>1, <3>2, <3>3
  <2> QED
    BY <2>1, <2>3, <2>4 DEF Bound
<1>4. ASSUME NEW p \in Paths, NEW proc \in Procs, Mkdir(p, proc)
      PROVE  Bound'
  <2>1. /\ Intern(p) /\ names[p] = 0
        /\ names' = [names EXCEPT ![p] = created + 1]
        /\ created' = created + 1 /\ UNCHANGED fh
        /\ MaybeStamp(p, names'[p], proc, {})
    BY <1>4 DEF Mkdir, NewObject
  <2>2. /\ \A i \in Inos : i < next => fwd'[i] = fwd[i]
        /\ \A i \in Inos : fwd'[i] \in {fwd[i], p}
    BY <2>1, InternKeeps
  <2>3. unstamped' \subseteq unstamped
    BY <2>1, StampTouches
  <2>4. created \in Int /\ created >= 1 /\ \A q \in Paths : names[q] \in Int
    BY DEF Table, Typed, Objs
  <2>5. /\ \A q \in Paths : names'[q] <= created'
        /\ \A q, r \in Paths : names'[q] = names'[r] /\ names'[q] # 0 => q = r
    BY <2>1, <2>4 DEF Bound, Table, Typed
  <2>6. \A i \in Inos : fwd'[i] # None => names'[fwd'[i]] # 0
    BY <2>1, <2>2, <2>4 DEF Bound, Table, Typed
  <2>7. ASSUME NEW e \in Fds, fh'[e] # Closed
        PROVE  /\ fh'[e].obj <= created'
               /\ fwd'[fh'[e].ino] # None
                    => names'[fwd'[fh'[e].ino]] = fh'[e].obj
               /\ \A q \in Paths : names'[q] = fh'[e].obj
                    => fwd'[fh'[e].ino] = q
    <3> DEFINE i == fh[e].ino
               o == fh[e].obj
    <3>1. /\ fh' = fh /\ i \in Inos /\ i < next /\ o \in Int /\ o <= created
          /\ fwd[i] # None => names[fwd[i]] = o /\ names[fwd[i]] # 0
          /\ \A q \in Paths : names[q] = o => fwd[i] = q
      BY <2>1, <2>7 DEF Bound, Table, Typed, Objs
    <3>2. fwd'[i] = fwd[i] /\ fwd[i] # p
      BY <2>1, <2>2, <3>1
    <3>3. \A q \in Paths : names'[q] = (IF q = p THEN created + 1 ELSE names[q])
      BY <2>1 DEF Table, Typed
    <3> QED
      BY <2>1, <2>4, <3>1, <3>2, <3>3 DEF Table, Typed
  <2>8. \A o \in unstamped' : o \in Objs /\ o <= created'
    BY <2>1, <2>3, <2>4 DEF Bound, Objs
  <2> QED
    BY <2>5, <2>6, <2>7, <2>8 DEF Bound
<1>5. ASSUME NEW p \in Paths, NEW proc \in Procs, NEW write \in BOOLEAN,
             NEW d \in Fds, Create(p, proc, write, d)
      PROVE  Bound'
  <2> DEFINE h == [ino |-> InoOf(p), obj |-> names'[p], proc |-> proc,
                   write |-> write]
  <2>1. /\ Intern(p) /\ fh[d] = Closed /\ fh' = [fh EXCEPT ![d] = h]
        /\ MaybeStamp(p, names'[p], proc, {names'[p]})
    BY <1>5 DEF Create
  <2>2. /\ names'[p] \in Objs /\ names[p] \in {0, names'[p]}
        /\ \A q \in Paths : q # p => names'[q] = names[q]
        /\ names[p] = 0 => names'[p] = created + 1 /\ created' = created + 1
        /\ names[p] # 0 => created' = created
    BY <1>5, CreateEffect
  <2>3. InoOf(p) \in Inos
    BY <2>1, InternTyped DEF Table
  <2>4. /\ h \in Handle /\ h.ino \in Inos /\ h.obj \in Objs
        /\ h.ino = InoOf(p) /\ h.obj = names'[p]
    BY <2>2, <2>3 DEF Handle, Inos, Objs
  <2>5. unstamped' \subseteq unstamped \cup {names'[p]}
    BY <2>1, StampTouches
  <2>6. /\ fwd'[InoOf(p)] = p
        /\ \A i \in Inos : fwd[i] # None => fwd'[i] = fwd[i]
        /\ \A i \in Inos : i < next => fwd'[i] = fwd[i]
        /\ \A i \in Inos : fwd'[i] \in {fwd[i], p}
    BY <2>1, InternKeeps
  <2> HIDE DEF h
  <2> QED
    BY <2>1, <2>2, <2>4, <2>5, <2>6, BoundNewHandle
<1>6. ASSUME NEW i \in Inos, NEW proc \in Procs, NEW write \in BOOLEAN,
             NEW d \in Fds, Open(i, proc, write, d)
      PROVE  Bound'
  <2> DEFINE h == [ino |-> i, obj |-> names[fwd[i]], proc |-> proc,
                   write |-> write]
  <2>1. /\ fwd[i] \in Paths /\ fh[d] = Closed /\ fh' = [fh EXCEPT ![d] = h]
        /\ UNCHANGED <<fwd, names, created, unstamped>>
        /\ names[fwd[i]] # 0
    BY <1>6 DEF Open, IsFile, Table, Typed
  <2>2. /\ h \in Handle /\ h.ino = i /\ h.obj \in Objs
        /\ h.obj = names[fwd[i]]
    BY <2>1 DEF Table, Typed, Handle, Inos, Objs
  <2> HIDE DEF h
  <2> QED
    BY <2>1, <2>2, BoundNewHandle
<1>7. ASSUME NEW i \in Inos, NEW proc \in Procs, NEW truncate \in BOOLEAN,
             Setattr(i, proc, truncate)
      PROVE  Bound'
  <2> DEFINE o == names[fwd[i]]
  <2>1. /\ fwd[i] \in Paths /\ o # 0
        /\ UNCHANGED <<fwd, fh, names, created>>
        /\ MaybeStamp(fwd[i], o, proc, IF truncate THEN {o} ELSE {})
    BY <1>7 DEF Setattr, Table, Typed
  <2>2. unstamped' \subseteq unstamped \cup {o}
    BY <2>1, StampTouches
  <2>3. o \in Objs /\ o <= created
    BY <2>1 DEF Bound, Table, Typed, Objs
  <2> QED
    BY <2>1, <2>2, <2>3 DEF Bound
<1>8. ASSUME NEW d \in Fds, Write(d)
      PROVE  Bound'
  <2>1. /\ fh[d] # Closed /\ unstamped' = unstamped \cup {fh[d].obj}
        /\ UNCHANGED <<fwd, fh, names, created>>
    BY <1>8 DEF Write, Closed
  <2> QED
    BY <2>1 DEF Bound, Table, Typed
<1>9. ASSUME NEW d \in Fds, Release(d)
      PROVE  Bound'
  <2>1. /\ fh' = [fh EXCEPT ![d] = Closed] /\ fh[d] # Closed
        /\ UNCHANGED <<fwd, names, created>>
    BY <1>9 DEF Release
  <2>2. unstamped' \subseteq unstamped
    <3>1. CASE fwd[fh[d].ino] \in Paths
      BY <1>9, <3>1, StampTouches DEF Release
    <3>2. CASE fwd[fh[d].ino] = None
      BY <1>9, <3>2 DEF Release
    <3> QED
      BY <2>1, <3>1, <3>2 DEF Table, Typed
  <2>3. \A e \in Fds : fh'[e] # Closed => fh'[e] = fh[e]
    BY <2>1 DEF Table, Typed
  <2> QED
    BY <2>1, <2>2, <2>3 DEF Bound
<1> QED
  BY <1>1, <1>2, <1>3, <1>4, <1>5, <1>6, <1>7, <1>8, <1>9
  DEF Next

(* Handles stay on their object. *)
LEMMA BoundInvariant == Spec => []Bound
<1>1. Table /\ Table' /\ Bound /\ Next => Bound'
  BY BoundStep
<1>2. Bound /\ UNCHANGED vars => Bound'
  BY DEF Bound, vars, table, backing, stamps
<1> QED
  BY <1>1, <1>2, BoundInit, TableInvariant, PTL DEF Spec

(* rec and hist are functions on the objects. *)
Recorded ==
  rec = [o \in Objs |-> rec[o]] /\ hist = [o \in Objs |-> hist[o]]

(* The records stay functions on the objects. *)
LEMMA RecordedInvariant == Spec => []Recorded
<1>1. Init => Recorded
  BY DEF Init, Recorded
<1>2. Recorded /\ [Next]_vars => Recorded'
  <2> SUFFICES ASSUME Recorded, [Next]_vars
               PROVE  Recorded'
    OBVIOUS
  <2>1. ASSUME NEW p, NEW o, NEW id, NEW touched, MaybeStamp(p, o, id, touched)
        PROVE  Recorded'
    <3>1. ASSUME NEW n, Stamp(o, id, n, touched)
          PROVE  Recorded'
      BY <3>1 DEF Stamp, Recorded
    <3> QED
      BY <2>1, <3>1 DEF MaybeStamp, Recorded
  <2>2. CASE UNCHANGED <<rec, hist>>
    BY <2>2 DEF Recorded
  <2>3. \/ \E p, o, id, touched : MaybeStamp(p, o, id, touched)
        \/ UNCHANGED <<rec, hist>>
    BY Zenon DEF Next, Lookup, Readdir, Unlink, Rmdir, Mkdir, Create, Release,
       Open, Setattr, Write, vars, stamps
  <2> QED
    BY <2>1, <2>2, <2>3
<1> QED
  BY <1>1, <1>2, PTL DEF Spec

(* A release stamps only the object its handle was opened on, whatever was *)
(* unlinked and created again while it was open.                           *)
THEOREM ReleaseIsFaithful == Spec => ReleaseStampsOwnFile
<1> DEFINE A == \A d \in Fds : fh[d] # Closed /\ fh'[d] = Closed
       => \A o \in Objs \ {fh[d].obj} : rec'[o] = rec[o] /\ hist'[o] = hist[o]
<1>1. Table /\ Bound /\ Recorded /\ [Next]_vars => [A]_vars
  <2> SUFFICES ASSUME Table, Bound, Recorded, Next, NEW d \in Fds, fh[d] # Closed,
                      fh'[d] = Closed, NEW o \in Objs \ {fh[d].obj}
               PROVE  rec'[o] = rec[o] /\ hist'[o] = hist[o]
    OBVIOUS
  <2> USE ProvFsAssumption DEF Table, stamps
  <2>1. fh' # fh
    OBVIOUS
  <2>2. ASSUME NEW e \in Fds, fh[e] = Closed, NEW h, fh' = [fh EXCEPT ![e] = h]
        PROVE  FALSE
    BY <2>2 DEF Typed
  <2>3. \E e \in Fds : Release(e)
    <3>1. ASSUME NEW q \in Paths, NEW proc \in Procs, NEW write \in BOOLEAN,
                 NEW e \in Fds, Create(q, proc, write, e)
          PROVE  FALSE
      BY <2>2, <3>1 DEF Create
    <3>2. ASSUME NEW i \in Inos, NEW proc \in Procs, NEW write \in BOOLEAN,
                 NEW e \in Fds, Open(i, proc, write, e)
          PROVE  FALSE
      BY <2>2, <3>2 DEF Open
    <3>3. ASSUME NEW q \in Paths
          PROVE  /\ ~Lookup(q) /\ ~Readdir(q) /\ ~Unlink(q) /\ ~Rmdir(q)
                 /\ \A proc \in Procs : ~Mkdir(q, proc)
      BY <2>1 DEF Lookup, Readdir, Unlink, Rmdir, Mkdir
    <3>4. /\ \A i \in Inos, proc \in Procs, truncate \in BOOLEAN :
               ~Setattr(i, proc, truncate)
          /\ \A e \in Fds : ~Write(e)
      BY <2>1 DEF Setattr, Write
    <3> QED
      BY <3>1, <3>2, <3>3, <3>4 DEF Next
  <2>4. Release(d)
    <3>1. PICK e \in Fds : Release(e)
      BY <2>3
    <3>2. fh' = [fh EXCEPT ![e] = Closed]
      BY <3>1 DEF Release
    <3>3. e = d
      BY <3>2 DEF Typed
    <3> QED
      BY <3>1, <3>3
  <2>5. CASE fh[d].ino \in dirty /\ fwd[fh[d].ino] # None
    <3>1. names[fwd[fh[d].ino]] = fh[d].obj
      BY <2>5 DEF Bound
    <3>2. PICK id \in {fh[d].proc, Unknown} :
            MaybeStamp(fwd[fh[d].ino], fh[d].obj, id, {})
      BY <2>4, <2>5, <3>1 DEF Release
    <3>3. \/ UNCHANGED <<rec, hist>>
          \/ \E n : Stamp(fh[d].obj, id, n, {})
      BY <3>2 DEF MaybeStamp
    <3> QED
      BY <3>3 DEF Stamp, Recorded
  <2>6. CASE ~(fh[d].ino \in dirty /\ fwd[fh[d].ino] # None)
    BY <2>4, <2>6 DEF Release
  <2> QED
    BY <2>5, <2>6
<1> QED
  BY <1>1, TableInvariant, BoundInvariant, RecordedInvariant, PTL
  DEF Spec, ReleaseStampsOwnFile

-----------------------------------------------------------------------------
(* Content changes and their stamps *)

(* ContentGetsStamped without its open handle, which DirtyImpliesOpen adds. *)
Marked ==
  \A p \in Paths \ SkippedPaths :
    names[p] \in unstamped \ faulty => rev[p] \in dirty

(* Every step keeps changed files marked for a stamp. *)
LEMMA MarkedStep ==
  ASSUME Table, Table', Bound, Marked, Next
  PROVE  Marked'
<1> USE ProvFsAssumption DEF table, backing, stamps
<1> SUFFICES ASSUME NEW q \in Paths \ SkippedPaths,
                    names'[q] \in unstamped' \ faulty'
             PROVE  rev'[q] \in dirty'
  BY DEF Marked
<1>0. /\ names[q] \in unstamped \ faulty => rev[q] \in dirty
      /\ rev[q] \in dirty => rev[q] # 0 /\ fwd[rev[q]] = q
      /\ 0 \notin unstamped
      /\ \A p \in Paths : names[p] = names[q] /\ names[q] # 0 => p = q
  BY DEF Marked, Bound, Table, Typed, TableInverse, Inos, Objs
<1>1. ASSUME NEW p \in Paths, Lookup(p)
      PROVE  rev'[q] \in dirty'
  <2>1. Intern(p) /\ UNCHANGED <<names, unstamped, faulty, dirty>>
    BY <1>1 DEF Lookup
  <2> QED
    BY <1>0, <2>1, InternKeeps DEF InoOf
<1>2. ASSUME NEW p \in Paths, Readdir(p)
      PROVE  rev'[q] \in dirty'
  <2>1. UNCHANGED <<names, unstamped, faulty, dirty>>
    BY <1>2 DEF Readdir
  <2>2. rev[q] # 0 => rev'[q] = rev[q]
    BY <1>2, ReaddirTyped DEF Table
  <2> QED
    BY <1>0, <2>1, <2>2
<1>3. ASSUME NEW p \in Paths, Unlink(p) \/ Rmdir(p)
      PROVE  rev'[q] \in dirty'
  <2>1. /\ names' = [names EXCEPT ![p] = 0] /\ rev' = [rev EXCEPT ![p] = 0]
        /\ UNCHANGED <<unstamped, faulty, dirty>>
    BY <1>3 DEF Unlink, Rmdir, ForgetPath
  <2> QED
    BY <1>0, <2>1 DEF Table, Typed
<1>4. ASSUME NEW p \in Paths, NEW proc \in Procs, Mkdir(p, proc)
      PROVE  rev'[q] \in dirty'
  <2>1. /\ Intern(p) /\ names' = [names EXCEPT ![p] = created + 1]
        /\ MaybeStamp(p, names'[p], proc, {}) /\ UNCHANGED dirty
        /\ created \in Int /\ created + 1 # 0
    BY <1>4 DEF Mkdir, NewObject, Table, Typed, Objs
  <2>2. unstamped' \ faulty' \subseteq unstamped \ faulty
    BY <2>1, StampTouches
  <2>3. q # p
    BY <2>1, <2>2 DEF Bound, Table, Typed
  <2>4. names'[q] = names[q] /\ rev'[q] = rev[q]
    BY <2>1, <2>3, InternKeeps DEF Table, Typed
  <2> QED
    BY <1>0, <2>1, <2>2, <2>4
<1>5. ASSUME NEW p \in Paths, NEW proc \in Procs, NEW write \in BOOLEAN,
             NEW d \in Fds, Create(p, proc, write, d)
      PROVE  rev'[q] \in dirty'
  <2>1. /\ Intern(p) /\ MaybeStamp(p, names'[p], proc, {names'[p]})
        /\ dirty' = dirty \cup {InoOf(p)}
    BY <1>5 DEF Create
  <2>2. CASE q = p
    BY <2>1, <2>2, InternKeeps
  <2>3. CASE q # p
    <3>1. /\ names'[q] = names[q] /\ names[p] \in {0, names'[p]}
          /\ names[p] = 0 => names'[p] = created + 1
      BY <1>5, <2>3, CreateEffect
    <3>2. unstamped' \ faulty' \subseteq (unstamped \ faulty) \cup {names'[p]}
      BY <2>1, StampTouches
    <3>3. names'[q] # 0 /\ names'[q] # names'[p]
      <4>1. names'[p] # 0
        BY <1>5, CreateEffect DEF Objs
      <4>2. names'[q] # 0
        BY <1>0, <3>2, <4>1
      <4>3. CASE names[p] = names'[p]
        BY <1>0, <2>3, <3>1, <4>1, <4>2, <4>3
      <4>4. CASE names'[p] = created + 1
        <5>1. names[q] \in Int /\ created \in Int /\ names[q] <= created
          BY DEF Bound, Table, Typed, Objs
        <5> QED
          BY <3>1, <4>2, <4>4, <5>1
      <4> QED
        BY <3>1, <4>2, <4>3, <4>4
    <3>4. rev'[q] = rev[q]
      BY <2>1, <2>3, InternKeeps
    <3> QED
      BY <1>0, <2>1, <3>1, <3>2, <3>3, <3>4
  <2> QED
    BY <2>2, <2>3
<1>6. ASSUME NEW i \in Inos, NEW proc \in Procs, NEW write \in BOOLEAN,
             NEW d \in Fds, Open(i, proc, write, d)
      PROVE  rev'[q] \in dirty'
  BY <1>0, <1>6 DEF Open
<1>7. ASSUME NEW i \in Inos, NEW proc \in Procs, NEW truncate \in BOOLEAN,
             Setattr(i, proc, truncate)
      PROVE  rev'[q] \in dirty'
  <2> DEFINE o == names[fwd[i]]
  <2>1. /\ fwd[i] \in Paths /\ o # 0 /\ UNCHANGED <<rev, dirty, names>>
        /\ MaybeStamp(fwd[i], o, proc, IF truncate THEN {o} ELSE {})
    BY <1>7 DEF Setattr, Table, Typed
  <2>2. /\ unstamped' \ faulty' \subseteq (unstamped \ faulty) \cup {o}
        /\ fwd[i] \notin SkippedPaths => o \notin unstamped' \ faulty'
    BY <2>1, StampTouches
  <2>3. names[q] # o
    <3>1. CASE fwd[i] = q
      BY <2>1, <2>2, <3>1
    <3>2. CASE fwd[i] # q
      BY <2>1, <3>2 DEF Bound
    <3> QED
      BY <3>1, <3>2
  <2> QED
    BY <1>0, <2>1, <2>2, <2>3
<1>8. ASSUME NEW d \in Fds, Write(d)
      PROVE  rev'[q] \in dirty'
  <2>1. /\ fh[d] # Closed /\ unstamped' = unstamped \cup {fh[d].obj}
        /\ dirty' = dirty \cup {fh[d].ino}
        /\ UNCHANGED <<rev, names, faulty>>
    BY <1>8 DEF Write, Closed
  <2>2. CASE names[q] = fh[d].obj
    <3>1. fwd[fh[d].ino] = q /\ fh[d].ino \in Inos
      BY <2>1, <2>2 DEF Bound, Table, Typed
    <3>2. rev[q] = fh[d].ino
      BY <3>1 DEF Table, TableInverse
    <3> QED
      BY <2>1, <3>2
  <2>3. CASE names[q] # fh[d].obj
    BY <1>0, <2>1, <2>3
  <2> QED
    BY <2>2, <2>3
<1>9. ASSUME NEW d \in Fds, Release(d)
      PROVE  rev'[q] \in dirty'
  <2> DEFINE i == fh[d].ino
  <2>1. /\ i \in Inos /\ dirty' = dirty \ {i} /\ UNCHANGED <<rev, names>>
    BY <1>9 DEF Release, Table, Typed
  <2>2. CASE i \in dirty /\ fwd[i] # None
    <3>1. PICK id : MaybeStamp(fwd[i], names[fwd[i]], id, {})
      BY <1>9, <2>2 DEF Release
    <3>2. fwd[i] \in Paths /\ names[fwd[i]] # 0
      BY <2>1, <2>2 DEF Bound, Table, Typed
    <3>3. /\ unstamped' \ faulty' \subseteq unstamped \ faulty
          /\ fwd[i] \notin SkippedPaths
               => names[fwd[i]] \notin unstamped' \ faulty'
      BY <3>1, <3>2, StampTouches
    <3>4. rev[q] \in dirty /\ fwd[rev[q]] = q
      BY <1>0, <2>1, <3>3
    <3>5. rev[q] # i
      BY <2>1, <3>3, <3>4
    <3> QED
      BY <2>1, <3>4, <3>5
  <2>3. CASE ~(i \in dirty /\ fwd[i] # None)
    <3>1. UNCHANGED <<unstamped, faulty>>
      BY <1>9, <2>3 DEF Release
    <3>2. rev[q] \in dirty /\ fwd[rev[q]] = q
      BY <1>0, <2>1, <3>1
    <3> QED
      BY <2>1, <2>3, <3>2
  <2> QED
    BY <2>2, <2>3
<1> QED
  BY <1>1, <1>2, <1>3, <1>4, <1>5, <1>6, <1>7, <1>8, <1>9
  DEF Next

(* A content change whose stamp is still due is marked, and a handle that  *)
(* will stamp it is open: no order of opens, writes, closes and unlinks    *)
(* loses the mark.                                                         *)
THEOREM ContentNeverForgotten == Spec => []ContentGetsStamped
<1>1. Init => Marked
  BY DEF Init, Marked
<1>2. Table /\ Table' /\ Bound /\ Marked /\ Next => Marked'
  BY MarkedStep
<1>3. Marked /\ UNCHANGED vars => Marked'
  BY DEF Marked, vars, table, backing, stamps
<1>4. Table /\ Marked => ContentGetsStamped
  BY DEF Table, Marked, ContentGetsStamped, DirtyImpliesOpen
<1> QED
  BY <1>1, <1>2, <1>3, <1>4, TableInvariant, BoundInvariant, PTL DEF Spec
-----------------------------------------------------------------------------
(* Records and histories *)

(* The stamps of every object are in range and belong together. *)
Stamped ==
  /\ rec \in [Objs -> [Keys -> Ids \cup {None}]]
  /\ hist \in [Objs -> Seq(Ids)]
  /\ \A o \in Objs : Len(hist[o]) <= MAX_HISTORY
  /\ unstamped \subseteq Objs /\ faulty \subseteq Objs
  /\ RecordCoherent

(* Every open handle has the process that opened it. *)
Attributed ==
  /\ writers \in [Objs -> SUBSET Procs]
  /\ \A d \in Fds : fh[d] # Closed => fh[d].proc \in Procs

(* What push_history() makes of a history that names no session twice. *)
LEMMA PushOne ==
  ASSUME NEW old \in Seq(Ids), NEW id \in Ids, NoRepeat(old), NEW new,
         new = PushHistory(old, <<id>>, MAX_HISTORY)
  PROVE  /\ new \in Seq(Ids) /\ Len(new) <= MAX_HISTORY /\ new # <<>>
         /\ Head(new) = id /\ NoRepeat(new)
<1>1. MAX_HISTORY \in Nat /\ 1 <= MAX_HISTORY
  BY ProvFsAssumption
<1>2. <<id>> \in Seq(Ids)
  OBVIOUS
<1>3. PICK rest \in Seq(Ids) :
        /\ new = <<id>> \o rest
        /\ IsRest(rest, old, Len(old), <<id>>, MAX_HISTORY)
  BY <1>1, <1>2, PushHistoryRing
<1>4. PICK m \in Nat : m = Len(rest)
  OBVIOUS
<1>5. /\ m < MAX_HISTORY /\ NoRepeat(rest)
      /\ \A j \in 1..m : <<rest[j]>> # <<id>>
  BY <1>3, <1>4, Zenon DEF IsRest
<1>6. /\ new \in Seq(Ids) /\ Len(new) = m + 1 /\ new[1] = id /\ new # <<>>
      /\ \A j \in 1..m : new[j + 1] = rest[j]
  <2>1. new = <<id>> \o rest
    BY <1>3
  <2>2. Len(<<id>>) = 1 /\ <<id>>[1] = id
    OBVIOUS
  <2>3. new \in Seq(Ids) /\ Len(new) = m + 1
    BY <1>2, <1>4, <2>1, <2>2
  <2>4. new[1] = id /\ new # <<>>
    BY <1>2, <1>4, <2>1, <2>2, <2>3
  <2>5. \A j \in 1..m : new[j + 1] = rest[j]
    BY <1>2, <1>4, <2>1, <2>2
  <2> QED BY <2>3, <2>4, <2>5
<1>7. Head(new) = id
  BY <1>6
<1>8. NoRepeat(new)
  <2> SUFFICES ASSUME NEW i \in 1..(m + 1), NEW j \in 1..(m + 1),
                      new[i] = new[j], i < j
               PROVE  FALSE
    BY <1>6 DEF NoRepeat
  <2>1. j - 1 \in 1..m /\ new[j] = rest[j - 1]
    <3>1. j - 1 \in 1..m /\ (j - 1) + 1 = j
      OBVIOUS
    <3> QED BY <1>6, <3>1
  <2>2. CASE i = 1
    BY <1>5, <1>6, <2>1, <2>2
  <2>3. CASE i # 1
    <3>1. i - 1 \in 1..m /\ (i - 1) + 1 = i
      BY <2>3
    <3>2. rest[i - 1] = rest[j - 1]
      BY <1>6, <2>1, <3>1
    <3>3. i - 1 = j - 1
      BY <1>4, <1>5, <2>1, <3>1, <3>2 DEF NoRepeat
    <3> QED BY <3>3
  <2> QED BY <2>2, <2>3
<1>9. Len(new) <= MAX_HISTORY
  BY <1>1, <1>5, <1>6
<1> QED BY <1>6, <1>7, <1>8, <1>9

(* stamp() that goes through leaves a coherent record and one that fails   *)
(* is known to have failed.                                                *)
LEMMA StampCoherent ==
  ASSUME Stamped, NEW o \in Objs, NEW id \in Ids, NEW touched \in SUBSET Objs,
         NEW n \in FailPoints \cup {AllWritten}, Stamp(o, id, n, touched)
  PROVE  Stamped'
<1> USE ProvFsAssumption DEF Stamped
<1>1. rec' = [rec EXCEPT ![o] = [k \in Keys |->
               IF k \in KeysOf(id) /\ Rank[k] <= n THEN id ELSE rec[o][k]]]
  BY DEF Stamp
<1>2. /\ rec' \in [Objs -> [Keys -> Ids \cup {None}]]
      /\ \A q \in Objs : q # o => rec'[q] = rec[q]
  BY <1>1
<1>3. unstamped' \subseteq Objs /\ faulty' \subseteq Objs
  BY DEF Stamp
<1>4. CASE n # AllWritten
  <2>1. hist' = hist /\ faulty' = faulty \cup {o}
    BY <1>4 DEF Stamp
  <2> QED BY <1>2, <1>3, <2>1 DEF RecordCoherent
<1>5. CASE n = AllWritten
  <2>1. PICK prior \in Prior(o) :
          hist' = [hist EXCEPT ![o] = PushHistory(prior, <<id>>, MAX_HISTORY)]
    BY <1>5 DEF Stamp
  <2>2. prior \in Seq(Ids) /\ NoRepeat(prior)
    <3>1. prior = hist[o] \/ prior = <<>>
      BY DEF Prior
    <3>2. NoRepeat(hist[o])
      BY DEF RecordCoherent, NoRepeat
    <3>3. NoRepeat(<<>>)
      BY DEF NoRepeat
    <3>4. hist[o] \in Seq(Ids) /\ <<>> \in Seq(Ids)
      OBVIOUS
    <3> QED BY <3>1, <3>2, <3>3, <3>4, Zenon
  <2>3. PICK new : new = PushHistory(prior, <<id>>, MAX_HISTORY)
    OBVIOUS
  <2>4. /\ new \in Seq(Ids) /\ Len(new) <= MAX_HISTORY /\ new # <<>>
        /\ Head(new) = id /\ NoRepeat(new)
    BY <2>2, <2>3, PushOne
  <2>5. /\ hist' \in [Objs -> Seq(Ids)] /\ hist'[o] = new
        /\ \A q \in Objs : q # o => hist'[q] = hist[q]
    BY <2>1, <2>3, <2>4
  <2>6. \A k \in {"session", "tool", "ts"} : rec'[o][k] = id
    <3>1. \A k \in {"session", "tool", "ts"} :
            k \in Keys /\ k \in KeysOf(id) /\ Rank[k] <= n
      BY <1>5 DEF Keys, KeysOf, OptionalKeys, Rank, AllWritten
    <3> QED BY <1>1, <3>1
  <2>7. faulty' = faulty \ {o}
    BY <1>5 DEF Stamp
  <2>8. RecordCoherent'
    <3> SUFFICES ASSUME NEW q \in Objs
                 PROVE  /\ NoRepeat(hist'[q])
                        /\ q \notin faulty' /\ hist'[q] # <<>> =>
                             \A k \in {"session", "tool", "ts"} :
                               rec'[q][k] = Head(hist'[q])
      BY DEF RecordCoherent, NoRepeat
    <3>1. CASE q = o
      BY <2>4, <2>5, <2>6, <3>1
    <3>2. CASE q # o
      <4>1. hist'[q] = hist[q] /\ rec'[q] = rec[q] /\ (q \in faulty' <=> q \in faulty)
        BY <1>2, <2>5, <2>7, <3>2
      <4> QED BY <4>1 DEF RecordCoherent, NoRepeat
    <3> QED BY <3>1, <3>2
  <2>9. \A q \in Objs : Len(hist'[q]) <= MAX_HISTORY
    BY <2>4, <2>5
  <2> QED BY <1>2, <1>3, <2>5, <2>8, <2>9
<1> QED BY <1>4, <1>5

(* maybe_stamp() keeps the stamps in range and coherent. *)
LEMMA MaybeStampCoherent ==
  ASSUME Stamped, NEW p, NEW o \in 0..MaxObj, NEW id \in Ids,
         NEW touched \in SUBSET Objs, MaybeStamp(p, o, id, touched)
  PROVE  Stamped'
<1>1. CASE p \in SkippedPaths \/ o = 0
  BY <1>1 DEF MaybeStamp, Stamped, RecordCoherent
<1>2. CASE ~(p \in SkippedPaths \/ o = 0)
  <2>1. o \in Objs
    BY <1>2, ProvFsAssumption DEF Objs
  <2>2. PICK n \in FailPoints \cup {AllWritten} : Stamp(o, id, n, touched)
    BY <1>2 DEF MaybeStamp
  <2> QED BY <2>1, <2>2, StampCoherent
<1> QED BY <1>1, <1>2

(* A step that leaves the stamps alone keeps them coherent. *)
LEMMA StampsKept == ASSUME Stamped, UNCHANGED stamps PROVE Stamped'
BY DEF Stamped, RecordCoherent, stamps

(* A fresh overlay has no content to stamp and no record to attribute. *)
LEMMA StampedInit == Init => Stamped /\ Attributed
<1> SUFFICES ASSUME Init PROVE Stamped /\ Attributed
  OBVIOUS
<1> USE ProvFsAssumption DEF Init
<1>1. \A o \in Objs : hist[o] = <<>>
  OBVIOUS
<1>2. hist \in [Objs -> Seq(Ids)] /\ \A o \in Objs : Len(hist[o]) <= MAX_HISTORY
  OBVIOUS
<1>3. RecordCoherent
  BY <1>1 DEF RecordCoherent
<1>4. Stamped
  BY <1>2, <1>3 DEF Stamped
<1>5. Attributed
  BY DEF Attributed
<1> QED BY <1>4, <1>5

(* Every handler keeps records and histories in order.                     *)
LEMMA StampedStep ==
  ASSUME Table, Stamped, Attributed, Next
  PROVE  Stamped' /\ Attributed'
<1> USE ProvFsAssumption DEF Table
<1>1. ASSUME NEW p \in Paths,
             Lookup(p) \/ Readdir(p) \/ Unlink(p) \/ Rmdir(p)
      PROVE  Stamped' /\ Attributed'
  <2>1. UNCHANGED <<stamps, writers, fh>>
    BY <1>1 DEF Lookup, Readdir, Unlink, Rmdir
  <2> QED BY <2>1, StampsKept DEF Attributed
<1>2. ASSUME NEW p \in Paths, NEW proc \in Procs, Mkdir(p, proc)
      PROVE  Stamped' /\ Attributed'
  <2>1. names'[p] \in 0..MaxObj /\ proc \in Ids
    BY <1>2 DEF Mkdir, NewObject, Typed, Ids
  <2>2. MaybeStamp(p, names'[p], proc, {}) /\ {} \in SUBSET Objs
    BY <1>2 DEF Mkdir
  <2>3. Stamped'
    BY <2>1, <2>2, MaybeStampCoherent
  <2>4. Attributed'
    BY <1>2 DEF Mkdir, Attributed
  <2> QED BY <2>3, <2>4
<1>3. ASSUME NEW p \in Paths, NEW proc \in Procs, NEW write \in BOOLEAN,
             NEW d \in Fds, Create(p, proc, write, d)
      PROVE  Stamped' /\ Attributed'
  <2>1. names'[p] \in Objs /\ proc \in Ids
    <3>1. CASE NewObject(p, "file")
      BY <3>1 DEF NewObject, Typed, Objs, Ids
    <3>2. CASE IsFile(p) /\ UNCHANGED backing
      BY <3>2 DEF IsFile, Typed, Objs, Ids, backing
    <3> QED BY <1>3, <3>1, <3>2 DEF Create
  <2>2. MaybeStamp(p, names'[p], proc, {names'[p]})
    BY <1>3 DEF Create
  <2>3. names'[p] \in 0..MaxObj /\ {names'[p]} \in SUBSET Objs
    BY <2>1 DEF Objs
  <2>4. Stamped'
    BY <2>1, <2>2, <2>3, MaybeStampCoherent
  <2>5. writers' \in [Objs -> SUBSET Procs]
    BY <1>3 DEF Create, Attributed
  <2>6. \A e \in Fds : fh'[e] # Closed => fh'[e].proc \in Procs
    BY <1>3 DEF Create, Attributed, Typed
  <2> QED BY <2>4, <2>5, <2>6 DEF Attributed
<1>4. ASSUME NEW i \in Inos, NEW proc \in Procs, NEW write \in BOOLEAN,
             NEW d \in Fds, Open(i, proc, write, d)
      PROVE  Stamped' /\ Attributed'
  <2>1. Stamped'
    BY <1>4, StampsKept DEF Open
  <2>2. writers' \in [Objs -> SUBSET Procs]
    BY <1>4 DEF Open, Attributed
  <2>3. \A e \in Fds : fh'[e] # Closed => fh'[e].proc \in Procs
    BY <1>4 DEF Open, Attributed, Typed
  <2> QED BY <2>1, <2>2, <2>3 DEF Attributed
<1>5. ASSUME NEW i \in Inos, NEW proc \in Procs, NEW truncate \in BOOLEAN,
             Setattr(i, proc, truncate)
      PROVE  Stamped' /\ Attributed'
  <2>1. fwd[i] \in Paths /\ names[fwd[i]] \in 0..MaxObj /\ names[fwd[i]] \in Objs
    BY <1>5 DEF Setattr, Typed, Objs
  <2>2. PICK touched \in SUBSET Objs : MaybeStamp(fwd[i], names[fwd[i]], proc, touched)
    <3>1. (IF truncate THEN {names[fwd[i]]} ELSE {}) \in SUBSET Objs
      BY <2>1
    <3> QED BY <1>5, <3>1 DEF Setattr
  <2>3. Stamped'
    BY <2>1, <2>2, MaybeStampCoherent DEF Ids
  <2>4. Attributed'
    BY <1>5 DEF Setattr, Attributed
  <2> QED BY <2>3, <2>4
<1>6. ASSUME NEW d \in Fds, Write(d)
      PROVE  Stamped' /\ Attributed'
  <2>1. fh[d].obj \in Objs
    BY <1>6 DEF Write, Typed, Closed
  <2>2. Stamped'
    BY <1>6, <2>1 DEF Write, Stamped, RecordCoherent
  <2>3. Attributed'
    BY <1>6 DEF Write, Attributed
  <2> QED BY <2>2, <2>3
<1>7. ASSUME NEW d \in Fds, Release(d)
      PROVE  Stamped' /\ Attributed'
  <2> DEFINE i == fh[d].ino
  <2>1. Attributed'
    BY <1>7 DEF Release, Attributed, Typed
  <2>2. CASE i \in dirty /\ fwd[i] # None
    <3>1. PICK id \in {fh[d].proc, Unknown} :
            MaybeStamp(fwd[i], names[fwd[i]], id, {})
      BY <1>7, <2>2 DEF Release
    <3>2. id \in Ids
      BY <1>7 DEF Release, Attributed, Ids
    <3>3. names[fwd[i]] \in 0..MaxObj /\ {} \in SUBSET Objs
      BY <2>2 DEF Typed
    <3>4. Stamped'
      BY <3>1, <3>2, <3>3, MaybeStampCoherent
    <3> QED BY <2>1, <3>4
  <2>3. CASE ~(i \in dirty /\ fwd[i] # None)
    <3>1. UNCHANGED stamps
      BY <1>7, <2>3 DEF Release
    <3> QED BY <2>1, <3>1, StampsKept
  <2> QED BY <2>2, <2>3
<1> QED
  BY <1>1, <1>2, <1>3, <1>4, <1>5, <1>6, <1>7 DEF Next

(* The stamps are in range and coherent throughout. *)
LEMMA StampedInvariant == Spec => [](Table /\ Stamped /\ Attributed)
<1>1. Stamped /\ Attributed /\ UNCHANGED vars => Stamped' /\ Attributed'
  BY StampsKept DEF vars, Attributed
<1>2. Table /\ Stamped /\ Attributed /\ [Next]_vars
        => (Table /\ Stamped /\ Attributed)'
  BY <1>1, TableStep, TableStutter, StampedStep
<1> QED BY <1>2, TableInit, StampedInit, PTL DEF Spec

(* Every variable of the overlay stays in its range, and the history ring  *)
(* never outgrows MAX_HISTORY, whoever stamps and whichever stamps fail.   *)
THEOREM OverlayTypeCorrect == Spec => []TypeOK
<1>1. Table /\ Stamped /\ Attributed => TypeOK
  BY DEF Table, Typed, Stamped, Attributed, TypeOK, Handle
<1> QED BY <1>1, StampedInvariant, PTL

(* After a stamp that went through, session, tool, ts and the head of the  *)
(* history are of one identity, and no history names a session twice,      *)
(* whichever stamps before it failed half-way or could not read it.        *)
THEOREM RecordsAreCoherent == Spec => []RecordCoherent
<1>1. Stamped => RecordCoherent
  BY DEF Stamped
<1> QED BY <1>1, StampedInvariant, PTL

-----------------------------------------------------------------------------
(* The skip list of module OverlaySkip, for every tree and every list *)

PrefixType(Name) == [names : Seq(Name), rest : STRING]

(* An occurrence of a prefix in a path is one in every longer path, at the *)
(* place the path was moved to.                                            *)
LEMMA OccurrenceKept ==
  ASSUME NEW Name, NEW p \in Seq(Name), NEW q \in Seq(Name), NEW r \in Seq(Name),
         NEW pre \in PrefixType(Name), NEW i \in Nat, 1 <= i,
         OccursAt(p, pre, i)
  PROVE  OccursAt(q \o p \o r, pre, Len(q) + i)
<1> DEFINE s == q \o p \o r
<1>1. PICK m \in Nat : m = Len(q)
  OBVIOUS
<1>2. PICK k \in Nat : k = Len(pre.names)
  BY DEF PrefixType
<1>3. i + k <= Len(p)
  BY <1>2 DEF OccursAt
<1>4. \A j \in 1..k : p[i + j - 1] = pre.names[j]
  BY <1>2, Zenon DEF OccursAt
<1>5. pre.rest = "" \/ <<pre.rest, p[i + k]>> \in Begins
  BY <1>2, Zenon DEF OccursAt
<1>6. Len(p) \in Nat /\ Len(s) \in Nat /\ Len(p) + m <= Len(s)
  BY <1>1
<1>7. \A n \in 1..Len(p) : s[m + n] = p[n]
  BY <1>1
<1> HIDE DEF s
<1>8. (m + i) + k <= Len(s)
  BY <1>3, <1>6
<1>9. \A j \in 1..k : s[(m + i) + j - 1] = pre.names[j]
  <2> TAKE j \in 1..k
  <2>1. i + j - 1 \in 1..Len(p) /\ (m + i) + j - 1 = m + (i + j - 1)
    BY <1>3, <1>6
  <2> QED BY <1>4, <1>7, <2>1
<1>10. s[(m + i) + k] = p[i + k]
  <2>1. i + k \in 1..Len(p) /\ (m + i) + k = m + (i + k)
    BY <1>3, <1>6
  <2> QED BY <1>7, <2>1
<1>11. OccursAt(s, pre, m + i)
  BY <1>2, <1>5, <1>8, <1>9, <1>10, Zenon DEF OccursAt
<1> QED BY <1>1, <1>11 DEF s

(* should_skip() suppresses whole subtrees and does not depend on where a  *)
(* project lies in the tree: if a path is skipped, so is every path below  *)
(* it, and so are both when they are moved into another directory.         *)
THEOREM SkipIsClosed ==
  ASSUME NEW Name, NEW p \in Seq(Name), NEW q \in Seq(Name), NEW r \in Seq(Name),
         NEW prefixes \in SUBSET PrefixType(Name),
         ShouldSkip(p, prefixes)
  PROVE  ShouldSkip(q \o p \o r, prefixes)
<1> DEFINE s == q \o p \o r
<1>1. PICK pre \in prefixes : StartsWith(p, pre) \/ ContainsSegment(p, pre)
  BY DEF ShouldSkip
<1>2. PICK i \in Nat : 1 <= i /\ OccursAt(p, pre, i)
  BY <1>1 DEF StartsWith, ContainsSegment
<1>3. pre \in PrefixType(Name)
  BY <1>1
<1>4. OccursAt(s, pre, Len(q) + i)
  BY <1>2, <1>3, OccurrenceKept
<1>5. Len(q) + i \in 1..Len(s)
  <2>1. PICK m \in Nat : m = Len(q)
    OBVIOUS
  <2>2. PICK k \in Nat : k = Len(pre.names)
    BY <1>3 DEF PrefixType
  <2>3. PICK n \in Nat : n = Len(s)
    OBVIOUS
  <2> HIDE DEF s
  <2>4. (m + i) + k <= n
    BY <1>4, <2>1, <2>2, <2>3, Zenon DEF OccursAt
  <2>5. 1 <= i
    BY <1>2
  <2>6. m + i \in 1..n
    BY <2>4, <2>5
  <2> QED BY <2>1, <2>3, <2>6
<1>6. StartsWith(s, pre) \/ ContainsSegment(s, pre)
  <2>1. CASE Len(q) + i = 1
    BY <1>4, <2>1 DEF StartsWith
  <2>2. CASE Len(q) + i # 1
    <3>1. Len(q) + i \in 2..Len(s)
      BY <1>5, <2>2
    <3> HIDE DEF s
    <3> QED BY <1>4, <3>1 DEF ContainsSegment
  <2> QED BY <2>1, <2>2
<1> HIDE DEF s
<1>7. ShouldSkip(s, prefixes)
  BY <1>1, <1>6 DEF ShouldSkip
<1> QED BY <1>7 DEF s

(* A user's --skip only ever adds: what the defaults suppress stays        *)
(* suppressed.                                                             *)
THEOREM UserSpecOnlyAdds ==
  ASSUME NEW p, NEW extra, ShouldSkip(p, DEFAULT_SKIP_PREFIXES)
  PROVE  ShouldSkip(p, FromUserSpec(extra))
BY DEF ShouldSkip, FromUserSpec
=============================================================================
