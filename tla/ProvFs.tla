------------------------------- MODULE ProvFs -------------------------------
(***************************************************************************)
(* The FUSE overlay (src/fs.rs): a passthrough file system that maps FUSE  *)
(* inode numbers to paths under the backing directory and stamps           *)
(* user.prov.* on the write-path operations.                               *)
(*                                                                         *)
(* fuser::mount2 runs one session thread and every handler takes &mut self,*)
(* so a handler is one action, its stamp() included, between which the     *)
(* processes interleave.  That is the whole story only where the overlay   *)
(* alone changes the backing directory, which this module assumes: stamp() *)
(* makes one path-based call per key, and what happens when other users of *)
(* the directory or the items of the LSM come between two of them is the   *)
(* subject of module ProvRecord.  Handlers that change nothing modelled here  *)
(* are left to stuttering: getattr, read, and every error reply.  (An      *)
(* error after a change leaves only a mode that chmod set before truncate  *)
(* failed.)                                                                *)
(*                                                                         *)
(* Backing files are objects: numbers never reused, so that a file removed *)
(* and created again at its path is another object.  A key's value is the  *)
(* identity it was rendered from.                                          *)
(***************************************************************************)
EXTENDS Integers, Sequences, FiniteSets, History

CONSTANTS
  Paths,         \* the paths of the tree under the backing directory
  Root,          \* the backing directory itself
  Parent,        \* the directory each path other than Root is in
  SkippedPaths,  \* paths the skip list suppresses
  Procs,         \* calling processes
  Unknown,       \* the identity of a pid that /proc no longer has
  Env,           \* the optional keys each process's environment sets
  Fds,           \* file descriptors of the daemon
  MAX_HISTORY,   \* length of the history ring (5)
  FailPoints,    \* how many keys a failing stamp() may have written
  MaxIno,        \* bound: inode numbers handed out
  MaxObj,        \* bound: backing objects ever created
  None           \* "no path" and "no value"

Inos == 1..MaxIno
Objs == 1..MaxObj
ROOT_INO == 1
Ids == Procs \cup {Unknown}
Keys == {"session", "tool", "turn", "intent", "ts"}
OptionalKeys == {"turn", "intent"}

ASSUME ProvFsAssumption ==
  /\ IsFiniteSet(Paths)
  /\ Root \in Paths /\ None \notin Paths
  /\ Parent \in [Paths \ {Root} -> Paths]
  /\ \A p \in Paths \ {Root} : Parent[p] # p
  /\ SkippedPaths \subseteq Paths
  /\ Unknown \notin Procs /\ None \notin Ids
  /\ Env \in [Ids -> SUBSET OptionalKeys]
  /\ MAX_HISTORY \in Nat \ {0}
  /\ FailPoints \subseteq 0..5
  /\ MaxIno \in Nat \ {0} /\ MaxObj \in Nat \ {0, 1}

VARIABLES
  fwd,       \* InodeTable.fwd: the path of each inode number, or None
  rev,       \* InodeTable.rev: the inode number of each path, or 0
  next,      \* InodeTable.next
  dirty,     \* ProvFs.dirty: the inode numbers release() must stamp
  fh,        \* the open file each descriptor stands for
  names,     \* the backing object at each path, or 0
  kind,      \* "file" or "dir"
  created,   \* backing objects created so far (the first two at mount)
  rec,       \* user.prov.* of each object, without the history
  hist,      \* user.prov.history of each object
  \* History variables, read by the properties only.
  unstamped, \* objects whose content changed since their last full stamp
  faulty,    \* objects whose last stamp() failed half-way
  writers    \* the processes that created each object, opened it for
             \* writing or changed it

table == <<fwd, rev, next>>
backing == <<names, kind, created>>
stamps == <<rec, hist, unstamped, faulty>>
vars == <<table, dirty, fh, backing, stamps, writers>>

Closed == [ino |-> 0, obj |-> 0, proc |-> None, write |-> FALSE]
Children(p) == {q \in Paths \ {Root} : Parent[q] = p}
IsFile(p) == names[p] # 0 /\ kind[names[p]] = "file"
IsDir(p) == names[p] # 0 /\ kind[names[p]] = "dir"

(* A request names p by its parent directory, found in the inode table. *)
Resolves(p) == p # Root /\ \E i \in Inos : fwd[i] = Parent[p]

(* with_root() over an unstamped backing directory, empty or with a file. *)
Init ==
  /\ fwd = [i \in Inos |-> IF i = ROOT_INO THEN Root ELSE None]
  /\ rev = [p \in Paths |-> IF p = Root THEN ROOT_INO ELSE 0]
  /\ next = ROOT_INO + 1
  /\ dirty = {}
  /\ fh = [d \in Fds |-> Closed]
  /\ \E old \in Children(Root) \cup {Root} :
       names = [p \in Paths |-> IF p = Root THEN 1 ELSE IF p = old THEN 2 ELSE 0]
  /\ kind = [o \in Objs |-> IF o = 1 THEN "dir" ELSE "file"]
  /\ created = 2
  /\ rec = [o \in Objs |-> [k \in Keys |-> None]]
  /\ hist = [o \in Objs |-> <<>>]
  /\ unstamped = {} /\ faulty = {}
  /\ writers = [o \in Objs |-> {}]

-----------------------------------------------------------------------------
(* InodeTable *)

InoOf(p) == IF rev[p] # 0 THEN rev[p] ELSE next

MutInternReuses(p) ==
  \/ rev[p] # 0 /\ UNCHANGED table
  \/ /\ rev[p] = 0
     /\ LET i == CHOOSE j \in Inos : /\ fwd[j] = None
                                     /\ \A k \in 1..(j - 1) : fwd[k] # None
        IN fwd' = [fwd EXCEPT ![i] = p] /\ rev' = [rev EXCEPT ![p] = i]
     /\ next' = next + 1

Intern(p) ==
  \/ rev[p] # 0 /\ UNCHANGED table
  \/ /\ rev[p] = 0 /\ next \in Inos
     /\ fwd' = [fwd EXCEPT ![next] = p]
     /\ rev' = [rev EXCEPT ![p] = next]
     /\ next' = next + 1

MutForgetReverseOnly(p) ==
  rev' = [rev EXCEPT ![p] = 0] /\ UNCHANGED <<fwd, next>>

ForgetPath(p) ==
  /\ fwd' = [i \in Inos |-> IF i = rev[p] THEN None ELSE fwd[i]]
  /\ rev' = [rev EXCEPT ![p] = 0]
  /\ UNCHANGED next

-----------------------------------------------------------------------------
(* Stamping *)

(* The order in which stamp() writes; the history comes last, as number 6. *)
Rank == [session |-> 1, tool |-> 2, turn |-> 3, intent |-> 4, ts |-> 5]
AllWritten == 6

(* The keys identity id writes: the optional ones only when it has them. *)
KeysOf(id) == (Keys \ OptionalKeys) \cup Env[id]

(* What read_str() may give as the history of o before the push: where     *)
(* stamping can fail, a history that cannot be read counts as an empty one.*)
Prior(o) == {hist[o]} \cup (IF FailPoints = {} THEN {} ELSE {<<>>})

(* xattrs::stamp() of object o for id, cut short by an error at its n-th   *)
(* key unless n is AllWritten; stamp_now() only logs the error.            *)
Stamp(o, id, n, touched) ==
  /\ rec' = [rec EXCEPT ![o] = [k \in Keys |->
               IF k \in KeysOf(id) /\ Rank[k] <= n THEN id ELSE rec[o][k]]]
  /\ \/ n # AllWritten /\ UNCHANGED hist
     \/ /\ n = AllWritten
        /\ \E prior \in Prior(o) :
             hist' = [hist EXCEPT ![o] = PushHistory(prior, <<id>>, MAX_HISTORY)]
  /\ unstamped' = IF n = AllWritten
                    THEN (unstamped \cup touched) \ {o}
                    ELSE unstamped \cup touched
  /\ faulty' = IF n = AllWritten THEN faulty \ {o} ELSE faulty \cup {o}

(* maybe_stamp() of the object o now at path p, if there is one. *)
MaybeStamp(p, o, id, touched) ==
  IF p \in SkippedPaths \/ o = 0
    THEN /\ unstamped' = unstamped \cup touched
         /\ UNCHANGED <<rec, hist, faulty>>
    ELSE \E n \in FailPoints \cup {AllWritten} : Stamp(o, id, n, touched)

-----------------------------------------------------------------------------
(* Handlers that do not stamp *)

Lookup(p) ==
  /\ Resolves(p) /\ names[p] # 0
  /\ Intern(p)
  /\ UNCHANGED <<dirty, fh, backing, stamps, writers>>

(* readdir() interns every entry it reads, in the order of the listing; a  *)
(* read cut short by an error (module ProvListing) interns some of them,   *)
(* which is what as many lookups do.                                       *)
Readdir(p) ==
  LET fresh == {q \in Children(p) : names[q] # 0 /\ rev[q] = 0}
      last == next + Cardinality(fresh) - 1
  IN /\ \E i \in Inos : fwd[i] = p
     /\ IsDir(p) /\ last <= MaxIno
     /\ \E num \in [fresh -> next..last] :
          /\ \A q, r \in fresh : num[q] = num[r] => q = r
          /\ fwd' = [i \in Inos |-> IF \E q \in fresh : num[q] = i
                                      THEN CHOOSE q \in fresh : num[q] = i
                                      ELSE fwd[i]]
          /\ rev' = [q \in Paths |-> IF q \in fresh THEN num[q] ELSE rev[q]]
     /\ next' = last + 1
     /\ UNCHANGED <<dirty, fh, backing, stamps, writers>>

Open(i, proc, write, d) ==
  /\ fwd[i] # None /\ IsFile(fwd[i])
  /\ fh[d] = Closed
  /\ fh' = [fh EXCEPT ![d] = [ino |-> i, obj |-> names[fwd[i]],
                              proc |-> proc, write |-> write]]
  /\ dirty' = IF write THEN dirty \cup {i} ELSE dirty
  /\ writers' = IF write THEN [writers EXCEPT ![names[fwd[i]]] = @ \cup {proc}]
                         ELSE writers
  /\ UNCHANGED <<table, backing, stamps>>

MutWriteNotDirty(d) ==
  /\ fh[d].write
  /\ unstamped' = unstamped \cup {fh[d].obj}
  /\ UNCHANGED <<table, dirty, fh, backing, rec, hist, faulty, writers>>

(* write() does not stamp: it leaves that to release(). *)
Write(d) ==
  /\ fh[d].write
  /\ dirty' = dirty \cup {fh[d].ino}
  /\ unstamped' = unstamped \cup {fh[d].obj}
  /\ UNCHANGED <<table, fh, backing, rec, hist, faulty, writers>>

MutUnlinkKeepsInode(p) ==
  /\ Resolves(p) /\ IsFile(p)
  /\ names' = [names EXCEPT ![p] = 0]
  /\ UNCHANGED <<table, dirty, fh, kind, created, stamps, writers>>

(* An open file outlives its name; its inode number does not. *)
Unlink(p) ==
  /\ Resolves(p) /\ IsFile(p)
  /\ names' = [names EXCEPT ![p] = 0]
  /\ ForgetPath(p)
  /\ UNCHANGED <<dirty, fh, kind, created, stamps, writers>>

Rmdir(p) ==
  /\ Resolves(p) /\ IsDir(p)
  /\ \A q \in Children(p) : names[q] = 0
  /\ names' = [names EXCEPT ![p] = 0]
  /\ ForgetPath(p)
  /\ UNCHANGED <<dirty, fh, kind, created, stamps, writers>>

-----------------------------------------------------------------------------
(* Handlers that stamp *)

(* A new object of the given kind at p. *)
NewObject(p, what) ==
  /\ created \in 1..(MaxObj - 1)
  /\ names' = [names EXCEPT ![p] = created + 1]
  /\ kind' = [kind EXCEPT ![created + 1] = what]
  /\ created' = created + 1

(* create(): open(2) with O_CREAT makes the file or opens the one there;   *)
(* the inode is marked dirty whatever the access mode.                     *)
Create(p, proc, write, d) ==
  /\ Resolves(p) /\ IsDir(Parent[p]) /\ fh[d] = Closed
  /\ \/ names[p] = 0 /\ NewObject(p, "file")
     \/ IsFile(p) /\ UNCHANGED backing
  /\ Intern(p)
  /\ LET o == names'[p]
     IN /\ MaybeStamp(p, o, proc, {o})
        /\ fh' = [fh EXCEPT ![d] = [ino |-> InoOf(p), obj |-> o,
                                    proc |-> proc, write |-> write]]
        /\ writers' = [writers EXCEPT ![o] = @ \cup {proc}]
  /\ dirty' = dirty \cup {InoOf(p)}

MutReleaseKeepsFlag(d) ==
  /\ fh[d] # Closed
  /\ fh' = [fh EXCEPT ![d] = Closed]
  /\ LET i == fh[d].ino
         id == fh[d].proc
     IN IF i \in dirty /\ fwd[i] # None
          THEN /\ MaybeStamp(fwd[i], names[fwd[i]], id, {})
               /\ dirty' = dirty \ {i}
          ELSE UNCHANGED <<stamps, dirty>>
  /\ UNCHANGED <<table, backing, writers>>

(* release(): the flag is per inode, so the first release after a write    *)
(* takes it, whoever closes.  The process may have exited by then.         *)
Release(d) ==
  /\ fh[d] # Closed
  /\ fh' = [fh EXCEPT ![d] = Closed]
  /\ LET i == fh[d].ino
     IN /\ dirty' = dirty \ {i}
        /\ IF i \in dirty /\ fwd[i] # None
             THEN \E id \in {fh[d].proc, Unknown} :
                    MaybeStamp(fwd[i], names[fwd[i]], id, {})
             ELSE UNCHANGED stamps
  /\ UNCHANGED <<table, backing, writers>>

(* setattr(): chmod, truncate or neither (the times are ignored), and a    *)
(* stamp in every case; truncate changes the content of a file.            *)
Setattr(i, proc, truncate) ==
  /\ fwd[i] # None /\ names[fwd[i]] # 0
  /\ truncate => IsFile(fwd[i])
  /\ LET p == fwd[i]
         o == names[p]
     IN /\ MaybeStamp(p, o, proc, IF truncate THEN {o} ELSE {})
        /\ writers' = [writers EXCEPT ![o] = @ \cup {proc}]
  /\ UNCHANGED <<table, dirty, fh, backing>>

Mkdir(p, proc) ==
  /\ Resolves(p) /\ IsDir(Parent[p]) /\ names[p] = 0
  /\ NewObject(p, "dir")
  /\ Intern(p)
  /\ MaybeStamp(p, names'[p], proc, {})
  /\ writers' = [writers EXCEPT ![names'[p]] = @ \cup {proc}]
  /\ UNCHANGED <<dirty, fh>>

-----------------------------------------------------------------------------
Next ==
  \/ \E p \in Paths :
       \/ Lookup(p) \/ Readdir(p) \/ Unlink(p) \/ Rmdir(p)
       \/ \E proc \in Procs : Mkdir(p, proc)
       \/ \E proc \in Procs, write \in BOOLEAN, d \in Fds :
            Create(p, proc, write, d)
  \/ \E i \in Inos, proc \in Procs :
       \/ \E write \in BOOLEAN, d \in Fds : Open(i, proc, write, d)
       \/ \E truncate \in BOOLEAN : Setattr(i, proc, truncate)
  \/ \E d \in Fds : Write(d) \/ Release(d)

Spec == Init /\ [][Next]_vars

-----------------------------------------------------------------------------
(* Properties *)

(* Every variable stays in its range; the history ring never outgrows      *)
(* MAX_HISTORY.                                                            *)
TypeOK ==
  /\ fwd \in [Inos -> Paths \cup {None}]
  /\ rev \in [Paths -> 0..MaxIno]
  /\ next \in 2..(MaxIno + 1)
  /\ dirty \subseteq Inos
  /\ fh \in [Fds -> [ino : 0..MaxIno, obj : 0..MaxObj, proc : Procs \cup {None},
                     write : BOOLEAN]]
  /\ names \in [Paths -> 0..MaxObj]
  /\ kind \in [Objs -> {"file", "dir"}]
  /\ created \in Objs
  /\ rec \in [Objs -> [Keys -> Ids \cup {None}]]
  /\ \A o \in Objs : hist[o] \in Seq(Ids) /\ Len(hist[o]) <= MAX_HISTORY
  /\ unstamped \subseteq Objs /\ faulty \subseteq Objs
  /\ writers \in [Objs -> SUBSET Procs]

(* fwd and rev of the inode table stay inverse to each other through every *)
(* sequence of intern and forget_path, and next is beyond all numbers used.*)
TableInverse ==
  /\ \A i \in Inos : fwd[i] # None => rev[fwd[i]] = i /\ i < next
  /\ \A p \in Paths : rev[p] # 0 => fwd[rev[p]] = p

(* An inode number names one path for ever: a forgotten number is never    *)
(* given out again, so a stale handle cannot reach another path's file.    *)
InosNeverRebound ==
  [][\A i \in Inos : i < next => fwd'[i] \in {fwd[i], None}]_vars

(* The dirty map does not leak: whatever is unlinked or left open meanwhile,*)
(* a marked inode has an open handle whose release will clear the mark.    *)
DirtyImpliesOpen == \A i \in dirty : \E d \in Fds : fh[d].ino = i

(* A release stamps no object but the one its handle was opened on, even   *)
(* when the file was unlinked and its name taken by another meanwhile.     *)
ReleaseStampsOwnFile ==
  [][\A d \in Fds : fh[d] # Closed /\ fh'[d] = Closed
       => \A o \in Objs \ {fh[d].obj} : rec'[o] = rec[o] /\ hist'[o] = hist[o]
    ]_vars

(* No content change goes unrecorded: a linked, not skipped file that      *)
(* changed since its last stamp, and whose stamping works, is marked       *)
(* dirty, and a handle whose release will stamp it is open.  (README.md:16 *)
(* lists write among the calls that stamp; write() marks and release()     *)
(* stamps.)                                                                *)
ContentGetsStamped ==
  \A p \in Paths \ SkippedPaths :
    LET o == names[p]
    IN o \in unstamped \ faulty
         => rev[p] \in dirty /\ \E d \in Fds : fh[d].ino = rev[p]

(* When the last stamp of an object went through, session, tool, ts and    *)
(* the head of the history are of one identity, whichever stamps before it *)
(* failed half-way or could not read the history, and the history names no *)
(* session twice.                                                          *)
RecordCoherent ==
  \A o \in Objs :
    /\ \A i, j \in 1..Len(hist[o]) : hist[o][i] = hist[o][j] => i = j
    /\ o \notin faulty /\ hist[o] # <<>>
         => \A k \in {"session", "tool", "ts"} : rec[o][k] = Head(hist[o])

(* README.md: "A filesystem that records who wrote each file".  The        *)
(* session of a file, where it resolves to a process, is one that created  *)
(* the file, opened it for writing or changed its attributes.              *)
AuthorIsWriter ==
  \A o \in Objs : rec[o]["session"] \in writers[o] \cup {Unknown, None}
=============================================================================
