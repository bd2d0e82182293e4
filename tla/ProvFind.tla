------------------------------ MODULE ProvFind ------------------------------
(***************************************************************************)
(* prov find (src/bin/prov.rs, src/reader.rs, src/duration.rs): one walk   *)
(* of a tree that others change meanwhile, and the filter of its records.  *)
(*                                                                         *)
(* A path is a symbolic link when it is in Links and a file, a directory,  *)
(* something else or nothing otherwise; a directory that is replaced by a  *)
(* link while it waits on the stack is left out.  read_record() is one     *)
(* step here; module ProvRecord has it key by key.                         *)
(*                                                                         *)
(* The sizes of u64 and i64 are parameters, so that a small instance meets *)
(* their limits.  A time stamp is known by its format and the seconds it   *)
(* denotes, a duration by its magnitude and its unit.                      *)
(***************************************************************************)
EXTENDS Integers, Sequences, FiniteSets

CONSTANTS
  Paths, Root, Parent,  \* the tree: paths and the directory each is in
  Links, LinkTo,        \* symbolic links and the directories they lead to
  Locked,               \* sets of paths the caller may be denied
  Records,              \* the records files may carry
  Queries,              \* command lines
  Now,                  \* the time, in seconds since the epoch
  UnitSecs,             \* seconds of the units s, m, h and d
  MaxU, MaxI,           \* u64::MAX and i64::MAX
  MaxChanges,           \* bound: changes of the tree during the walk
  None, Error

Kinds == {"none", "file", "dir", "link", "other"}
Keys == {"session", "tool", "turn", "intent", "ts", "history"}

(* --session, a prefix, stands for the set of sessions that begin with it. *)
QueryType ==
  [tool : {r["tool"] : r \in Records} \cup {None},
   session : SUBSET {r["session"] : r \in Records} \cup {None},
   intent : {r["intent"] : r \in Records} \cup {None},
   since : [mag : Nat \cup {None}, unit : DOMAIN UnitSecs \cup {"?", "none"}]
           \cup {None}]

Unstamped == [k \in Keys |-> None]

(* Every path leads up to the root.  The clock fits an i64, and so do the  *)
(* times of the stamps, none of them i64::MAX seconds or more before now.  *)
ASSUME FindAssumption ==
  /\ IsFiniteSet(Paths) /\ Root \in Paths
  /\ Parent \in [Paths \ {Root} -> Paths]
  /\ \A S \in SUBSET (Paths \ {Root}) : S # {} => \E p \in S : Parent[p] \notin S
  /\ Links \subseteq Paths \ {Root} /\ LinkTo \in [Links -> Paths]
  /\ Locked \subseteq SUBSET Paths
  /\ \A r \in Records : DOMAIN r = Keys
  /\ \A r \in Records : r["ts"] # None =>
       /\ r["ts"].form \in {"unix", "rfc3339", "garbage"} /\ r["ts"].secs \in Int
       /\ r["ts"].form # "garbage" => r["ts"].secs >= Now - MaxI
       /\ r["ts"].form = "unix" => r["ts"].secs <= MaxI
  /\ Error \notin Records \cup {Unstamped}
  /\ Queries \subseteq QueryType
  /\ UnitSecs \in [{"s", "m", "h", "d"} -> Nat]
  /\ MaxI \in Nat /\ MaxU \in Nat /\ MaxI < MaxU
  /\ Now \in 0..MaxI /\ MaxChanges \in Nat
  /\ None \notin Int /\ Error \notin Int

VARIABLES
  kind,     \* what is at each path
  rec,      \* user.prov.* of each file
  denied,   \* the paths the caller may not read
  query,    \* the command line
  pc,       \* "parse", "walk" or "done"
  stack,    \* directories still to be listed
  entries,  \* entries of the open directory not visited yet, with their kinds
  out,      \* results of the walk for each path
  matches,  \* how often each path is reported
  exit,     \* exit status
  changes,  \* changes of the tree so far
  touched   \* history variable: paths that changed during the walk

vars == <<kind, rec, denied, query, pc, stack, entries, out, matches, exit,
          changes, touched>>
tree == <<kind, rec, changes, touched>>

Children(p) == {q \in Paths \ {Root} : Parent[q] = p}
IsTree(k) == \A p \in Paths \ {Root} : k[p] # "none" => k[Parent[p]] = "dir"

Init ==
  /\ kind \in [Paths -> Kinds]
  /\ \A p \in Paths : kind[p] \in (IF p \in Links THEN {"none", "link"}
                                                  ELSE Kinds \ {"link"})
  /\ IsTree(kind)
  /\ rec \in [Paths -> Records \cup {Unstamped}]
  /\ \A p \in Paths : kind[p] # "file" => rec[p] = Unstamped
  /\ denied \in Locked
  /\ query \in Queries
  /\ pc = "parse" /\ stack = <<>> /\ entries = {}
  /\ out = [p \in Paths |-> <<>>]
  /\ matches = [p \in Paths |-> 0] /\ exit = None
  /\ changes = 0 /\ touched = {}

-----------------------------------------------------------------------------
(* src/duration.rs and the cutoff *)

LeastOf(a, b) == IF a < b THEN a ELSE b

MutSaturatingMul(a, b) == (a * b) % (MaxU + 1)

SaturatingMul(a, b) == LeastOf(a * b, MaxU)

(* parse_duration(): an empty text has neither magnitude nor unit. *)
ParseDuration(d) ==
  IF d.unit \notin DOMAIN UnitSecs \/ d.mag = None THEN Error
  ELSE IF d.mag > MaxU THEN Error
  ELSE SaturatingMul(d.mag, UnitSecs[d.unit])

(* Both operands are clamped to i64; neither is negative, so saturating_sub *)
(* subtracts.                                                               *)
Cutoff(d) == LeastOf(Now, MaxI) - LeastOf(ParseDuration(d), MaxI)

(* parse_ts(): seconds that fit an i64, or RFC 3339. *)
ParseTs(ts) ==
  IF \/ ts.form = "unix" /\ ts.secs \in (-MaxI - 1)..MaxI
     \/ ts.form = "rfc3339"
    THEN ts.secs ELSE None

Malformed == query.since # None /\ ParseDuration(query.since) = Error

ParseSince ==
  /\ pc = "parse"
  /\ IF Malformed
       THEN pc' = "done" /\ exit' = "FAILURE" /\ UNCHANGED stack
       ELSE pc' = "walk" /\ stack' = <<Root>> /\ UNCHANGED exit
  /\ UNCHANGED <<tree, denied, query, entries, out, matches>>

-----------------------------------------------------------------------------
(* walk_files() *)

(* The directory read_dir() lists for p: it follows a link. *)
DirOf(p) == IF kind[p] = "link" THEN LinkTo[p] ELSE p
CanList(p) == kind[DirOf(p)] = "dir" /\ DirOf(p) \notin denied

Top == stack[Len(stack)]
Popped == SubSeq(stack, 1, Len(stack) - 1)
Result(p, r) == out' = [out EXCEPT ![p] = Append(@, r)]

MutOpenDirRetries ==
  /\ pc = "walk" /\ entries = {} /\ stack # <<>>
  /\ IF CanList(Top)
       THEN /\ entries' = {<<p, kind[p]>> : p \in Children(DirOf(Top))}
            /\ stack' = Popped
       ELSE UNCHANGED <<entries, stack>>
  /\ UNCHANGED <<tree, denied, query, pc, out, matches, exit>>

OpenDir ==
  /\ pc = "walk" /\ entries = {} /\ stack # <<>>
  /\ IF CanList(Top)
       THEN /\ entries' = {<<p, kind[p]>> : p \in
                             {c \in Children(DirOf(Top)) : kind[c] # "none"}}
            /\ UNCHANGED out
       ELSE Result(Top, Error) /\ UNCHANGED entries
  /\ stack' = Popped
  /\ UNCHANGED <<tree, denied, query, pc, matches, exit>>

(* read_record(): fails for a path that is gone or may not be read. *)
ReadRecord(p) == IF kind[p] = "none" \/ p \in denied THEN Error ELSE rec[p]

MutPushes(k) == k \in {"dir", "link"}

(* Which entries are walked into: links are not followed. *)
Pushes(k) == k = "dir"

(* The next entry, in whatever order the directory has them; its kind is   *)
(* the one it had when the directory was listed.                           *)
VisitEntry(e) ==
  /\ pc = "walk" /\ e \in entries
  /\ entries' = entries \ {e}
  /\ stack' = IF Pushes(e[2]) THEN Append(stack, e[1]) ELSE stack
  /\ IF e[2] = "file" THEN Result(e[1], ReadRecord(e[1])) ELSE UNCHANGED out
  /\ UNCHANGED <<tree, denied, query, pc, matches, exit>>

(* The entry cannot be read, which is reported of its directory, or its    *)
(* type cannot.                                                            *)
EntryFails(e) ==
  /\ pc = "walk" /\ e \in entries /\ changes < MaxChanges
  /\ entries' = entries \ {e}
  /\ \E p \in {e[1], Parent[e[1]]} : Result(p, Error)
  /\ changes' = changes + 1 /\ touched' = touched \cup {e[1]}
  /\ UNCHANGED <<kind, rec, denied, query, pc, stack, matches, exit>>

-----------------------------------------------------------------------------
(* cmd_find() *)

IsEmpty(r) == \A k \in Keys : r[k] = None

RecentEnough(r) ==
  /\ r["ts"] # None
  /\ ParseTs(r["ts"]) # None
  /\ ParseTs(r["ts"]) >= Cutoff(query.since)

(* The filters of cmd_find() on a record that was read. *)
Passes(r) ==
  /\ ~IsEmpty(r)
  /\ query.tool # None => r["tool"] = query.tool
  /\ query.session # None => r["session"] \in query.session \ {None}
  /\ query.intent # None => r["intent"] = query.intent
  /\ query.since # None => RecentEnough(r)

MutExitCode(hadError, found) == IF found THEN "SUCCESS" ELSE "FAILURE"

ExitCode(hadError, found) ==
  IF hadError /\ ~found THEN "FAILURE" ELSE "SUCCESS"

Report ==
  LET Good(r) == r # Error /\ Passes(r)
      hits == [p \in Paths |-> Cardinality({i \in DOMAIN out[p] : Good(out[p][i])})]
      hadError == \E p \in Paths : \E i \in DOMAIN out[p] : out[p][i] = Error
  IN /\ pc = "walk" /\ entries = {} /\ stack = <<>>
     /\ pc' = "done"
     /\ matches' = hits
     /\ exit' = ExitCode(hadError, \E p \in Paths : hits[p] > 0)
     /\ UNCHANGED <<tree, denied, query, stack, entries, out>>

-----------------------------------------------------------------------------
(* Others at work in the tree *)

(* p appears, disappears, is replaced, or its file is stamped. *)
Change(p) ==
  /\ pc = "walk" /\ changes < MaxChanges /\ p \notin Links
  /\ \E k \in Kinds \ {"link"}, r \in Records \cup {Unstamped} :
       /\ k # "file" => r = Unstamped
       /\ <<k, r>> # <<kind[p], rec[p]>>
       /\ kind' = [kind EXCEPT ![p] = k]
       /\ IsTree(kind')
       /\ rec' = [rec EXCEPT ![p] = r]
  /\ changes' = changes + 1 /\ touched' = touched \cup {p}
  /\ UNCHANGED <<denied, query, pc, stack, entries, out, matches, exit>>

ProvStep ==
  \/ ParseSince \/ OpenDir \/ Report
  \/ \E e \in entries : VisitEntry(e)

Next ==
  \/ ProvStep
  \/ \E e \in entries : EntryFails(e)
  \/ \E p \in Paths : Change(p)

FairSpec == Init /\ [][Next]_vars /\ WF_vars(ProvStep)

-----------------------------------------------------------------------------
(* Properties *)

(* Every variable stays in its range; no link is ever on the stack, and no *)
(* directory twice, so the stack is no longer than the tree is large.      *)
TypeOK ==
  /\ kind \in [Paths -> Kinds]
  /\ pc \in {"parse", "walk", "done"}
  /\ stack \in Seq(Paths \ Links)
  /\ \A i, j \in DOMAIN stack : stack[i] = stack[j] => i = j
  /\ entries \subseteq Paths \X (Kinds \ {"none"})
  /\ matches \in [Paths -> Nat]
  /\ exit \in {None, "SUCCESS", "FAILURE"}

above[p \in Paths] == {p} \cup (IF p = Root THEN {} ELSE above[Parent[p]])

(* What the command line asks for, in unbounded arithmetic. *)
Wanted(r) ==
  /\ \E k \in Keys : r[k] # None
  /\ query.tool \in {None, r["tool"]} /\ query.intent \in {None, r["intent"]}
  /\ query.session = None \/ r["session"] \in query.session \ {None}
  /\ query.since # None =>
       /\ r["ts"] # None /\ r["ts"].form # "garbage"
       /\ r["ts"].secs >= Now - query.since.mag * UnitSecs[query.since.unit]

(* find is exact where nobody interferes: a file in the tree that, with    *)
(* the directories above it, stayed as it was and may be read is reported once *)
(* if the command line asks for it and not at all otherwise, whatever goes *)
(* on elsewhere in the tree, however many links lead back to it, and with  *)
(* a --since beyond what the integers hold.                                *)
FindExact ==
  pc = "done" /\ ~Malformed =>
    \A p \in Paths \ {Root} :
      /\ kind[p] = "file"
      /\ above[p] \cap (touched \cup denied) = {}
      => matches[p] = IF Wanted(rec[p]) THEN 1 ELSE 0

(* README.md:75 on errors, and cmd_find() where it is silent: find fails   *)
(* when the root is not there or may not be read, or --since is malformed; *)
(* finding nothing is no failure, nor, by the test of errors and matches   *)
(* at the end of cmd_find(), is an error on the way if something is found. *)
FindExitHonest ==
  pc = "done" =>
    /\ exit = "FAILURE" =>
         \/ Malformed
         \/ (denied # {} \/ touched # {} \/ kind[Root] # "dir")
            /\ \A p \in Paths : matches[p] = 0
    /\ (kind[Root] # "dir" /\ touched = {}) \/ Root \in denied
         => exit = "FAILURE"

(* The walk ends, whatever is created or removed meanwhile and whichever   *)
(* directories cannot be read.                                             *)
WalkEnds == <>(pc = "done")
=============================================================================
