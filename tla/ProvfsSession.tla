--------------------------- MODULE ProvfsSession ---------------------------
(***************************************************************************)
(* The hook of the provfs LSM (lsm/provfs_lsm.c): what provfs_stamp()      *)
(* captures of the writer when a file is released, and how the userspace   *)
(* reader (src/session.rs) reads the session value back.                   *)
(*                                                                         *)
(* Text is abstracted to its length.  A rendered field is known by how     *)
(* many bytes of its value the buffer holds (Absent when the field is not  *)
(* there): a field is whole when that is the length of what was rendered.  *)
(* Values contain neither ';' nor ':'.  Buffers keep their byte sizes,     *)
(* because every interesting case is about what still fits.                *)
(***************************************************************************)
EXTENDS Integers, Sequences

CONSTANTS
  Closes,            \* the files released and their writers, see CloseType
  PROV_IDENT_MAX,    \* size of the session buffer (256)
  PROV_CHAIN_MAX,    \* size of the comm-chain buffer (128)
  PROV_CHAIN_LEVELS, \* ancestors in the comm-chain, the writer included (3)
  PROV_ENV_VAL_MAX,  \* bytes kept of the value in the env field (48)
  PROV_ENV_SCAN_MAX, \* bytes scanned of the environment (4096)
  PROV_FIELD_MAX,    \* size of the tool, turn and intent buffers (64)
  NULL               \* no release is being handled

Fields == {"comm-chain", "env", "cwd", "pid", "uid"}
Absent == -1

(* Environment variables the scan looks for, by length of "KEY=", and one  *)
(* standing for all the others.                                            *)
KeyLen == [CLAUDE_TOOL |-> 12, AGORABUS_SID |-> 13, CLAUDE_SESSION_ID |-> 18,
           CLAUDE_TURN |-> 12, AGENTNS_INTENT |-> 15, PATH |-> 5]

(* The targets of provfs_scan_writer_env() and the keys each accepts. *)
TargetKeys == [envsig |-> {"CLAUDE_TOOL", "AGORABUS_SID", "CLAUDE_SESSION_ID"},
               tool |-> {"CLAUDE_TOOL"},
               turn |-> {"CLAUDE_TURN"},
               intent |-> {"AGENTNS_INTENT"}]
Targets == DOMAIN TargetKeys

(* One release.  env lists the NUL-separated entries by key and value      *)
(* length; ancestry is the writer's comm, its parent's, ...; cwd, pid and  *)
(* uid are the lengths of their rendering, cwd = 0 when there is none.     *)
CloseType ==
  [writable : BOOLEAN,      \* f_mode & FMODE_WRITE
   stampable : BOOLEAN,     \* regular, with a path that renders
   skipped : BOOLEAN,       \* provfs_path_skipped()
   agentns : BOOLEAN,       \* in a non-init agent namespace
   got : Nat,               \* bytes of environment that can be read
   env : Seq([key : DOMAIN KeyLen, len : Nat]),
   ancestry : Seq([root : BOOLEAN, pid1 : BOOLEAN, len : 1..15]),
   cwd : Nat, pid : 1..10, uid : 1..10]

ASSUME SessionAssumption ==
  /\ Closes \subseteq CloseType /\ NULL \notin Closes
  /\ {PROV_IDENT_MAX, PROV_CHAIN_MAX, PROV_CHAIN_LEVELS, PROV_ENV_VAL_MAX,
      PROV_ENV_SCAN_MAX, PROV_FIELD_MAX} \subseteq Nat \ {0}
  \* "comm-chain:" and the chain, ";env:", the longest "KEY=" and its value
  /\ 11 + PROV_CHAIN_MAX + 5 + 18 + PROV_ENV_VAL_MAX < PROV_IDENT_MAX

(* ";pid:" and ";uid:" with ten digits each still fit behind these. *)
ASSUME PidUidRoom ==
  11 + PROV_CHAIN_MAX + 5 + 18 + PROV_ENV_VAL_MAX + 30 < PROV_IDENT_MAX

VARIABLES
  close,   \* the release being handled
  pc,      \* where provfs_stamp() is
  pos,     \* offset in the environment block of entry next
  next,    \* number of the environment entry to be examined
  target,  \* what each scan target holds: entry number and bytes of value
  level,   \* generation of the ancestor the chain walk is at
  chain,   \* bytes of comm-chain rendered
  off,     \* bytes of the session buffer taken by whole fields
  held,    \* bytes of value the session buffer holds of each whole field
  tail,    \* the truncated field snprintf() left after them
  queued   \* the session value handed to provfs_enqueue_stamp()

vars == <<close, pc, pos, next, target, level, chain, off, held, tail, queued>>

NoTail == [key |-> "none", len |-> 0]
Unfilled == [entry |-> 0, len |-> 0]
NoValue == [kind |-> "none", held |-> [f \in Fields |-> Absent],
            tail |-> NoTail]

LenMin(a, b) == IF a < b THEN a ELSE b

Init ==
  /\ close = NULL
  /\ pc = "idle"
  /\ pos = 0 /\ next = 1
  /\ target = [t \in Targets |-> Unfilled]
  /\ level = 1 /\ chain = 0
  /\ off = 0
  /\ held = [f \in Fields |-> Absent]
  /\ tail = NoTail
  /\ queued = NoValue

-----------------------------------------------------------------------------
(* provfs_file_release() and the early returns of provfs_stamp(): nothing   *)
(* changes for a file that was not open for write, is not a regular file    *)
(* with a path that renders, or is on the skip list.                        *)
Release(c) ==
  /\ pc = "idle"
  /\ c.writable /\ c.stampable /\ ~c.skipped
  /\ close' = c
  /\ pc' = "scan"
  /\ UNCHANGED <<pos, next, target, level, chain, off, held, tail, queued>>

-----------------------------------------------------------------------------
(* provfs_scan_env() *)

EntryLen(e) == KeyLen[e.key] + e.len

(* Bytes access_remote_vm() returns; 0 without an mm. *)
Got == LenMin(close.got, PROV_ENV_SCAN_MAX)

MutVisibleBeyondWindow(e, p) == EntryLen(e)

(* Bytes of entry e, at offset p, inside the block that is scanned. *)
Visible(e, p) == LenMin(EntryLen(e), Got - p)

(* Bytes of value target t keeps of a visible value of v bytes. *)
Capped(t, v) ==
  LenMin(v, IF t = "envsig" THEN PROV_ENV_VAL_MAX ELSE PROV_FIELD_MAX - 1)

(* Whether entry e, at offset p, fills target t: its value is not empty. *)
Matches(e, p, t) == e.key \in TargetKeys[t] /\ Visible(e, p) > KeyLen[e.key]

MutScanEntryLastWins ==
  LET e == close.env[next]
  IN /\ pc = "scan"
     /\ next <= Len(close.env) /\ pos < Got
     /\ target' = [t \in Targets |->
          IF Matches(e, pos, t)
            THEN [entry |-> next,
                  len |-> Capped(t, Visible(e, pos) - KeyLen[e.key])]
            ELSE target[t]]
     /\ pos' = pos + EntryLen(e) + 1
     /\ next' = next + 1
     /\ UNCHANGED <<close, pc, level, chain, off, held, tail, queued>>

(* One turn of the loop: the entry against every target still open. *)
ScanEntry ==
  LET e == close.env[next]
  IN /\ pc = "scan"
     /\ next <= Len(close.env) /\ pos < Got
     /\ target' = [t \in Targets |->
          IF target[t] = Unfilled /\ Matches(e, pos, t)
            THEN [entry |-> next,
                  len |-> Capped(t, Visible(e, pos) - KeyLen[e.key])]
            ELSE target[t]]
     /\ pos' = pos + EntryLen(e) + 1
     /\ next' = next + 1
     /\ UNCHANGED <<close, pc, level, chain, off, held, tail, queued>>

(* The block is exhausted, cannot be read, or its copy not allocated. *)
ScanEnd ==
  /\ pc = "scan"
  /\ pc' = IF close.agentns THEN "agentns" ELSE "walk"
  /\ next > Len(close.env) \/ pos >= Got \/ next = 1
  /\ UNCHANGED <<close, pos, next, target, level, chain, off, held, tail,
                 queued>>

-----------------------------------------------------------------------------
(* provfs_build_session() *)

(* agent_session_id_format() renders the id ... *)
AgentNsId ==
  /\ pc = "agentns"
  /\ queued' = [NoValue EXCEPT !.kind = "agentns"]
  /\ pc' = "enqueue"
  /\ UNCHANGED <<close, pos, next, target, level, chain, off, held, tail>>

(* ... or returns nothing, and the fallback takes over. *)
AgentNsIdFails ==
  /\ pc = "agentns"
  /\ pc' = "walk"
  /\ UNCHANGED <<close, pos, next, target, level, chain, off, held, tail,
                 queued>>

(* The ancestor the walk of provfs_build_comm_chain() is at exists, is no  *)
(* root by name, and is not pid 1 reached from a child.                    *)
WalkGoesOn ==
  /\ level <= PROV_CHAIN_LEVELS /\ level <= Len(close.ancestry)
  /\ ~close.ancestry[level].root
  /\ level > 1 => ~close.ancestry[level].pid1

ChainStep == (IF chain = 0 THEN 0 ELSE 1) + close.ancestry[level].len

Walk ==
  /\ pc = "walk"
  /\ IF WalkGoesOn /\ ChainStep < PROV_CHAIN_MAX - chain
       THEN chain' = chain + ChainStep /\ level' = level + 1 /\ UNCHANGED pc
       ELSE pc' = "comm-chain" /\ UNCHANGED <<chain, level>>
  /\ UNCHANGED <<close, pos, next, target, off, held, tail, queued>>

(* Bytes of "<sep><field>:" in front of a value. *)
Header(f) ==
  (IF off = 0 THEN 0 ELSE 1) + (IF f = "comm-chain" THEN 11 ELSE 4)

MutPutOffByOne(f, len) ==
  LET room == PROV_IDENT_MAX - off
  IN IF Header(f) + len <= room
       THEN /\ off' = off + Header(f) + len
            /\ held' = [held EXCEPT ![f] = len]
            /\ tail' = NoTail
       ELSE /\ tail' = [key |-> f, len |-> room - 1 - Header(f)]
            /\ UNCHANGED <<off, held>>

MutPutAdvancesAnyway(f, len) ==
  LET room == PROV_IDENT_MAX - off
  IN IF Header(f) + len < room
       THEN /\ off' = off + Header(f) + len
            /\ held' = [held EXCEPT ![f] = len]
            /\ tail' = NoTail
       ELSE /\ off' = PROV_IDENT_MAX - 1
            /\ held' = [held EXCEPT ![f] = room - 1 - Header(f)]
            /\ tail' = NoTail

MutPutFromStart(f, len) ==
  LET room == PROV_IDENT_MAX - off
  IN IF Header(f) + len < room
       THEN /\ off' = off + Header(f) + len
            /\ held' = [g \in Fields |-> IF g = f THEN len ELSE Absent]
            /\ tail' = NoTail
       ELSE /\ tail' = [key |-> f, len |-> room - 1 - Header(f)]
            /\ UNCHANGED <<off, held>>

MutPutScnprintf(f, len) ==
  LET room == PROV_IDENT_MAX - off
  IN IF Header(f) + len < room
       THEN /\ off' = off + Header(f) + len
            /\ held' = [held EXCEPT ![f] = len]
            /\ tail' = NoTail
       ELSE /\ off' = PROV_IDENT_MAX - 1
            /\ tail' = IF room > 1
                         THEN [key |-> f, len |-> room - 1 - Header(f)] ELSE tail
            /\ UNCHANGED held

(* snprintf(buf + off, buflen - off, ...) and the test of its result.  A   *)
(* field that does not fit is written all the same, truncated, and stays   *)
(* in the buffer unless a later call overwrites it: off has not moved.     *)
Put(f, len) ==
  LET room == PROV_IDENT_MAX - off
  IN IF Header(f) + len < room
       THEN /\ off' = off + Header(f) + len
            /\ held' = [held EXCEPT ![f] = len]
            /\ tail' = NoTail
       ELSE /\ tail' = [key |-> f, len |-> room - 1 - Header(f)]
            /\ UNCHANGED <<off, held>>

PutChain ==
  /\ pc = "comm-chain"
  /\ IF chain > 0 THEN Put("comm-chain", chain)
                  ELSE UNCHANGED <<off, held, tail>>
  /\ pc' = "env"
  /\ UNCHANGED <<close, pos, next, target, level, chain, queued>>

(* Bytes of "<KEY>=<val>". *)
EnvSigLen == KeyLen[close.env[target.envsig.entry].key] + target.envsig.len

PutEnv ==
  /\ pc = "env"
  /\ IF target.envsig # Unfilled THEN Put("env", EnvSigLen)
                                 ELSE UNCHANGED <<off, held, tail>>
  /\ pc' = "cwd"
  /\ UNCHANGED <<close, pos, next, target, level, chain, queued>>

PutCwd ==
  /\ pc = "cwd"
  /\ IF close.cwd > 0 THEN Put("cwd", close.cwd)
                      ELSE UNCHANGED <<off, held, tail>>
  /\ pc' = "pid"
  /\ UNCHANGED <<close, pos, next, target, level, chain, queued>>

(* No memory for the path, or provfs_build_cwd() renders nothing. *)
CwdFails ==
  /\ pc = "cwd"
  /\ pc' = "pid"
  /\ UNCHANGED <<close, pos, next, target, level, chain, off, held, tail,
                 queued>>

PutPid ==
  /\ pc = "pid"
  /\ Put("pid", close.pid)
  /\ pc' = "uid"
  /\ UNCHANGED <<close, pos, next, target, level, chain, queued>>

PutUid ==
  /\ pc = "uid"
  /\ Put("uid", close.uid)
  /\ pc' = "rendered"
  /\ UNCHANGED <<close, pos, next, target, level, chain, queued>>

(* The value is carried verbatim; an empty one (nothing whole and nothing  *)
(* truncated) is replaced by pid and uid.                                  *)
Rendered ==
  /\ pc = "rendered"
  /\ queued' = [kind |-> "fallback", tail |-> tail,
                held |-> IF off = 0 /\ tail = NoTail
                           THEN [held EXCEPT !["pid"] = close.pid,
                                             !["uid"] = close.uid]
                           ELSE held]
  /\ pc' = "enqueue"
  /\ UNCHANGED <<close, pos, next, target, level, chain, off, held, tail>>

(* provfs_enqueue_stamp() copies the values; the hook returns. *)
Enqueue ==
  /\ pc = "enqueue"
  /\ close' = NULL
  /\ pc' = "idle"
  /\ pos' = 0 /\ next' = 1
  /\ target' = [t \in Targets |-> Unfilled]
  /\ level' = 1 /\ chain' = 0
  /\ off' = 0
  /\ held' = [f \in Fields |-> Absent]
  /\ tail' = NoTail
  /\ queued' = NoValue

-----------------------------------------------------------------------------
(* src/session.rs *)

(* parse_enriched_fallback(): the bytes of value read for each field.  The *)
(* truncated tail is a segment like the others once its ':' is there.      *)
ParseEnriched(v) ==
  [f \in Fields |-> IF v.tail.key = f /\ v.tail.len >= 0 THEN v.tail.len
                                                         ELSE v.held[f]]

(* classify(): what starts with "comm-chain:" is an enriched fallback. *)
Classify(v) ==
  CASE v.kind = "agentns" -> "AgentNs"
    [] v.kind = "fallback" /\ ParseEnriched(v)["comm-chain"] # Absent
         -> "EnrichedFallback"
    [] OTHER -> "Opaque"

(* The fields the reader gets: only of a value classify() has parsed.  Any *)
(* other is shown as it is.                                                *)
ReadBack(v) ==
  IF Classify(v) = "EnrichedFallback" THEN ParseEnriched(v)
                                      ELSE [f \in Fields |-> Absent]

-----------------------------------------------------------------------------
Next ==
  \/ \E c \in Closes : Release(c)
  \/ ScanEntry \/ ScanEnd
  \/ AgentNsId \/ AgentNsIdFails
  \/ Walk \/ PutChain \/ PutEnv \/ PutCwd \/ CwdFails \/ PutPid \/ PutUid
  \/ Rendered \/ Enqueue

Spec == Init /\ [][Next]_vars

-----------------------------------------------------------------------------
(* Properties *)

(* Every variable stays in its range: in particular the session buffer     *)
(* always has room for the NUL, so buflen - off never wraps around.        *)
TypeOK ==
  /\ close \in Closes \cup {NULL}
  /\ pc \in {"idle", "scan", "agentns", "walk", "comm-chain", "env", "cwd",
             "pid", "uid", "rendered", "enqueue"}
  /\ pos \in Nat /\ next \in Nat \ {0}
  /\ target \in [Targets -> [entry : Nat, len : Nat]]
  /\ level \in Nat \ {0}
  /\ chain \in 0..(PROV_CHAIN_MAX - 1)
  /\ off \in 0..(PROV_IDENT_MAX - 1)
  /\ held \in [Fields -> Nat \cup {Absent}]
  /\ tail \in [key : Fields \cup {"none"}, len : Int]
  /\ queued \in [kind : {"none", "agentns", "fallback"},
                 held : [Fields -> Nat \cup {Absent}],
                 tail : [key : Fields \cup {"none"}, len : Int]]

HasFallback == queued.kind = "fallback"

(* Where each entry of an environment begins, from the layout alone. *)
Offsets(env) ==
  LET at[n \in 1..(Len(env) + 1)] ==
        IF n = 1 THEN 0 ELSE at[n - 1] + EntryLen(env[n - 1]) + 1
  IN at

(* provfs_scan_env() promises that a target's selection is the same        *)
(* whether it is scanned alone or with others: each target holds the first *)
(* entry, in block order, whose key it accepts with a non-empty value, and *)
(* no entry that can be read is passed over.                               *)
TargetsAreFirstMatches ==
  LET env == IF close = NULL THEN <<>> ELSE close.env
      at == Offsets(env)
      hits(t) == {j \in 1..Len(env) : at[j] < Got /\ Matches(env[j], at[j], t)}
  IN pc \notin {"idle", "scan"} /\ next > 1 =>
       \A t \in Targets :
         IF hits(t) = {}
           THEN target[t] = Unfilled
           ELSE /\ target[t].entry \in hits(t)
                /\ \A j \in hits(t) : target[t].entry <= j

(* A stored tool, turn or intent is text of the block that was read, at    *)
(* most 63 bytes of it, and is shorter than the variable's value only at   *)
(* that cap or where the 4096 bytes of the scan end.  (The scan's end is   *)
(* what lsm/README.md leaves out: CLAUDE_TURN=42 can be stored as 4.)      *)
CutAtCapOrWindow ==
  \A t \in Targets \ {"envsig"} :
    target[t] # Unfilled =>
      LET e == close.env[target[t].entry]
          n == target[t].len
          last == Offsets(close.env)[target[t].entry] + KeyLen[e.key] + n
      IN /\ n < PROV_FIELD_MAX /\ last <= Got
         /\ n # e.len => n = PROV_FIELD_MAX - 1 \/ last = Got

(* lsm/README.md, "truncation drops fields from the right so the           *)
(* outermost-actor signal is preserved": whatever the lengths of the       *)
(* fields, a chain that was walked and an env signal that was found are    *)
(* read back whole.  Without a chain (of a writer named init, say) the     *)
(* reader parses nothing; then the env signal is whole in the text it      *)
(* shows.                                                                  *)
ActorSignalSurvives ==
  HasFallback =>
    LET env == IF target.envsig = Unfilled THEN Absent ELSE EnvSigLen
    IN IF chain > 0
         THEN ReadBack(queued)["comm-chain"] = chain /\ ReadBack(queued)["env"] = env
         ELSE Classify(queued) = "Opaque" /\ queued.held["env"] = env

(* However much is truncated, the value never holds part of a chain, env,  *)
(* cwd or pid, whether it is parsed or shown as it is: each is absent or   *)
(* exactly what the hook rendered, and only of a uid may a cut end follow. *)
OnlyUidMayBeCut ==
  HasFallback =>
    /\ queued.tail.key \in {"none", "uid"}
    /\ queued.held["comm-chain"] \in {Absent, chain}
    /\ queued.held["env"] # Absent => queued.held["env"] = EnvSigLen
    /\ queued.held["cwd"] \in {Absent, close.cwd}
    /\ queued.held["pid"] \in {Absent, close.pid}

(* pid and uid are appended last.  Whatever the writer's names, environment *)
(* and ids, only a working directory that is itself in the value, whole,   *)
(* can take their room: a cwd too long to fit costs nothing but itself.    *)
OnlyCwdSqueezesPidUid ==
  HasFallback =>
    (queued.held["pid"] = Absent \/ queued.held["uid"] = Absent
       => close.cwd > 0 /\ queued.held["cwd"] = close.cwd)

(* The comment above provfs_build_fallback(): "Each field is appended only *)
(* if it fits in full", so a uid that is read back is the writer's.        *)
UidIsTheWriters ==
  HasFallback => ReadBack(queued)["uid"] \in {Absent, close.uid}
=============================================================================
