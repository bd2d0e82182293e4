# A TLA+ verification of provfs

provfs records who wrote a file in its `user.prov.*` extended attributes. It
has two halves that do so independently: a Linux security module
(`lsm/`, C) that stamps a file when a writable descriptor is released, and a
FUSE overlay (`src/`, Rust) that stamps on the write-path operations that pass
through it. A command, `prov`, reads the records back.

This directory models both halves and the reader. TLC checks the models on
small instances, and TLAPS proves every invariant that TLC checks for every
value of their constants.

## Inventory

| component | state | operations | interacts with |
|---|---|---|---|
| deferred-stamp queue (`lsm/provfs_work.c`) | the workqueue pointer, `queue_max`, `queue_depth`, `queue_dropped`, heap-allocated work items, dentry references | `provfs_enqueue_stamp`, `provfs_stamp_worker`, `provfs_work_init`, `provfs_work_exit`, the `queue_max` knob | called by the hook in the task that closes; executes on kworkers, in parallel and unordered |
| LSM skip list (`lsm/provfs_work.c`) | a shared string buffer, an rwlock | `provfs_path_skipped`, the `skip_prefixes` sysctl handler | read by every hook, rewritten by administrators |
| hook and session value (`lsm/provfs_lsm.c`) | buffers on the stack of the closing task | `provfs_file_release`, environment scan, ancestry walk, cwd, composition of the 256-byte value | reads the (possibly half torn-down) task; feeds the queue |
| session reader (`src/session.rs`) | none | `classify`, `parse_enriched_fallback` | reads what the hook rendered |
| overlay (`src/fs.rs`) | inode table, dirty map, the daemon's descriptors | the FUSE handlers | backing directory, shared with other users of it |
| overlay stamping (`xattrs.rs`, `history.rs`, `identity.rs`) | the record of each file, with a history ring | `stamp`, `push_history`, `resolve_identity` | `/proc` of a process that may be gone |
| overlay skip list (`skip.rs`) | a list of prefixes, fixed at the mount | `from_user_spec`, `should_skip` | consulted by every stamp of the overlay |
| record reader (`reader.rs`) | the record read so far; the stack of a walk | `read_record`, `walk_files` | reads keys while either half writes them, lists directories while they change |
| `prov` (`bin/prov.rs`, `duration.rs`) | none | `show`, `who`, `when`, `chain`, `find` | reports of the reader, exit status |
| daemon entry (`main.rs`) | none | option parsing, `mount2` | chooses the skip list, runs the session thread |

What is hard here, and hard to test: the unlocked check-then-count of the queue
bound; items of one file running at once; failures ignored half-way through a
record; dentry references that cross threads; a buffer read while it is
rewritten; byte-exact truncation; one dirty flag shared by several handles;
names reused while old handles are open; both halves writing one record key by
key while it is read; paths that name another file from one step to the next;
listings joined by an offset into a directory that changes. `PROJECT.json` lists each hazard at
its line with the properties aimed at it.

## Modules

| module | models | checked by | proved in |
|---|---|---|---|
| `ProvfsWork` | the deferred-stamp queue | `MCWork` | `ProvfsWorkProofs` |
| `BestEffort` | what the queue promises the hook (abstract) | as a property of `ProvfsWork` | refinement in `ProvfsWorkProofs` |
| `ProvfsSkip` | the skip list and its lock | `MCSkip` | `ProvfsSkipProofs` |
| `ProvfsSession` | the hook, the session value and its reader | `MCSession` | `ProvfsSessionProofs` |
| `History` | the history ring (operators) | `MCProvFs`, `MCRecord` | `LoopProofs` |
| `ProvFs` | the overlay and its stamping | `MCProvFs` | `ProvFsProofs` |
| `OverlaySkip` | which paths the overlay does not stamp (operators) | `MCProvFs` | `ProvFsProofs` |
| `ProvRecord` | one record under the overlay, the LSM and `prov` at once (composition) | `MCRecord` | `ProvRecordProofs` |
| `ProvFind` | `prov find`: the walk, the filters, the cutoff | `MCFind` | `ProvFindProofs` |
| `ProvListing` | a directory listed page by page through the overlay | `MCListing` | `ProvListingProofs` |

Operators named `Mut...` are plausible bugs: each replaces the definition that
follows it, and the property it is listed with in `PROJECT.json` must then fail.

### ProvfsWork

One action per access to shared state. A task goes
`Begin` (the `provfs_wq` test), `ReadDepth`, `Compare`, `AllocOk` or
`AllocFails`, `AtomicInc`, `QueueWork`, or through `Drop`; an item goes
`StartWork`, a `WriteKey` or `WriteKeyFails` for each key in the worker's
order, `Dput`, `AtomicDec`, `Kfree`. `kzalloc` with the `dget` and the copies is
one step, because the item is private until it is queued. `WorkInit` may happen
after closes have begun (the hooks are registered first), may fail, and may
register no sysctl table. `ExitBegin`/`ExitDone` are `provfs_work_exit`, which
assumes, like its callers must, that no task is inside the hook; nothing in the
repository calls it. `destroy_workqueue` waits for the work functions, not for
their memory. The undo of a
`queue_work` that returns false is not an action: a fresh item is never already
queued.

A close is known by its ticket, its number in the order of entry; an xattr
holds the ticket of the close that wrote it. The variables after "History
variables" only record what happened.

### BestEffort

A close handed over is settled once: lost and counted in `queue_dropped`, or
attempted. The refinement maps `issued` to `closes` and the others to
themselves.

### ProvfsSkip

A list is `N` tokens copied one at a time, so that a copy without the lock can
be torn. `provfs_path_skipped` is `Call`, `ReadLock`, `Snapshot`...,
`ReadUnlock`, `Match`..., `Return`; the sysctl handler shares the first steps
and goes on with `DostringReturns` (a read, or an error) or `DostringWrites`,
`WriteLock`, `Install`..., `WriteUnlock`. `proc_dostring` is external: a write
at position 0 replaces the staged value, a later write on the same descriptor
continues it from there, one beyond the end changes nothing. The rwlock is the
kernel's: readers together, or one writer.

### ProvfsSession

Text is abstracted to its length and buffers keep their sizes in bytes, because
the interesting cases are about what fits. `Release` is the hook with its early
returns as guard; `ScanEntry` is one turn of the environment scan over all
targets; `Walk` one level of the ancestry; `PutChain` ... `PutUid` the five
`snprintf` calls. `Put` models what `snprintf` does when a field does not fit:
it writes as much as there is room for, and this stays as the tail of the value
unless a later call, which starts at the same offset, overwrites it.
`Classify`, `ParseEnriched` and `ReadBack` are `src/session.rs` applied to such a
value: `classify` has a fallback parsed only if it begins with the comm-chain, and
shows any other raw, so properties about what is read back go through `ReadBack`.
Values are assumed to hold no `;` or `:`.

### History

`PushHistory` is the loop of `push_history`: the session first, then the other
parts of the old text until the ring is full. The text is the sequence of its
parts between commas, so a session with a comma has several and an empty one
none. `ProvFs` and `ProvRecord` both stamp with it.

### ProvFs

One action per FUSE handler: `fuser::mount2` runs a single session thread and
handlers take `&mut self`. Processes interleave between handlers. A handler is one
step, which takes for granted that the overlay alone changes the backing directory
and its attributes: `stamp()` makes several calls by path, and what other users and
the LSM's items do between them is the subject of `ProvRecord`, at the grain of one
call. Backing files are objects that are never reused, so a file recreated under
its old name is another object. `Stamp` writes the keys in the order of `xattrs::stamp` and may
stop at any of them, and where stamping can fail the history may be unreadable,
which counts as an empty one; `Release` stamps the releasing process, or
`Unknown` when `/proc` no longer has it.

### OverlaySkip

A path is the sequence of its names and a prefix is cut at its slashes, so the
`starts_with` and `contains` of `should_skip` become an occurrence at the first
or at a later name. `MCProvFs` takes the skipped paths of its instances from
these operators and states the expectations of the unit tests of `skip.rs` as an
assumption that TLC evaluates.

### ProvRecord

The parts that meet on a file's record, at the grain of one xattr call: `Handle`
is a handler of the overlay that reaches `maybe_stamp`. When that handler is
`release`, the daemon has closed its descriptor first, and on a machine with the
LSM this close is itself stamped, with the daemon's identity, by a queued item.
`Close` is a `release` that does not stamp, because another one has taken the mark
of its `open` or the file has lost its name: its close queues an item all the same.
`WriteKey` and its failure serve both stampers; `ReadHistory` and `WriteHistory`
are the overlay's only. A step of the overlay or of `prov` acts on the file that
is at the path at that moment; an item holds the dentry it was queued with.
`ReadBegins`, `ReadKey`, `ProvExits` are `read_record` in a `prov` process, and
`NoProvenance` what its subcommands make of the result. A stamp remembers which
others had ended when it began (`after`), and a file which calls wrote its history
(`log`): the properties are about these orders. `OlderNeverStands` says what a stamp
that went through leaves, in every later state and key by key: its own values, or
those of stamps that overlapped it or came later, never older ones. It does not
say that the caller stands: an item of the daemon that was pending in the call,
or that a later close queues, may displace it. It assumes nothing of the daemon's
environment.

### ProvFind

`ParseSince`, then `OpenDir` for the top of the stack and `VisitEntry` for the
entries of the listing in any order, with the kinds they had when listed; then
`Report`. `Change` is anyone else in the tree. Integers keep their limits, as
the parameters `MaxU` and `MaxI`, so that saturation happens in small instances;
`FindExact` compares with unbounded arithmetic.

### ProvListing

`Readdir` is one request: the directory is read anew, the first `offset` entries
are passed over and as many as fit are given. The read may fail on the way: the
iterator then ends, `entries.flatten()` drops the error, and the request works on
the `len` entries it got (`cut` remembers that of the last request). Entries come
and go between requests. The list is described by the place of each name in it (`Index`: how many
entries come before), not as a sequence. The backing file system is taken to
list the entries that exist in an order that does not depend on which of them
do; one that reorders its listing as it changes would drift further.

## Runs

| run | instance | shows |
|---|---|---|
| `work` | 2 tasks, 1 file, 3 items, 3 closes, `queue_max` 1 to 2 and out-of-range inputs | counters, references, records |
| `work_live` | 2 tasks, 2 files, 2 closes, fair | refinement of `BestEffort` with its liveness, every item freed |
| `skip` | 1 hook, 2 administrators, 2 tokens, 2 lists and their continuation, fair | no torn match, no mixed list; a hook returns however often the list is rewritten |
| `session` | the code's sizes; ancestries, environments, cwds and ids at the edges | the scan's selection; what survives truncation, and what a cut may cost |
| `session_cut_uid` | violation | a wrong uid read back from a truncated field |
| `overlay` | 2 handles, a two-level tree with a skipped path, 5 inode numbers, 5 objects | table, dirty map, release |
| `overlay_faults` | 2 processes, 1 handle, 2 inode numbers, 3 objects; stamps fail half-way, histories are unreadable, ring of 2 | coherence of records |
| `overlay_author` | violation | a reader's release takes the writer's flag |
| `record` | 3 stamps of 2 callers and the daemon, 2 files, 1 fault, closes with and without a stamp, ring of 2, attributes readable, denied or unsupported | the record left behind, and what `prov` may say of it |
| `record_comma` | violation | pieces of a session in the history |
| `find` | 5 paths with a link to the root, 3 records, 10 command lines, 2 changes during the walk, fair | exactness, exit status, termination |
| `listing` | up to 5 names, pages of 1 to 3, reads that fail on the way, 2 created and 2 removed meanwhile, fair | how far a listing drifts, and that it ends |

Why the bounds are enough. In the queue, two closes race and a third finds the
file at rest, mid-stamp or overlapped; two tasks suffice to pass the check with
one slot left, and the third item is what a check that admits one too many
would use. In the skip list, one hook suffices because hooks only
read; two administrators are needed to mix lists, and two tokens to tear one.
In the overlay, two handles share an inode, or one is on an unlinked file and
the other on its successor; five inode numbers allow a name to be forgotten and
interned again with a directory and its entry in use. `MaxCloses`, `MaxIno` and
`MaxObj` of `ProvFs` bound counters that the code lets grow; the theorems hold for all of
them. In `ProvfsSession` the cwd lengths cover every offset at which pid and
uid stop fitting, after a short chain, a long chain, and a chain with an env
field. In `ProvRecord`, `MaxStamps` = 3 is a stamp of the overlay with the item of
its own close and one more stamp before, between or after; `MaxObj` = 2 lets a
file be replaced under a stamp or a read, and `MaxFaults` = 1 lets one thing go
wrong at any step. In `ProvFind`, `MaxChanges` = 2 lets an entry turn from file
to directory and vanish again; the 18-bit integers overflow as `i64` with two
days and as `u64` with four. In `ProvListing`, `N` = 5 names make three pages and
more, and `MaxCreated` = `MaxRemoved` = 2 let the offset slip both ways. Deadlock is
not checked in `ProvRecord`, `ProvFind` and `ProvListing`, where the command or the
listing ends. Symmetry (of tasks, files and items) is used only in the safety run `work`.

Fairness. `ProvfsWork`: a task inside the hook runs on, and a queued item is
executed and runs to its end (an unbound `WQ_MEM_RECLAIM` queue has a rescuer
thread); nothing makes closes, retuning, init or exit happen. `ProvfsSkip`:
tasks run on, and a waiting reader is let in if the lock is free for readers
again and again, which the kernel's queued rwlock gives by serving waiters in
turn; nothing is assumed for writers. `ProvFind`: the `prov` process runs on.
`ProvListing`: the lister goes on asking for pages. Both compete with others who
may change the tree at every step, up to their bounds. Models without a liveness property have
no fairness.

The violations are disagreements of the code with its documents, quoted in
`PROJECT.json` under `findings`. Two of them are defects in the code's own
terms. `provfs_build_fallback` means to drop a field that does not fit, but
leaves its beginning in the buffer, so a writer with uid 1000 may be recorded,
and read back, as uid 10. And a session with a comma, such as that of a process
named `a,b`, falls into pieces in the history.

Four further disagreements are met by properties that state what the code does
guarantee instead:

- `lsm/README.md:139` says "`pid` / `uid` — always present"; a cwd that just fits
  squeezes them out, but nothing else does (`OnlyCwdSqueezesPidUid`).
- `lsm/README.md:108` says a tool, turn or intent is "truncated to 63 bytes"; the
  end of the 4096 scanned bytes cuts it too (`CutAtCapOrWindow`).
- `lsm/README.md:96` says an optional xattr is "present only when the writer's
  environment actually set it"; neither half removes one, so it is that of the
  last writer who had it (`OlderNeverStands` is about the keys a stamp writes, and
  only those).
- `README.md:5` says "the file carries its own origin"; items of one file overlap
  on the unbound workqueue, and the session of one close may stand next to the ts
  of another. Without overlap and failure they agree (`RestingRecordCoherent`).
  Under the overlay, the daemon's items may stand over the caller, whether they
  were pending in its call or queued by a later close of another descriptor; what
  never stands over a call that went through is anything older (`OlderNeverStands`).

One more is only a matter of words: `README.md:16` lists write among the calls that
stamp; `write()` marks the file and `release()` stamps it (`ContentGetsStamped`).

## Theorems

Every invariant and action property of a passing run is also a theorem, "the
specification implies always P", for any number of tasks, files, items, tokens,
paths, handles, callers, stamps and names and any sizes of the buffers that meet
the assumptions. `PushHistoryRing`, `SkipIsClosed` and `UserSpecOnlyAdds` are about
operators, and `ImplementsBestEffort` is the safety part of the refinement. The
parts of the inductive invariants were checked by TLC, on the instances of the
runs, before they were proved.

**ProvfsWorkProofs.** The inductive invariant is built in layers, each proved
with the help of the ones before. `Typed` and `Owned`: ranges, and that an item
that is not queued yet belongs to exactly one call. `DepthCountsWorks` and
`DentryPinned` are inductive on top of these; they give the signs of the
counters (`TypeCorrect`). `OverAdmitBounded` is not inductive: a call that has
passed the check will add to the depth later, and one that has read a depth may
compare it with a `queue_max` raised meanwhile. `Admission` therefore counts the
calls already let in as well, and does so for every value `queue_max` may still
be raised to. `Ledger` says where each ticket is, for `DropsAreClean` and for
`ImplementsBestEffort`, where each step of the queue is shown to be a step of
`BestEffort` or to leave it unchanged. `Settling` says how far the record of a
file has come that has been disturbed neither by overlap nor by failure, for
`RestIsCoherent`.

**ProvFsProofs.** `Table` (ranges, `TableInverse`, `DirtyImpliesOpen`) is
inductive. `Bound` ties each handle to the object at its path as long as it has
one, and gives `ReleaseIsFaithful`; both are about a directory that the overlay
alone changes, as is the module.
With `Marked` it gives `ContentNeverForgotten`. `Stamped` and `Attributed`: every stamp, whether it goes through, fails half-way
or meets an unreadable history, leaves a history that names nobody twice and fits
the ring, by `PushHistoryRing`, and if it went through its author at the head of it
(`RecordsAreCoherent`, `OverlayTypeCorrect`). `SkipIsClosed`: whatever the prefixes,
a skipped path stays skipped inside any directory, and with it all that is below
it, because an occurrence of a prefix keeps the names around it
(`OccurrenceKept`). `UserSpecOnlyAdds`: options never unskip.

**ProvfsSkipProofs.** `Placed`, `Excluded`, `Copied` and `Judged`: the part of a
snapshot taken so far agrees with the list in force, because whoever installs
one is alone in the lock; hence the whole snapshot is one list, and the tokens
tried so far decide the verdict.

**LoopProofs.** The loops the models write as recursive functions (`push_history`,
the offsets of environment entries). The library's induction theorems take a
predicate and the provers cannot instantiate it, so induction is stated over a
set here: every set of natural numbers has a least element (`LeastElement`), so
one that holds 0 and with each number the next holds all (`UpTo`), and a loop has
a history of values (`LoopExists`). `PushHistoryRing` then follows turn by turn: the
values seen so far are a rest of the old text (`IsRest`: no session in it, nothing
twice that was not, short enough) in its order (`InOrder`: what is missing was the
session, or found the ring full of earlier parts).

**ProvfsSessionProofs.** `Placed`, `Scanned`, `Ended`, `Filled` and `Kept` say how far
`provfs_stamp` has come. `Scanned` makes `TargetsAreFirstMatches` and
`CutAtCapOrWindow` inductive: each target holds its first match among the entries
passed, and entries begin where the ones before end. `Filled` follows the five
`snprintf` calls: the bytes taken so far, the fields held, and whose beginning the
tail can be. The chain and the env field always fit, by the sizes of the buffers
(`SessionAssumption`); after the cwd, pid and uid fit unless it was written
(`PidUidRoom`); hence `ActorSignalSurvives`, `OnlyUidMayBeCut` and
`OnlyCwdSqueezesPidUid`. That the offset stays inside the buffer, so that
`buflen - off` never wraps, is part of `TypeOK`.

**ProvRecordProofs.** `Typed`, `Sound` (no stamp goes beyond its keys) and `Ringed`
(a history is one session and fewer than `MAX_HISTORY` parts) give `TypeOK`. `Reader`
says of an unfinished read that the keys present at its start are still there and
that those it has passed were seen; it holds because stamps never remove a key, and
gives `ExitCodeHonest` and `EvidenceNotMissed`. `Logged` ties the ring of a file to
the calls that wrote it: `Recent` is `HistoryIsMostRecent` as a fact about a list of
sessions and a ring, and `Chain` says that a writer is no further back in the ring
than there have been writers since, which `WhoIsInChain` needs, because the session
was read before and others may have written since. One more call keeps both
(`RecentPush`, `ChainPush`, by `PushHistoryRing`), provided the history it had read is
still the one it replaces. That it is unless something failed (`Undisturbed`) rests
on `Ordered`: only the latest call can be running. `OlderNeverStands` is about stamps
that have gone through, and is not inductive: `Stands` says the same of the keys a
stamp has come by so far, as long as it can be sure to have written them in its own
file (`Sure`: nothing has failed, or, for a call, the file it began with is still at
the path, where it never returns to once it has left; and for good when the call has
written the history). A value that stands is only ever replaced by that of a running
stamp, which was not over when any other began (`StandingStays`).

**ProvFindProofs.** The walk is described by its frontier, the directories on the
stack and the entries of the open one. `Shape`: no path is in it twice, none lies
above another, and no link waits to be opened; opening a directory puts its
children in its place, which keeps that. `Truth`: entries nobody has touched are
still what they were listed as. `Exact` then says of a file nobody interferes with
that it has been read once if nothing above it is in the frontier any more, and not
yet otherwise; when the frontier is empty this is `FindIsExact`, with `FilterCorrect`:
filters and cutoff in saturating arithmetic agree with the ones in unbounded
arithmetic. `Blamed` and `Shut` give `FindExitIsHonest`. Assumed of the constants
(`FindAssumption`): paths form a finite tree; the clock is not before 1970; a time
in a record that parses is not so far in the past that the distance to now exceeds
an `i64`, and a numeric one fits an `i64` at all, as the code's parser requires.
Induction over the tree is over the set of paths that have the property
(`TreeInduction`), as above.

**ProvListingProofs.** The offset cuts the directory in two. `Drift` counts what is on
the wrong side: `Missed`, entries that stayed, were passed and not listed, and `Twice`,
those listed twice or listed and still to come. A page moves entries over the cut
and lists them, so it adds to neither, a page of a read that failed on the way
included, as it is a beginning of the whole; a removal before the cut carries at most one
entry over it unlisted, a creation at most one back that was listed. At the empty
page of a whole read nothing is left behind the cut; a read that failed there ends
the listing early, and the bound on what is missed excepts it.

Assumptions on constants are the named `ASSUME`s of the modules; TLC evaluates
them in every run.

Only model-checked: the liveness properties (`HooksReturn`, `ItemsReleased`,
`WalkEnds`, `ListingEnds`) and the liveness part of the refinement,
which are out of TLAPS's reach, and the three properties that fail.

## Not modelled

- Text where only its boundaries matter: a `;` inside a name in the session
  value, the overlay's own `comm:<name>:pid:<n>` form in `classify`, blanks around a
  session, how times are parsed and rendered, the layout of what `prov` prints.
- The environment and the comm of a caller are read one after the other
  (`identity.rs`); an identity is one value here.
- File modes, times, symbolic links in the overlay, reading and attributes; they
  carry no provenance. `setattr` that changes the mode and then fails to truncate
  returns without a stamp; this is listed as a hazard.
- Other users of the backing directory in `ProvFs`, where a handler is one step; see
  `ProvRecord` for one path.
- In `ProvFind`, a directory replaced by a symbolic link while it waits on the
  stack (`read_dir` would follow it).
- The checks of the two directories in `main.rs`: they keep no state.
- Memory ordering below the atomic operations and locks the code uses.

## Plan

Done: the queue with its contract, both skip lists, the overlay, the session
value, the record under both halves and its reader, the walk, the listing; a
theorem for every invariant and action property of the runs. Next:

1. The safety half of termination as action properties, with theorems: every page
   of a listing moves the offset, every step of the walk shrinks what it has left,
   and an item never goes back a step.
2. An abstract history (the latest distinct sessions) that the ring of `ProvRecord`
   refines while it is undisturbed.
3. `setattr` that fails half-way, if a property is found that tells it from a
   failed stamp.
