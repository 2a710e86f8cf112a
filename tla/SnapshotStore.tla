---------------------------- MODULE SnapshotStore ----------------------------
(***************************************************************************)
(* The writers of the snapshot history: `save`, `prune` and `gc`, each a   *)
(* short-lived process that holds the lock of lockfile.Acquire while it    *)
(* works on the SQLite tables and on the content-addressed scrollback      *)
(* files.  Every statement and every transaction of the Go code is one     *)
(* step here, so a process can die between any two of them.                *)
(*                                                                         *)
(* Outside the processes the tmux server changes: which panes exist (the   *)
(* structure), what they are doing (cwd, command, layout) and the text on  *)
(* their screens.  A scrollback text stands for its own sha256.            *)
(***************************************************************************)
EXTENDS EventStore

CONSTANTS
  Proc, NoProc,        \* process slots; the lock is free when lock = NoProc
  Pane,                \* pane keys "<session>:<window index>:<pane index>"
  Act,                 \* what the panes are doing
  Content, NoSha,      \* scrollback texts; no scrollback recorded
  CaptureScrollback,   \* SaverOptions.CaptureScrollback
  Workers,             \* SaverOptions.ScrollbackWorkers
  MinSaveInterval,     \* SaverOptions.MinSaveInterval, in ticks
  Keep,                \* cfg.SnapshotHistoryLimit
  MaxClock, MaxChanges, MaxId, MaxStops   \* bounds of the model

ASSUME ConstAssumption ==
  /\ NoProc \notin Proc
  /\ NoSha \notin Content
  /\ CaptureScrollback \in BOOLEAN
  /\ {Workers, Keep} \subseteq Nat \ {0}
  /\ {MinSaveInterval, MaxClock, MaxChanges, MaxId, MaxStops} \subseteq Nat

VARIABLES
  live, act, clock,    \* the tmux server and the time
  events, links,       \* tables events and event_scrollbacks
  rows, refcount,      \* table scrollbacks: its keys and their refcount
  meta,                \* table meta: the three last_save_* values
  files,               \* the scrollback directory
  lock, pc, mem,       \* the lock; control state and locals of each process
  nextId,              \* the AUTOINCREMENT counter of events
  torn,                \* auxiliary: ids of snapshots whose save died after the insert
  changes, stops       \* counters of the model's bounds

env   == <<live, act, clock, changes>>
store == <<events, links, rows, refcount, meta, files, nextId>>
vars  == <<env, store, lock, pc, mem, torn, stops>>

JobState == {"none", "queued", "captured", "stored", "done", "failed"}

\* The locals of a process that does nothing.
NoMem ==
  [savedAt |-> 0, fp |-> <<>>, skipped |-> FALSE,
   job |-> [p \in Pane |-> "none"], sha |-> [p \in Pane |-> NoSha],
   ev |-> 0, todo |-> {}, orphans |-> {}, victim |-> NoSha]

\* GetMeta of an absent key is "", which parses to the epoch.  The clock
\* starts a full interval later.
Init ==
  /\ live = {} /\ act \in Act /\ clock = MinSaveInterval /\ changes = 0
  /\ events = {} /\ links = {} /\ rows = {} /\ files = {} /\ nextId = 1
  /\ refcount = [s \in Content |-> 0]
  /\ meta = [fp |-> <<>>, structFP |-> <<>>, ts |-> 0]
  /\ lock = NoProc /\ pc = [w \in Proc |-> "idle"] /\ mem = [w \in Proc |-> NoMem]
  /\ torn = {} /\ stops = 0

-----------------------------------------------------------------------------
(* The environment. *)

\* Changes stop a save interval before the end of modelled time, so that the
\* last of them is still followed by an unthrottled moment.
MayChange == changes < MaxChanges /\ clock + MinSaveInterval <= MaxClock

\* Panes come and go; a structure may come back, as break-pane and join-pane
\* do it, or a new server that hands out the same ids.
Restructure ==
  /\ MayChange
  /\ live' \in SUBSET Pane \ {live}
  /\ changes' = changes + 1
  /\ UNCHANGED <<act, clock, store, lock, pc, mem, torn, stops>>

Churn ==
  /\ MayChange
  /\ act' \in Act \ {act}
  /\ changes' = changes + 1
  /\ UNCHANGED <<live, clock, store, lock, pc, mem, torn, stops>>

Tick ==
  /\ clock < MaxClock
  /\ clock' = clock + 1
  /\ UNCHANGED <<live, act, changes, store, lock, pc, mem, torn, stops>>

-----------------------------------------------------------------------------
(* The lock: withStore takes it before the first step of a command and     *)
(* releases it after the last.                                             *)

\* Mutant: nobody looks whether the lock is taken.
BeginUnlocked(w, first) ==
  /\ pc[w] = "idle"
  /\ lock' = w
  /\ pc' = [pc EXCEPT ![w] = first]

Begin(w, first) ==
  /\ lock = NoProc /\ pc[w] = "idle"
  /\ lock' = w
  /\ pc' = [pc EXCEPT ![w] = first]

Goto(w, next) == lock' = lock /\ pc' = [pc EXCEPT ![w] = next]

Finish(w) ==
  /\ lock' = NoProc
  /\ pc' = [pc EXCEPT ![w] = "idle"]
  /\ mem' = [mem EXCEPT ![w] = NoMem]

\* The process is killed, or a step fails and its error is returned: nothing
\* is rolled back but the transaction in progress, and the kernel frees the
\* lock with the file descriptor.
Stop(w) ==
  /\ pc[w] # "idle" /\ stops < MaxStops
  /\ Finish(w)
  /\ torn' = IF pc[w] \in {"link", "metaFP", "metaStruct", "metaTS"}
             THEN torn \cup {mem[w].ev} ELSE torn
  /\ stops' = stops + 1
  /\ UNCHANGED <<env, store>>

-----------------------------------------------------------------------------
(* save *)

SaveStart(w) ==
  /\ nextId <= MaxId
  /\ Begin(w, "build")
  /\ mem' = [mem EXCEPT ![w].savedAt = clock]
  /\ UNCHANGED <<env, store, torn, stops>>

Fingerprint          == <<live, act>>
StructureFingerprint == <<live>>
Throttled            == clock - meta.ts < MinSaveInterval

\* Mutant: the interval drops structure too.
SkipsAnyChange == live = {} \/ Fingerprint = meta.fp \/ Throttled

\* Nothing to save, nothing changed, or only churn inside the interval.
Skips ==
  \/ live = {}
  \/ Fingerprint = meta.fp
  \/ Throttled /\ StructureFingerprint = meta.structFP

\* Mutant: a skipped save records what it skipped.
SaveSkipRecords(w) ==
  /\ pc[w] = "build" /\ Skips
  /\ Goto(w, "prune")
  /\ meta' = [meta EXCEPT !.fp = Fingerprint]
  /\ UNCHANGED <<env, events, links, rows, refcount, files, nextId, mem, torn, stops>>

SaveSkip(w) ==
  /\ pc[w] = "build" /\ Skips
  /\ Goto(w, "prune")
  /\ UNCHANGED <<env, store, mem, torn, stops>>

SaveBuild(w) ==
  /\ pc[w] = "build" /\ ~Skips
  /\ LET capture == CaptureScrollback /\ ~Throttled
     IN  /\ Goto(w, IF capture THEN "capture" ELSE "insert")
         /\ mem' = [mem EXCEPT ![w].fp = Fingerprint,
                               ![w].skipped = CaptureScrollback /\ Throttled,
                               ![w].job = [p \in Pane |->
                                   IF capture /\ p \in live THEN "queued" ELSE "none"]]
  /\ UNCHANGED <<env, store, torn, stops>>

(* One worker goroutine per pane, at most Workers of them at a time. *)

Busy(w) == {p \in Pane : mem[w].job[p] \in {"captured", "stored"}}

CapturePane(w, p) ==
  /\ pc[w] = "capture" /\ mem[w].job[p] = "queued"
  /\ Cardinality(Busy(w)) < Workers
  /\ \E text \in Content :
        mem' = [mem EXCEPT ![w].job[p] = "captured", ![w].sha[p] = text]
  /\ UNCHANGED <<env, store, lock, pc, torn, stops>>

\* The pane is gone or capture-pane failed: logged, saved without scrollback.
CapturePaneFails(w, p) ==
  /\ pc[w] = "capture" /\ mem[w].job[p] = "queued"
  /\ Cardinality(Busy(w)) < Workers
  /\ mem' = [mem EXCEPT ![w].job[p] = "none"]
  /\ UNCHANGED <<env, store, lock, pc, torn, stops>>

\* Put: a present file is kept, an absent one appears whole by rename.
Put(w, p) ==
  /\ pc[w] = "capture" /\ mem[w].job[p] = "captured"
  /\ files' = files \cup {mem[w].sha[p]}
  /\ mem' = [mem EXCEPT ![w].job[p] = "stored"]
  /\ UNCHANGED <<env, events, links, rows, refcount, meta, nextId, lock, pc, torn, stops>>

\* Mutant: the conflict clause resets the refcount.
UpsertResets(w, p) ==
  /\ pc[w] = "capture" /\ mem[w].job[p] = "stored"
  /\ rows' = rows \cup {mem[w].sha[p]}
  /\ refcount' = [refcount EXCEPT ![mem[w].sha[p]] = 0]
  /\ mem' = [mem EXCEPT ![w].job[p] = "done"]
  /\ UNCHANGED <<env, events, links, meta, files, nextId, lock, pc, torn, stops>>

UpsertScrollback(w, p) ==
  /\ pc[w] = "capture" /\ mem[w].job[p] = "stored"
  /\ LET s == mem[w].sha[p]
     IN  /\ rows' = rows \cup {s}
         /\ refcount' = IF s \in rows THEN refcount ELSE [refcount EXCEPT ![s] = 0]
  /\ mem' = [mem EXCEPT ![w].job[p] = "done"]
  /\ UNCHANGED <<env, events, links, meta, files, nextId, lock, pc, torn, stops>>

\* Put or UpsertScrollback returns an error: the other workers go on.
WorkerFails(w, p) ==
  /\ pc[w] = "capture" /\ p \in Busy(w) /\ stops < MaxStops
  /\ mem' = [mem EXCEPT ![w].job[p] = "failed"]
  /\ stops' = stops + 1
  /\ UNCHANGED <<env, store, lock, pc, torn>>

\* Mutant: the workers' errors are logged, not returned.
CapturedForgiving(w) ==
  /\ pc[w] = "capture"
  /\ \A p \in Pane : mem[w].job[p] \in {"none", "done", "failed"}
  /\ Goto(w, "insert")
  /\ UNCHANGED <<env, store, mem, torn, stops>>

\* wg.Wait: every worker is through, and the first error aborts the save.
Captured(w) ==
  /\ pc[w] = "capture"
  /\ \A p \in Pane : mem[w].job[p] \in {"none", "done", "failed"}
  /\ IF \E p \in Pane : mem[w].job[p] = "failed"
     THEN Finish(w)
     ELSE Goto(w, "insert") /\ UNCHANGED mem
  /\ UNCHANGED <<env, store, torn, stops>>

\* The manifest names the structure Build saw and, per pane, the sha captured.
InsertEvent(w) ==
  /\ pc[w] = "insert"
  /\ events' = events \cup
       {[id |-> nextId, ts |-> mem[w].savedAt, kind |-> "snapshot",
         fp |-> mem[w].fp, skipped |-> mem[w].skipped, sha |-> mem[w].sha]}
  /\ nextId' = nextId + 1
  /\ mem' = [mem EXCEPT ![w].ev = nextId,
                        ![w].todo = {p \in Pane : mem[w].sha[p] # NoSha}]
  /\ Goto(w, "link")
  /\ UNCHANGED <<env, links, rows, refcount, meta, files, torn, stops>>

\* One transaction per pane.  The insert needs the scrollbacks row (foreign
\* key); without it the statement fails and the save can only Stop.
LinkEventScrollback(w, p) ==
  /\ pc[w] = "link" /\ p \in mem[w].todo
  /\ LET s == mem[w].sha[p]
     IN  /\ s \in rows
         /\ links' = links \cup {[event |-> mem[w].ev, pane |-> p, sha |-> s]}
         /\ refcount' = [refcount EXCEPT ![s] = @ + 1]
  /\ mem' = [mem EXCEPT ![w].todo = @ \ {p}]
  /\ UNCHANGED <<env, events, rows, meta, files, nextId, lock, pc, torn, stops>>

\* Mutant: the loop over the panes stops early.
LinkedEarly(w) ==
  /\ pc[w] = "link"
  /\ Goto(w, "metaFP")
  /\ UNCHANGED <<env, store, mem, torn, stops>>

Linked(w) ==
  /\ pc[w] = "link" /\ mem[w].todo = {}
  /\ Goto(w, "metaFP")
  /\ UNCHANGED <<env, store, mem, torn, stops>>

\* Mutant: the full fingerprint goes into the structure's key.
SetMetaMixedUp(w) ==
  /\ \/ /\ pc[w] \in {"metaFP", "metaStruct"}
        /\ meta' = IF pc[w] = "metaFP" THEN [meta EXCEPT !.fp = mem[w].fp]
                                      ELSE [meta EXCEPT !.structFP = mem[w].fp]
        /\ Goto(w, IF pc[w] = "metaFP" THEN "metaStruct" ELSE "metaTS")
     \/ /\ pc[w] = "metaTS"
        /\ meta' = [meta EXCEPT !.ts = mem[w].savedAt]
        /\ Goto(w, "prune")
  /\ UNCHANGED <<env, events, links, rows, refcount, files, nextId, mem, torn, stops>>

\* The three SetMeta statements, in their order.
SetMeta(w) ==
  /\ \/ /\ pc[w] = "metaFP"
        /\ meta' = [meta EXCEPT !.fp = mem[w].fp]
        /\ Goto(w, "metaStruct")
     \/ /\ pc[w] = "metaStruct"
        /\ meta' = [meta EXCEPT !.structFP = <<mem[w].fp[1]>>]
        /\ Goto(w, "metaTS")
     \/ /\ pc[w] = "metaTS"
        /\ meta' = [meta EXCEPT !.ts = mem[w].savedAt]
        /\ Goto(w, "prune")
  /\ UNCHANGED <<env, events, links, rows, refcount, files, nextId, mem, torn, stops>>

-----------------------------------------------------------------------------
(* prune: the subcommand, and the tail of save whether or not it saved. *)

PruneStart(w) ==
  /\ Begin(w, "prune")
  /\ UNCHANGED <<env, store, mem, torn, stops>>

LinksTo(L, s) == {l \in L : l.sha = s}

\* Deleting event rows, with ON DELETE CASCADE on event_scrollbacks and its
\* AFTER DELETE trigger.
DeleteEvents(E) ==
  LET gone == {l \in links : l.event \in Ids(E)}
  IN  /\ events' = events \ E
      /\ links' = links \ gone
      /\ refcount' = [s \in Content |->
            IF s \in rows THEN refcount[s] - Cardinality(LinksTo(gone, s))
                          ELSE refcount[s]]

Prune(w) ==
  /\ pc[w] = "prune"
  /\ \E kept \in PruneSnapshots(events, Keep, clock) : DeleteEvents(events \ kept)
  /\ Finish(w)
  /\ UNCHANGED <<env, rows, meta, files, nextId, torn, stops>>

-----------------------------------------------------------------------------
(* gc *)

\* Mutants: gc runs without the lock; an off-by-one in its query.
GCStartUnlocked(w) ==
  /\ pc[w] = "idle"
  /\ pc' = [pc EXCEPT ![w] = "gc"]
  /\ mem' = [mem EXCEPT ![w].orphans = {s \in rows : refcount[s] <= 0}]
  /\ UNCHANGED <<env, store, lock, torn, stops>>
GCStartOffByOne(w) ==
  /\ Begin(w, "gc")
  /\ mem' = [mem EXCEPT ![w].orphans = {s \in rows : refcount[s] <= 1}]
  /\ UNCHANGED <<env, store, torn, stops>>

\* ScrollbacksWithZeroRef, read once.
GCStart(w) ==
  /\ Begin(w, "gc")
  /\ mem' = [mem EXCEPT ![w].orphans = {s \in rows : refcount[s] <= 0}]
  /\ UNCHANGED <<env, store, torn, stops>>

GCDeleteFile(w, s) ==
  /\ pc[w] = "gc" /\ s \in mem[w].orphans
  /\ files' = files \ {s}
  /\ mem' = [mem EXCEPT ![w].orphans = @ \ {s}, ![w].victim = s]
  /\ Goto(w, "gcRow")
  /\ UNCHANGED <<env, events, links, rows, refcount, meta, nextId, torn, stops>>

\* Deleting the file fails: on to the next one.
GCDeleteFileFails(w, s) ==
  /\ pc[w] = "gc" /\ s \in mem[w].orphans /\ stops < MaxStops
  /\ mem' = [mem EXCEPT ![w].orphans = @ \ {s}]
  /\ stops' = stops + 1
  /\ UNCHANGED <<env, store, lock, pc, torn>>

\* The foreign key of event_scrollbacks refuses to drop a linked row; a
\* failure is logged and the loop goes on.
GCDeleteRow(w) ==
  /\ pc[w] = "gcRow"
  /\ rows' = IF LinksTo(links, mem[w].victim) = {} THEN rows \ {mem[w].victim} ELSE rows
  /\ mem' = [mem EXCEPT ![w].victim = NoSha]
  /\ Goto(w, "gc")
  /\ UNCHANGED <<env, events, links, refcount, meta, files, nextId, torn, stops>>

GCEnd(w) ==
  /\ pc[w] = "gc" /\ mem[w].orphans = {}
  /\ Finish(w)
  /\ UNCHANGED <<env, store, torn, stops>>

-----------------------------------------------------------------------------
SaveStep(w) ==
  \/ SaveSkip(w) \/ SaveBuild(w)
  \/ \E p \in Pane : \/ CapturePane(w, p) \/ CapturePaneFails(w, p)
                     \/ Put(w, p) \/ UpsertScrollback(w, p) \/ WorkerFails(w, p)
                     \/ LinkEventScrollback(w, p)
  \/ Captured(w) \/ InsertEvent(w) \/ Linked(w) \/ SetMeta(w)

GCStep(w) ==
  \/ \E s \in Content : GCDeleteFile(w, s) \/ GCDeleteFileFails(w, s)
  \/ GCDeleteRow(w) \/ GCEnd(w)

Step(w) == SaveStep(w) \/ Prune(w) \/ GCStep(w)

Next ==
  \/ Restructure \/ Churn \/ Tick
  \/ \E w \in Proc : SaveStart(w) \/ PruneStart(w) \/ GCStart(w) \/ Step(w) \/ Stop(w)

Spec == Init /\ [][Next]_vars

\* The systemd timer keeps starting saves, a started process keeps running,
\* time passes.  Acquire polls a lock that is free again and again while other
\* commands come and go, hence the strong fairness of SaveStart.
Fairness ==
  /\ WF_vars(Tick)
  /\ SF_vars(\E w \in Proc : SaveStart(w))
  /\ \A w \in Proc : WF_vars(Step(w))

FairSpec == Spec /\ Fairness

-----------------------------------------------------------------------------
(* Properties. *)

EventRow ==
  [id : Nat, ts : Nat, kind : {"snapshot"}, fp : (SUBSET Pane) \X Act,
   skipped : BOOLEAN, sha : [Pane -> Content \cup {NoSha}]]

MemType ==
  [savedAt : Nat, fp : {<<>>} \cup ((SUBSET Pane) \X Act), skipped : BOOLEAN,
   job : [Pane -> JobState], sha : [Pane -> Content \cup {NoSha}],
   ev : Nat, todo : SUBSET Pane,
   orphans : SUBSET Content, victim : Content \cup {NoSha}]

MetaType ==
  [fp : {<<>>} \cup ((SUBSET Pane) \X Act),
   structFP : {<<>>} \cup {<<l>> : l \in SUBSET Pane}, ts : Nat]

PC == {"idle", "build", "capture", "insert", "link", "metaFP", "metaStruct",
       "metaTS", "prune", "gc", "gcRow"}

\* The variables hold the values the SQL schema and the Go types allow.
TypeOK ==
  /\ live \in SUBSET Pane /\ act \in Act /\ clock \in Nat /\ changes \in Nat
  /\ events \in SUBSET EventRow
  /\ links \in SUBSET [event : Nat, pane : Pane, sha : Content]
  /\ rows \in SUBSET Content /\ refcount \in [Content -> Int]
  /\ meta \in MetaType
  /\ files \in SUBSET Content
  /\ lock \in Proc \cup {NoProc} /\ pc \in [Proc -> PC] /\ mem \in [Proc -> MemType]
  /\ nextId \in Nat /\ torn \in SUBSET Nat /\ stops \in Nat

\* The refcount column, kept by hand in LinkEventScrollback and by the trigger
\* on cascaded deletes, counts the event_scrollbacks rows of its sha exactly,
\* wherever saves, prunes and collectors were killed.  gc decides by it alone.
RefcountExact ==
  \A s \in rows : refcount[s] = Cardinality(LinksTo(links, s))

\* A scrollback that event_scrollbacks links is on disk and has its row: no
\* interleaving or death of save, prune and gc reaps a linked text.
LinkedIsReadable == \A l \in links : l.sha \in rows \cap files

\* What a save has put into its manifest stays in the store until the save
\* has linked it.  Refcounts do not protect it (they are still 0): only the
\* lock that keeps gc out does.
InFlightIsReadable ==
  \A w \in Proc, p \in Pane :
    mem[w].job[p] = "done" \/ p \in mem[w].todo => mem[w].sha[p] \in rows \cap files

\* Every scrollback a snapshot's manifest names is linked and on disk, once
\* its save is past the linking, if the save did not die after the insert.
CompleteIsReadable ==
  \A e \in events, p \in Pane :
    \/ e.sha[p] = NoSha \/ e.id \in torn
    \/ \E w \in Proc : mem[w].ev = e.id /\ p \in mem[w].todo
    \/ /\ [event |-> e.id, pane |-> p, sha |-> e.sha[p]] \in links
       /\ e.sha[p] \in files

\* A save may skip only if the latest snapshot already has the structure the
\* server has now (comment of Save: "structure always saves"), unless the save
\* of that snapshot died before it had updated the last_save_* values.
SkipLosesNoStructure ==
  [][\A w \in Proc : SaveSkip(w) /\ live # {} =>
       \E e \in LatestSnapshot(events) : e.fp[1] = live \/ e.id \in torn]_vars

\* Retention never deletes the snapshot that LatestSnapshot answers with.  When
\* snapshots of the same millisecond tie for the LIMIT it is the day floor that
\* keeps it, so for a week only.
PruneKeepsLatest ==
  [][\A e \in LatestSnapshot(events) :
       \/ e \in events'
       \/ e.ts < clock - Week /\ \E f \in Snapshots(events) \ {e} : f.ts = e.ts]_vars

\* What the server looks like now gets into the latest snapshot: dropped churn
\* is picked up by a later save (comment of Save on MinSaveInterval).
ChurnEventuallySaved ==
  []<>(live = {} \/ \E e \in LatestSnapshot(events) : e.fp = Fingerprint)

\* The refinement mapping: what event_scrollbacks links is filed, what has a
\* file can be read.
Archive == INSTANCE ScrollbackArchive
             WITH archive <- links, texts <- files, Event <- 1..MaxId

\* The tables, the refcounts, the lock and the collector together keep the
\* promise of ScrollbackArchive.
ImplementsArchive == Archive!ArchiveSpec

-----------------------------------------------------------------------------
(* The inductive invariant behind RefcountExact, LinkedIsReadable,         *)
(* InFlightIsReadable, CompleteIsReadable and the refinement.              *)

\* Whoever does not hold the lock does nothing and remembers nothing.
OnlyHolder == \A w \in Proc : w # lock => pc[w] = "idle" /\ mem[w] = NoMem

\* What a save's workers have achieved for a pane: Put leaves the file,
\* UpsertScrollback the row, and only finished panes get inserted and linked.
SaverInv(w) ==
  /\ pc[w] \in {"capture", "insert", "link", "metaFP", "metaStruct", "metaTS"} =>
       mem[w].fp \in (SUBSET Pane) \X Act
  /\ \A p \in Pane :
       /\ mem[w].job[p] \in {"none", "queued"} => mem[w].sha[p] = NoSha
       /\ mem[w].job[p] \in {"captured", "stored", "done"} => mem[w].sha[p] \in Content
       /\ mem[w].job[p] \in {"stored", "done"} => mem[w].sha[p] \in files
       /\ mem[w].job[p] = "done" => mem[w].sha[p] \in rows
       /\ pc[w] \in {"build", "gc", "gcRow"} => mem[w].job[p] = "none"
       /\ pc[w] \in {"insert", "link"} => mem[w].job[p] \in {"none", "done"}
       /\ p \in mem[w].todo => pc[w] = "link" /\ mem[w].job[p] = "done"

\* The save that links works for the newest event, each pane once, with the
\* shas of that event's manifest.
LinkerInv(w) ==
  /\ pc[w] \in {"build", "capture", "insert"} => nextId <= MaxId
  /\ pc[w] = "link" =>
       /\ mem[w].ev > 0 /\ mem[w].ev + 1 = nextId /\ nextId <= MaxId + 1
       /\ \A l \in links : l.event = mem[w].ev => l.pane \notin mem[w].todo
       /\ \A e \in events : e.id = mem[w].ev => e.sha = mem[w].sha

\* The collector holds only texts without a link.
CollectorInv(w) ==
  /\ pc[w] \notin {"gc", "gcRow"} => mem[w].orphans = {} /\ mem[w].victim = NoSha
  /\ \A s \in mem[w].orphans \cup {mem[w].victim} : LinksTo(links, s) = {}

HolderInv(w) == SaverInv(w) /\ LinkerInv(w) /\ CollectorInv(w)

\* Ids are fresh and events distinct.
IdsInv ==
  /\ nextId > 0 /\ IsFiniteSet(links) /\ IsFiniteSet(events)
  /\ \A e \in events : e.id < nextId
  /\ \A e, f \in events : e.id = f.id => e = f
  /\ \A l \in links : l.event < nextId

TablesInv == IdsInv /\ RefcountExact /\ LinkedIsReadable

\* CompleteIsReadable without the files, which LinkedIsReadable adds.
CompleteIsLinked ==
  \A e \in events, p \in Pane :
    \/ e.sha[p] = NoSha \/ e.id \in torn
    \/ \E w \in Proc : mem[w].ev = e.id /\ p \in mem[w].todo
    \/ [event |-> e.id, pane |-> p, sha |-> e.sha[p]] \in links

IInv ==
  /\ TypeOK /\ OnlyHolder /\ (\A w \in Proc : HolderInv(w))
  /\ TablesInv /\ CompleteIsLinked
=============================================================================
