------------------------------ MODULE Archive -------------------------------
(***************************************************************************)
(* write_file, delete_file and restore_file of runtime_tools/file_tools.py *)
(* and the soft-delete archive they share.  Each MCP run has a thread of   *)
(* its own, so the tools of several runs interleave on one workspace: a    *)
(* worker takes one file-system call at a time.                            *)
(*                                                                         *)
(* A file is the version of the content it holds and its mtime, which a    *)
(* rename keeps.  Path checks that refuse before touching a file are left  *)
(* out.  Opening for writing and writing are one step.                     *)
(***************************************************************************)
EXTENDS Integers, FiniteSets, FiniteSetsExt

CONSTANTS
  Workers,
  Paths,        \* writable paths
  Flat,         \* the path flattened into a file name: two may agree
  Ops,          \* the tools the workers call
  MayTouch,     \* the paths each worker's calls name
  NoPath, NoName,
  ManifestName, \* manifest.jsonl, which lies in the archive too
  MaxAge,       \* _ARCHIVE_MAX_AGE_DAYS
  Cap,          \* _ARCHIVE_MAX_SIZE_MB, in files
  MaxNow,       \* bound on the clock
  MaxCalls,     \* bound on the calls
  MaxFaults     \* bound on the I/O errors no other worker caused

ASSUME FlatAssumption == DOMAIN Flat = Paths
ASSUME OpsAssumption == Ops \subseteq {"write", "delete", "restore"}
ASSUME MayTouchAssumption == MayTouch \in [Workers -> SUBSET Paths]
ASSUME BoundsAssumption ==
  {MaxAge, Cap, MaxNow, MaxCalls, MaxFaults} \subseteq Nat
ASSUME NoPathAssumption == NoPath \notin Paths

VARIABLES
  disk,      \* the files at writable paths
  archive,   \* the files in .auro_archive/, by name
  manifest,  \* rows of manifest.jsonl
  audited,   \* the names archive_pruned events give
  now,       \* the clock, in the units of the archive's timestamps
  job,       \* each worker's call in progress
  faults,    \* I/O errors so far
  calls,     \* calls unlisted up; a write's content is named by its number
  written,   \* history: versions write_file reported or may have written
  unaudited, \* history: names unlinked by a prune that an I/O error ended
  pruned,    \* history: versions pruning unlinked, with the name they had
  unlisted   \* history: names whose rows left in a manifest that was restored
             \* out of the archive, unless a file was archived under it since

fsVars == <<disk, archive, manifest, audited>>
vars == <<fsVars, now, job, faults, calls, written, unaudited, pruned, unlisted>>

Empty == 0                      \* content of a reservation, or a failed write
ManifestText == MaxCalls + 1    \* content of a manifest once it is restored
Version == 0 .. ManifestText
\* "from" is history: the path an archived file was moved from.
File == [version : Version, mtime : 0 .. MaxNow, from : Paths \cup {NoPath}]
Name == [ts : 0 .. MaxNow, flat : {Flat[p] : p \in Paths}, attempt : Nat \ {0}]
Listed == [name : Name, mtime : 0 .. MaxNow, size : {0, 1}]

\* Archive names begin with a timestamp.
ASSUME ManifestNameAssumption == ManifestName \notin Name

Step == {"idle", "reserve", "move", "unreserve", "record", "write", "list",
         "stat", "expire", "shrink", "dest", "restore"}

Job == [pc : Step, op : {"none", "write", "delete", "restore"},
        path : Paths \cup {NoPath}, name : Name \cup {NoName, ManifestName},
        version : Version, began : 0 .. MaxNow, cutoff : Int, names : SUBSET Name,
        listing : SUBSET Listed, expired : SUBSET Name, byName : BOOLEAN]

Row == [name : Name, original : Paths, deletedAt : 0 .. MaxNow]

Directory(dir, keys) == DOMAIN dir \subseteq keys
                        /\ \A k \in DOMAIN dir : dir[k] \in File

TypeOK ==
  /\ Directory(disk, Paths)
  /\ \A n \in DOMAIN archive : n \in Name /\ archive[n] \in File
  /\ manifest \subseteq Row
  /\ audited \subseteq Name
  /\ now \in 0 .. MaxNow
  /\ job \in [Workers -> Job]
  /\ faults \in 0 .. MaxFaults
  /\ calls \in 0 .. MaxCalls
  /\ written \subseteq Version
  /\ unaudited \subseteq Name
  /\ \A x \in pruned : x.version \in Version /\ x.name \in Name
  /\ unlisted \subseteq Name

-----------------------------------------------------------------------------
(* Directories: a rename or a write replaces what the name held.           *)

Put(dir, name, file) ==
  [k \in DOMAIN dir \cup {name} |-> IF k = name THEN file ELSE dir[k]]
Drop(dir, names) == [n \in DOMAIN dir \ names |-> dir[n]]

Fresh(v) == [version |-> v, mtime |-> now, from |-> NoPath]

NoJob == [pc |-> "idle", op |-> "none", path |-> NoPath, name |-> NoName,
          version |-> Empty, began |-> 0, cutoff |-> 0, names |-> {}, listing |-> {},
          expired |-> {}, byName |-> FALSE]

Init ==
  /\ disk = <<>>
  /\ archive = <<>>
  /\ manifest = {}
  /\ audited = {}
  /\ now = 0
  /\ job = [w \in Workers |-> NoJob]
  /\ faults = 0
  /\ calls = 0
  /\ written = {}
  /\ unaudited = {}
  /\ pruned = {}
  /\ unlisted = {}

At(w, pc) == job[w].pc = pc
Goto(w, pc) == job' = [job EXCEPT ![w].pc = pc]
Leave(w) == job' = [job EXCEPT ![w] = NoJob]
Fault == faults < MaxFaults /\ faults' = faults + 1

-----------------------------------------------------------------------------
(* Taking up a call: the first look at the workspace.                      *)

TakeUp(w, tool, j) ==
  /\ tool \in Ops /\ At(w, "idle") /\ calls < MaxCalls
  /\ calls' = calls + 1
  /\ job' = [job EXCEPT ![w] = [j EXCEPT !.op = tool, !.began = now]]
  /\ UNCHANGED <<fsVars, now, faults, written, unaudited, pruned, unlisted>>

\* A file of that name is in the archive directory: the manifest is one from
\* its first row on.
Present(name) ==
  \/ name \in DOMAIN archive
  \/ name = ManifestName /\ manifest # {}

\* Mutant: restore takes any original the manifest gives for the name.
BeginRestoreAny(w, name, to) ==
  /\ Present(name)
  /\ \E dest \in IF to # NoPath THEN {to}
                 ELSE {r.original : r \in {x \in manifest : x.name = name}} :
       TakeUp(w, "restore", [NoJob EXCEPT !.pc = "dest", !.path = dest,
                               !.name = name, !.byName = to = NoPath])

BeginWrite(w, p) ==
  TakeUp(w, "write",
    [NoJob EXCEPT !.pc = IF p \in DOMAIN disk THEN "reserve" ELSE "write",
                  !.path = p, !.version = calls + 1])

BeginDelete(w, p) ==
  /\ p \in DOMAIN disk
  /\ TakeUp(w, "delete", [NoJob EXCEPT !.pc = "reserve", !.path = p])

\* The distinct original paths the manifest gives for an archive name.
Originals(name) == {r.original : r \in {x \in manifest : x.name = name}}

\* Any file of the directory will do, the manifest included.  Without restore_to
\* the manifest must give exactly one original, and it has no row for itself.
BeginRestore(w, name, to) ==
  /\ Present(name)
  /\ \E dest \in IF to # NoPath THEN {to}
                 ELSE {p \in Originals(name) : Originals(name) = {p}} :
       TakeUp(w, "restore", [NoJob EXCEPT !.pc = "dest", !.path = dest,
                               !.name = name, !.byName = to = NoPath])

-----------------------------------------------------------------------------
(* _reserve_archive_name and _archive_file.                                *)

\* Mutant: the name is unlisted without checking that it is free.
FreeNameUnchecked(path) == [ts |-> now, flat |-> Flat[path], attempt |-> 1]

\* Mutant: attempts are numbered from nought.
FreeNameFromZero(path) ==
  [ts |-> now, flat |-> Flat[path],
   attempt |-> Min({i \in 0 .. Cardinality(DOMAIN archive) :
                      [ts |-> now, flat |-> Flat[path], attempt |-> i]
                        \notin DOMAIN archive})]

FreeName(path) ==
  LET name(i) == [ts |-> now, flat |-> Flat[path], attempt |-> i]
      taken == {i \in 1 .. Cardinality(DOMAIN archive) :
                  name(i) \in DOMAIN archive}
  IN  name(Min((1 .. Cardinality(DOMAIN archive) + 1) \ taken))

Reserve(w) ==
  /\ At(w, "reserve")
  /\ LET name == FreeName(job[w].path)
     IN  /\ archive' = Put(archive, name, Fresh(Empty))
         /\ job' = [job EXCEPT ![w].pc = "move", ![w].name = name]
  /\ UNCHANGED <<disk, manifest, audited, now, faults, calls, written, unaudited, pruned, unlisted>>

Move(w) ==
  /\ At(w, "move")
  /\ LET j == job[w]
     IN  /\ j.path \in DOMAIN disk
         /\ archive' = Put(archive, j.name, [disk[j.path] EXCEPT !.from = j.path])
         /\ disk' = Drop(disk, {j.path})
  /\ unlisted' = unlisted \ {job[w].name}
  /\ Goto(w, "record")
  /\ UNCHANGED <<manifest, audited, now, faults, calls, written, unaudited, pruned>>

\* Another worker took the source, or the move raises with the source in
\* place: the reservation is given up.
MoveFails(w) ==
  /\ At(w, "move")
  /\ IF job[w].path \in DOMAIN disk THEN Fault ELSE UNCHANGED faults
  /\ Goto(w, "unreserve")
  /\ UNCHANGED <<fsVars, now, calls, written, unaudited, pruned, unlisted>>

Unreserve(w) ==
  /\ At(w, "unreserve")
  /\ archive' = Drop(archive, {job[w].name})
  /\ Leave(w)
  /\ UNCHANGED <<disk, manifest, audited, now, faults, calls, written, unaudited, pruned, unlisted>>

\* Mutant: a name already in the manifest gets no second row.
RecordOnce(w) ==
  /\ At(w, "record")
  /\ job[w].name \in DOMAIN archive
  /\ manifest' = IF Originals(job[w].name) # {} THEN manifest
                 ELSE manifest \cup {[name |-> job[w].name,
                                      original |-> job[w].path,
                                      deletedAt |-> now]}
  /\ Goto(w, IF job[w].op = "write" THEN "write" ELSE "list")
  /\ UNCHANGED <<disk, archive, audited, now, faults, calls, written, unaudited, pruned, unlisted>>

Record(w) ==
  /\ At(w, "record")
  /\ job[w].name \in DOMAIN archive
  /\ manifest' = manifest \cup {[name |-> job[w].name, original |-> job[w].path,
                                 deletedAt |-> now]}
  /\ Goto(w, IF job[w].op = "write" THEN "write" ELSE "list")
  /\ UNCHANGED <<disk, archive, audited, now, faults, calls, written, unaudited, pruned, unlisted>>

\* Mutant: the clean-up of a failed move also covers a failed record.
RecordFailsCleans(w) ==
  /\ At(w, "record")
  /\ IF job[w].name \in DOMAIN archive THEN Fault ELSE UNCHANGED faults
  /\ archive' = Drop(archive, {job[w].name})
  /\ Leave(w)
  /\ UNCHANGED <<disk, manifest, audited, now, calls, written, unaudited, pruned, unlisted>>

\* The archived file is gone again, or the manifest cannot be written: the
\* tool reports an error, with the file already moved.
RecordFails(w) ==
  /\ At(w, "record")
  /\ IF job[w].name \in DOMAIN archive THEN Fault ELSE UNCHANGED faults
  /\ Leave(w)
  /\ UNCHANGED <<fsVars, now, calls, written, unaudited, pruned, unlisted>>

-----------------------------------------------------------------------------
(* The rest of write_file and of restore_file.                             *)

\* Mutant: only deletes prune the archive.
WriteTextUnpruned(w) ==
  /\ At(w, "write")
  /\ disk' = Put(disk, job[w].path, Fresh(job[w].version))
  /\ written' = written \cup {job[w].version}
  /\ Leave(w)
  /\ UNCHANGED <<archive, manifest, audited, now, faults, calls, unaudited, pruned, unlisted>>

WriteText(w) ==
  /\ At(w, "write")
  /\ disk' = Put(disk, job[w].path, Fresh(job[w].version))
  /\ written' = written \cup {job[w].version}
  /\ IF job[w].name = NoName THEN Leave(w) ELSE Goto(w, "list")
  /\ UNCHANGED <<archive, manifest, audited, now, faults, calls, unaudited, pruned, unlisted>>

\* The write raises, before or after the file was created.
WriteFails(w) ==
  /\ At(w, "write")
  /\ Fault
  /\ \/ UNCHANGED disk
     \/ disk' = Put(disk, job[w].path, Fresh(Empty))
  /\ Leave(w)
  /\ UNCHANGED <<archive, manifest, audited, now, calls, written, unaudited, pruned, unlisted>>

\* Mutant: the destination is not looked at.
CheckDestIgnored(w) ==
  /\ At(w, "dest")
  /\ Goto(w, "restore")
  /\ UNCHANGED <<fsVars, now, faults, calls, written, unaudited, pruned, unlisted>>

CheckDest(w) ==
  /\ At(w, "dest")
  /\ IF job[w].path \in DOMAIN disk THEN Leave(w) ELSE Goto(w, "restore")
  /\ UNCHANGED <<fsVars, now, faults, calls, written, unaudited, pruned, unlisted>>

RestoreMove(w) ==
  /\ At(w, "restore")
  /\ job[w].name \in DOMAIN archive
  /\ disk' = Put(disk, job[w].path,
                 [archive[job[w].name] EXCEPT !.from = NoPath])
  /\ archive' = Drop(archive, {job[w].name})
  /\ Leave(w)
  /\ UNCHANGED <<manifest, audited, now, faults, calls, written, unaudited, pruned, unlisted>>

\* The manifest moves like any other file, last written with its newest row: the
\* archived files lose their rows, and the next one starts a manifest anew.
RestoreManifest(w) ==
  /\ At(w, "restore")
  /\ job[w].name = ManifestName
  /\ \E newest \in manifest :
       /\ \A row \in manifest : row.deletedAt <= newest.deletedAt
       /\ disk' = Put(disk, job[w].path, [version |-> ManifestText,
                        mtime |-> newest.deletedAt, from |-> NoPath])
  /\ manifest' = {}
  /\ unlisted' = unlisted \cup {row.name : row \in manifest}
  /\ Leave(w)
  /\ UNCHANGED <<archive, audited, now, faults, calls, written, unaudited, pruned>>

\* The file is gone by now, or the move raises.
RestoreFails(w) ==
  /\ At(w, "restore")
  /\ IF Present(job[w].name) THEN Fault ELSE UNCHANGED faults
  /\ Leave(w)
  /\ UNCHANGED <<fsVars, now, calls, written, unaudited, pruned, unlisted>>

-----------------------------------------------------------------------------
(* _prune_archive: list, stat, unlink the stale, unlink the oldest over the*)
(* cap, write one event.                                                   *)

List(w) ==
  /\ At(w, "list")
  /\ job' = [job EXCEPT ![w].pc = "stat", ![w].names = DOMAIN archive,
                        ![w].cutoff = now - MaxAge]
  /\ UNCHANGED <<fsVars, now, faults, calls, written, unaudited, pruned, unlisted>>

Stat(w) ==
  /\ At(w, "stat")
  /\ job[w].names \subseteq DOMAIN archive
  /\ job' = [job EXCEPT ![w].pc = "expire", ![w].names = {}, ![w].listing =
       {[name |-> n, mtime |-> archive[n].mtime,
         size |-> IF archive[n].version = Empty THEN 0 ELSE 1] :
          n \in job[w].names}]
  /\ UNCHANGED <<fsVars, now, faults, calls, written, unaudited, pruned, unlisted>>

\* A listed file is gone before its stat(), or stat() raises: the tool
\* reports an error, whatever it had already done.
StatFails(w) ==
  /\ At(w, "stat")
  /\ IF job[w].names \subseteq DOMAIN archive THEN Fault ELSE UNCHANGED faults
  /\ Leave(w)
  /\ UNCHANGED <<fsVars, now, calls, written, unaudited, pruned, unlisted>>

Stale(w) == {x.name : x \in {y \in job[w].listing : y.mtime < job[w].cutoff}}

Unlink(names) ==
  /\ archive' = Drop(archive, names)
  /\ pruned' = pruned \cup {[version |-> archive[n].version, name |-> n] :
                              n \in names \cap DOMAIN archive}

Expire(w) ==
  /\ At(w, "expire")
  /\ Unlink(Stale(w))
  /\ job' = [job EXCEPT ![w].pc = "shrink", ![w].expired = Stale(w)]
  /\ UNCHANGED <<disk, manifest, audited, now, faults, calls, written, unaudited, unlisted>>

Size(listing) == Cardinality({x \in listing : x.size = 1})

\* Removing files oldest first until the rest fits: `over` is what went, and
\* `last` the one whose removal made it fit.
OverCap(listing) ==
  IF Size(listing) <= Cap THEN {{}}
  ELSE {over \in SUBSET listing :
          /\ Size(listing \ over) <= Cap
          /\ \A x \in over, y \in listing \ over : x.mtime <= y.mtime
          /\ \E last \in over :
               /\ \A x \in over : x.mtime <= last.mtime
               /\ Size((listing \ over) \cup {last}) > Cap}

\* Mutant: the event gives only what went over the size cap.
ShrinkOverOnly(w) ==
  /\ At(w, "shrink")
  /\ \E over \in OverCap({x \in job[w].listing : x.name \in DOMAIN archive}) :
       LET names == {x.name : x \in over}
       IN  /\ Unlink(names)
           /\ audited' = audited \cup names
  /\ Leave(w)
  /\ UNCHANGED <<disk, manifest, now, faults, calls, written, unaudited, unlisted>>

Shrink(w) ==
  /\ At(w, "shrink")
  /\ \E over \in OverCap({x \in job[w].listing : x.name \in DOMAIN archive}) :
       LET names == {x.name : x \in over}
       IN  /\ Unlink(names)
           /\ audited' = audited \cup job[w].expired \cup names
  /\ Leave(w)
  /\ UNCHANGED <<disk, manifest, now, faults, calls, written, unaudited, unlisted>>

\* An unlink raises half-way: the files before it are gone, and the event
\* that would give their names is never written.
PruneFails(w) ==
  /\ Fault
  /\ \/ /\ At(w, "expire")
        /\ \E gone \in (SUBSET Stale(w)) \ {Stale(w)} :
             Unlink(gone) /\ unaudited' = unaudited \cup gone
     \/ /\ At(w, "shrink")
        /\ \E over \in OverCap({x \in job[w].listing : x.name \in DOMAIN archive}) :
           \E oldest \in (SUBSET over) \ {over} :
             /\ \A x \in oldest, y \in over \ oldest : x.mtime <= y.mtime
             /\ Unlink({x.name : x \in oldest})
             /\ unaudited' = unaudited \cup job[w].expired \cup {x.name : x \in oldest}
  /\ Leave(w)
  /\ UNCHANGED <<disk, manifest, audited, now, calls, written, unlisted>>

-----------------------------------------------------------------------------

Begin(w) ==
  \/ \E p \in MayTouch[w] : BeginWrite(w, p) \/ BeginDelete(w, p)
  \/ \E n \in DOMAIN archive \cup {ManifestName}, to \in MayTouch[w] \cup {NoPath} :
       BeginRestore(w, n, to)

Continue(w) ==
  \/ Reserve(w) \/ Move(w) \/ MoveFails(w) \/ Unreserve(w)
  \/ Record(w) \/ RecordFails(w)
  \/ WriteText(w) \/ WriteFails(w)
  \/ CheckDest(w) \/ RestoreMove(w) \/ RestoreManifest(w) \/ RestoreFails(w)
  \/ List(w) \/ Stat(w) \/ StatFails(w)
  \/ Expire(w) \/ Shrink(w) \/ PruneFails(w)

\* No call outlasts the retention period.
Tick ==
  /\ now < MaxNow
  /\ \A w \in Workers : ~At(w, "idle") => now - job[w].began < MaxAge
  /\ now' = now + 1
  /\ UNCHANGED <<fsVars, job, faults, calls, written, unaudited, pruned, unlisted>>

Rest == (\A w \in Workers : At(w, "idle")) /\ UNCHANGED vars

Next == (\E w \in Workers : Begin(w) \/ Continue(w)) \/ Tick \/ Rest

Spec == Init /\ [][Next]_vars

-----------------------------------------------------------------------------
(* What the archive promises.                                              *)

Versions(dir) == {dir[k].version : k \in DOMAIN dir}

\* Every content once written is at a path, in the archive, or was pruned
\* under a name an archive_pruned event gives, or will when the prune in
\* progress gets to it ("Silence still means nothing was destroyed").  The one
\* silence that means otherwise is that of a prune an I/O error cut short.
NothingLost ==
  \A v \in written :
    \/ v \in Versions(disk) \cup Versions(archive)
    \/ \E x \in pruned :
         /\ x.version = v
         /\ x.name \in audited \cup unaudited
                          \cup UNION {job[w].expired : w \in Workers}

\* While no I/O error strikes, a restore by name alone puts a content back
\* where it was unlisted from, also when names are reused within a second or
\* shared by flattened paths: a name that cannot be told apart is refused.  (A
\* lost manifest append leaves a reused name with only its older origin.)
RestoreGoesHome ==
  [][\A w \in Workers :
       RestoreMove(w) /\ job[w].byName /\ faults = 0 =>
         job[w].path = archive[job[w].name].from]_vars

\* While no I/O error strikes, every archived file can be found through the
\* manifest, once the call that archived it is past recording it, unless
\* restore_file was given the manifest itself to restore: from then on only what
\* is archived later can.
ManifestCoversArchive ==
  faults = 0 => \A n \in DOMAIN archive :
    \/ archive[n].version = Empty
    \/ archive[n].from \in Originals(n)
    \/ \E w \in Workers : At(w, "record") /\ job[w].name = n
    \/ n \in unlisted

\* Both caps govern the archive whenever a call that put something into it is
\* over without an I/O error, an overwrite as much as a delete: what stays
\* fits, and what was stale when the prune began is gone.  (A call that gives
\* its reservation up put nothing there.)
Archived(w) ==
  job[w].op # "restore" /\ job[w].name # NoName /\ ~At(w, "unreserve")

PruneEnforcesCaps ==
  [][\A w \in Workers : Archived(w) /\ job'[w].pc = "idle" /\ faults' = faults =>
       /\ Cardinality({n \in DOMAIN archive' : archive'[n].version # Empty}) <= Cap
       /\ \A n \in DOMAIN archive' : archive'[n].mtime >= job[w].cutoff]_vars

\* The comment in _reserve_archive_name: the move can only land on the
\* worker's own placeholder, so it destroys no archived file.
MoveLandsOnPlaceholder ==
  [][\A w \in Workers : Move(w) =>
       /\ job[w].name \in DOMAIN archive
       /\ archive[job[w].name].version = Empty]_vars

\* write_file's description says existing files are backed up before
\* overwrite, docs/API.md that restore_file refuses if the destination already
\* exists: with one worker no file is replaced that was not moved away first.
\* (With two the look and the act are apart, and another's file is.)
NothingReplaced ==
  [][\A w \in Workers :
       WriteText(w) \/ RestoreMove(w) \/ RestoreManifest(w) =>
         job[w].path \notin DOMAIN disk]_vars

\* delete_file's docstring and docs/API.md: archived files are pruned after
\* 30 days.  A file unlinked for age had been archived that long.
ExpiredWereKept ==
  [][\A w \in Workers : Expire(w) =>
       \A r \in manifest :
         r.name \in Stale(w) \cap DOMAIN archive => now - r.deletedAt > MaxAge]_vars
=============================================================================
