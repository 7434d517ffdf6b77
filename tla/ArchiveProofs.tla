---------------------------- MODULE ArchiveProofs ----------------------------
(***************************************************************************)
(* Theorems about Archive, for any workers, paths, archive names and caps: *)
(* types and the manifest for all of them; what moves, writes, restores    *)
(* and prunes promise for one worker, and for workers that keep apart.     *)
(***************************************************************************)
EXTENDS Archive, FiniteSetTheorems, WellFoundedInduction, TLAPS

-----------------------------------------------------------------------------
(* Directories.                                                            *)

LEMMA PutFacts ==
  ASSUME NEW dir, NEW name, NEW file
  PROVE  /\ DOMAIN Put(dir, name, file) = {name} \cup DOMAIN dir
         /\ Put(dir, name, file)[name] = file
         /\ \A k \in DOMAIN dir \ {name} : Put(dir, name, file)[k] = dir[k]
  BY DEF Put

LEMMA DropFacts ==
  ASSUME NEW dir, NEW names
  PROVE  /\ DOMAIN Drop(dir, names) = DOMAIN dir \ names
         /\ \A k \in DOMAIN dir \ names : Drop(dir, names)[k] = dir[k]
  BY DEF Drop

-----------------------------------------------------------------------------
(* The least number of a nonempty set of naturals is in the set: there is  *)
(* always a free archive name.                                             *)

LEMMA MinIsLeast ==
  ASSUME NEW S, S \subseteq Nat, S # {}
  PROVE  Min(S) \in S /\ \A y \in S : Min(S) <= y
  <1> DEFINE less == {pair \in Nat \X Nat : pair[1] < pair[2]}
  <1>1. OpToRel(<, Nat) = less
    BY Zenon DEF OpToRel
  <1>2. IsWellFoundedOn(less, Nat)
    BY <1>1, NatLessThanWellFounded, Zenon
  <1>3. PICK x \in S : \A y \in S : ~(<<y, x>> \in less)
    <2> HIDE DEF less
    <2> QED
      BY <1>2, WFMin
  <1>4. ASSUME NEW y \in S PROVE x <= y
    <2>1. ~(<<y, x>> \in less)
      BY <1>3
    <2>2. <<y, x>>[1] = y /\ <<y, x>>[2] = x /\ <<y, x>> \in Nat \X Nat
      OBVIOUS
    <2>3. ~(y < x)
      BY <2>1, <2>2, Zenon
    <2> QED
      BY <2>3
  <1> QED
    BY <1>4 DEF Min

LEMMA FreeNameTyped ==
  ASSUME now \in 0 .. MaxNow, IsFiniteSet(DOMAIN archive), NEW path \in Paths
  PROVE  FreeName(path) \in Name
  <1> DEFINE named(i) == [ts |-> now, flat |-> Flat[path], attempt |-> i]
             size == Cardinality(DOMAIN archive)
             taken == {i \in 1 .. size : named(i) \in DOMAIN archive}
             free == (1 .. size + 1) \ taken
  <1>1. size \in Nat
    BY FS_CardinalityType
  <1>2. size + 1 \in free /\ free \subseteq Nat
    BY <1>1
  <1>3. Min(free) \in free
    BY <1>2, MinIsLeast
  <1>4. Min(free) \in Nat \ {0}
    BY <1>1, <1>3
  <1>5. FreeName(path) = named(Min(free))
    BY DEF FreeName
  <1>6. named(Min(free)) \in Name
    BY <1>4, FlatAssumption DEF Name
  <1> QED
    BY <1>5, <1>6

-----------------------------------------------------------------------------
(* Types.  A call in progress has a path, and a name from its reservation  *)
(* on; the archive is finite, so that the search for a free name ends.     *)

Named(j) ==
  /\ j.pc # "idle" => j.path \in Paths
  /\ j.pc \in {"move", "unreserve", "record"} => j.name \in Name

GoodJob == {j \in Job : Named(j)}

Typed ==
  /\ Directory(disk, Paths)
  /\ Directory(archive, Name)
  /\ IsFiniteSet(DOMAIN archive)
  /\ manifest \subseteq Row
  /\ audited \subseteq Name
  /\ now \in 0 .. MaxNow
  /\ job \in [Workers -> GoodJob]
  /\ faults \in 0 .. MaxFaults
  /\ calls \in 0 .. MaxCalls
  /\ written \subseteq Version
  /\ unaudited \subseteq Name
  /\ \A x \in pruned : x.version \in Version /\ x.name \in Name
  /\ unlisted \subseteq Name

LEMMA TypedImpliesTypeOK == Typed => TypeOK
  BY DEF Typed, TypeOK, Directory, GoodJob

LEMMA BoundsNatural ==
  MaxAge \in Nat /\ Cap \in Nat /\ MaxNow \in Nat /\ MaxCalls \in Nat /\ MaxFaults \in Nat
  BY BoundsAssumption

LEMMA NoJobTyped == NoJob \in GoodJob
  BY BoundsNatural, NoPathAssumption
     DEF NoJob, GoodJob, Job, Step, Named, Version, ManifestText, Empty

LEMMA InitTyped == Init => Typed
  <1> SUFFICES ASSUME Init PROVE Typed
    OBVIOUS
  <1>1. DOMAIN disk = {} /\ DOMAIN archive = {}
    BY DEF Init
  <1>2. IsFiniteSet(DOMAIN archive)
    BY <1>1, FS_EmptySet
  <1>3. job \in [Workers -> GoodJob]
    BY NoJobTyped DEF Init
  <1> QED
    BY <1>1, <1>2, <1>3, BoundsNatural DEF Init, Directory, Typed

LEMMA PutTyped ==
  ASSUME NEW dir, NEW keys, Directory(dir, keys), NEW name \in keys, NEW file \in File
  PROVE  Directory(Put(dir, name, file), keys)
  BY DEF Put, Directory

LEMMA DropTyped ==
  ASSUME NEW dir, NEW keys, Directory(dir, keys), NEW names
  PROVE  Directory(Drop(dir, names), keys)
  BY DEF Drop, Directory

LEMMA ArchiveStaysFinite ==
  ASSUME IsFiniteSet(DOMAIN archive), NEW name, NEW file, NEW names
  PROVE  /\ IsFiniteSet(DOMAIN Put(archive, name, file))
         /\ IsFiniteSet(DOMAIN Drop(archive, names))
  <1>1. IsFiniteSet(DOMAIN archive \cup {name})
    BY FS_AddElement
  <1>2. IsFiniteSet(DOMAIN archive \ names)
    BY FS_Subset, DOMAIN archive \ names \subseteq DOMAIN archive
  <1>3. DOMAIN Put(archive, name, file) = DOMAIN archive \cup {name}
    BY DEF Put
  <1> QED
    BY <1>1, <1>2, <1>3 DEF Drop

LEMMA LeaveTyped ==
  ASSUME Typed, NEW w \in Workers, Leave(w)
  PROVE  job' \in [Workers -> GoodJob]
  BY NoJobTyped DEF Leave, Typed

\* Moving on keeps the path and the name the call already has.
LEMMA GotoTyped ==
  ASSUME Typed, NEW w \in Workers, job[w].pc # "idle", NEW to \in Step, Goto(w, to),
         to \in {"move", "unreserve", "record"} => job[w].name \in Name
  PROVE  job' \in [Workers -> GoodJob]
  <1>1. job[w] \in GoodJob
    BY DEF Typed
  <1>2. [job[w] EXCEPT !.pc = to] \in GoodJob
    BY <1>1 DEF GoodJob, Job, Named
  <1> QED
    BY <1>2 DEF Goto, Typed

LEMMA TakeUpTyped ==
  ASSUME Typed, NEW w \in Workers, NEW tool, NEW j \in GoodJob, TakeUp(w, tool, j)
  PROVE  Typed'
  <1>1. tool \in {"write", "delete", "restore"} /\ now \in 0 .. MaxNow
    BY OpsAssumption DEF TakeUp, Typed
  <1>2. [j EXCEPT !.op = tool, !.began = now] \in GoodJob
    BY <1>1 DEF GoodJob, Job, Named
  <1>3. job' \in [Workers -> GoodJob]
    BY <1>2 DEF TakeUp, Typed
  <1>4. calls' \in 0 .. MaxCalls
    BY BoundsNatural DEF TakeUp, Typed
  <1> QED
    BY <1>3, <1>4 DEF TakeUp, fsVars, Typed, Directory

LEMMA BeginTyped ==
  ASSUME Typed, NEW w \in Workers, Begin(w)
  PROVE  Typed'
  <1> USE MayTouchAssumption
  <1>1. ASSUME NEW p \in MayTouch[w], BeginWrite(w, p) PROVE Typed'
    <2> DEFINE j == [NoJob EXCEPT !.pc = IF p \in DOMAIN disk THEN "reserve" ELSE "write",
                                  !.path = p, !.version = calls + 1]
    <2>1. calls + 1 \in Version
      BY <1>1, BoundsNatural DEF BeginWrite, TakeUp, Typed, Version, ManifestText
    <2>2. ASSUME NEW first \in {"reserve", "write"}
          PROVE  [NoJob EXCEPT !.pc = first, !.path = p, !.version = calls + 1] \in GoodJob
      BY <2>1, NoJobTyped DEF GoodJob, Job, Step, Named
    <2>3. j \in GoodJob
      BY <2>2
    <2> QED
      BY <1>1, <2>3, TakeUpTyped DEF BeginWrite
  <1>2. ASSUME NEW p \in MayTouch[w], BeginDelete(w, p) PROVE Typed'
    <2> DEFINE j == [NoJob EXCEPT !.pc = "reserve", !.path = p]
    <2>1. j \in GoodJob
      BY NoJobTyped DEF GoodJob, Job, Step, Named
    <2> QED
      BY <1>2, <2>1, TakeUpTyped DEF BeginDelete
  <1>3. ASSUME NEW n \in DOMAIN archive \cup {ManifestName},
               NEW to \in MayTouch[w] \cup {NoPath},
               BeginRestore(w, n, to)
        PROVE  Typed'
    <2>1. PICK dest \in IF to # NoPath THEN {to}
                        ELSE {p \in Originals(n) : Originals(n) = {p}} :
               TakeUp(w, "restore", [NoJob EXCEPT !.pc = "dest", !.path = dest,
                                       !.name = n, !.byName = to = NoPath])
      BY <1>3, Zenon DEF BeginRestore
    <2>2. dest \in Paths
      BY DEF Originals, Row, Typed
    <2>3. n \in Name \cup {ManifestName}
      BY DEF Typed, Directory
    <2> DEFINE j == [NoJob EXCEPT !.pc = "dest", !.path = dest,
                                  !.name = n, !.byName = to = NoPath]
    <2>4. j \in GoodJob
      <3> DEFINE b == to = NoPath
      <3>1. b \in BOOLEAN
        OBVIOUS
      <3> HIDE DEF b
      <3>2. [NoJob EXCEPT !.pc = "dest", !.path = dest, !.name = n, !.byName = b]
              \in GoodJob
        BY <2>2, <2>3, <3>1, NoJobTyped DEF GoodJob, Job, Step, Named
      <3> QED
        BY <3>2 DEF b
    <2> QED
      BY <2>1, <2>4, TakeUpTyped
  <1> QED
    BY <1>1, <1>2, <1>3 DEF Begin

\* Steps that only move a call on, or end it.
LEMMA QuietTyped ==
  ASSUME Typed, NEW w \in Workers,
         MoveFails(w) \/ CheckDest(w) \/ RestoreFails(w) \/ StatFails(w)
  PROVE  Typed'
  <1>1. job' \in [Workers -> GoodJob]
    <2>1. CASE MoveFails(w) \/ CheckDest(w)
      <3>1. job[w].pc # "idle" /\ (MoveFails(w) => job[w].name \in Name)
        BY <2>1 DEF MoveFails, CheckDest, At, Typed, GoodJob, Named
      <3>2. \/ Leave(w) \/ Goto(w, "restore")
            \/ MoveFails(w) /\ Goto(w, "unreserve")
        BY <2>1 DEF MoveFails, CheckDest
      <3> QED
        BY <3>1, <3>2, LeaveTyped, GotoTyped DEF Step
    <2> QED
      BY <2>1, LeaveTyped DEF RestoreFails, StatFails
  <1>2. faults' \in 0 .. MaxFaults
    BY BoundsNatural DEF MoveFails, CheckDest, RestoreFails, StatFails, Fault, Typed
  <1> QED
    BY <1>1, <1>2 DEF MoveFails, CheckDest, RestoreFails, StatFails, Typed, fsVars, Directory

LEMMA FreshTyped ==
  ASSUME Typed, NEW v \in Version
  PROVE  Fresh(v) \in File
  BY DEF Fresh, File, Typed

LEMMA ReserveTyped ==
  ASSUME Typed, NEW w \in Workers, Reserve(w)
  PROVE  Typed'
  <1> DEFINE name == FreeName(job[w].path)
  <1>1. job[w] \in GoodJob /\ job[w].path \in Paths
    BY DEF Reserve, At, Typed, GoodJob, Named
  <1>2. name \in Name
    BY <1>1, FreeNameTyped DEF Typed
  <1>3. [job[w] EXCEPT !.pc = "move", !.name = name] \in GoodJob
    BY <1>1, <1>2 DEF GoodJob, Job, Step, Named
  <1>4. archive' = Put(archive, name, Fresh(Empty))
        /\ job' = [job EXCEPT ![w] = [job[w] EXCEPT !.pc = "move", !.name = name]]
    BY DEF Reserve, Typed
  <1>5. Directory(archive', Name) /\ IsFiniteSet(DOMAIN archive')
    <2>1. Fresh(Empty) \in File
      BY FreshTyped, BoundsNatural DEF Version, ManifestText, Empty
    <2>2. Directory(archive', Name)
      BY <1>2, <1>4, <2>1, PutTyped DEF Typed
    <2> QED
      BY <1>4, <2>2, ArchiveStaysFinite DEF Typed
  <1>6. job' \in [Workers -> GoodJob]
    BY <1>3, <1>4 DEF Typed
  <1> QED
    BY <1>5, <1>6 DEF Reserve, Typed, Directory

LEMMA MoveTyped ==
  ASSUME Typed, NEW w \in Workers, Move(w)
  PROVE  Typed'
  <1>1. /\ job[w].pc # "idle" /\ job[w].name \in Name /\ job[w].path \in Paths
        /\ job[w].path \in DOMAIN disk
    BY DEF Move, At, Typed, GoodJob, Named
  <1>2. [disk[job[w].path] EXCEPT !.from = job[w].path] \in File
    BY <1>1 DEF Typed, Directory, File
  <1>3. job' \in [Workers -> GoodJob]
    BY <1>1, GotoTyped DEF Move, Step
  <1>4. Directory(archive', Name) /\ IsFiniteSet(DOMAIN archive')
    BY <1>1, <1>2, PutTyped, ArchiveStaysFinite DEF Move, Typed
  <1>5. Directory(disk', Paths)
    BY DropTyped DEF Move, Typed
  <1> QED
    BY <1>3, <1>4, <1>5 DEF Move, Typed

LEMMA UnreserveTyped ==
  ASSUME Typed, NEW w \in Workers, Unreserve(w)
  PROVE  Typed'
  <1>1. job' \in [Workers -> GoodJob]
    BY LeaveTyped DEF Unreserve
  <1>2. Directory(archive', Name) /\ IsFiniteSet(DOMAIN archive')
    BY DropTyped, ArchiveStaysFinite DEF Unreserve, Typed
  <1> QED
    BY <1>1, <1>2 DEF Unreserve, Typed, Directory

LEMMA RecordTyped ==
  ASSUME Typed, NEW w \in Workers, Record(w) \/ RecordFails(w)
  PROVE  Typed'
  <1>1. job[w] \in GoodJob /\ job[w].pc = "record"
    BY DEF Record, RecordFails, At, Typed
  <1>2. job[w].name \in Name /\ job[w].path \in Paths
    BY <1>1 DEF GoodJob, Named
  <1>3. CASE Record(w)
    <2>1. job' \in [Workers -> GoodJob]
      BY <1>1, <1>3, GotoTyped DEF Record, Step
    <2>2. manifest' \subseteq Row
      BY <1>2, <1>3 DEF Record, Row, Typed
    <2> QED
      BY <1>3, <2>1, <2>2 DEF Record, Typed, Directory
  <1>4. CASE RecordFails(w)
    <2>1. job' \in [Workers -> GoodJob]
      BY <1>4, LeaveTyped DEF RecordFails
    <2>2. faults' \in 0 .. MaxFaults
      BY <1>4, BoundsNatural DEF RecordFails, Fault, Typed
    <2> QED
      BY <1>4, <2>1, <2>2 DEF RecordFails, Typed, Directory, fsVars
  <1> QED
    BY <1>3, <1>4

LEMMA WriteTyped ==
  ASSUME Typed, NEW w \in Workers, WriteText(w) \/ WriteFails(w)
  PROVE  Typed'
  <1>1. job[w] \in GoodJob /\ job[w].pc = "write"
    BY DEF WriteText, WriteFails, At, Typed
  <1>2. job[w].path \in Paths /\ job[w].version \in Version /\ Empty \in Version
    BY <1>1, BoundsNatural DEF GoodJob, Named, Job, Version, ManifestText, Empty
  <1>3. Fresh(job[w].version) \in File /\ Fresh(Empty) \in File
    BY <1>2, FreshTyped
  <1>4. Directory(disk', Paths)
    BY <1>2, <1>3, PutTyped DEF WriteText, WriteFails, Typed
  <1>5. job' \in [Workers -> GoodJob]
    <2>1. Leave(w) \/ Goto(w, "list")
      BY DEF WriteText, WriteFails
    <2> QED
      BY <1>1, <2>1, LeaveTyped, GotoTyped DEF Step
  <1>6. faults' \in 0 .. MaxFaults /\ written' \subseteq Version
    BY <1>2, BoundsNatural DEF WriteText, WriteFails, Fault, Typed
  <1> QED
    BY <1>4, <1>5, <1>6 DEF WriteText, WriteFails, Typed, Directory

LEMMA RestoreTyped ==
  ASSUME Typed, NEW w \in Workers, RestoreMove(w)
  PROVE  Typed'
  <1>1. job[w].path \in Paths /\ job[w].name \in DOMAIN archive
    BY DEF RestoreMove, At, Typed, GoodJob, Named
  <1>2. [archive[job[w].name] EXCEPT !.from = NoPath] \in File
    BY <1>1 DEF Typed, Directory, File
  <1>3. Directory(disk', Paths)
    BY <1>1, <1>2, PutTyped DEF RestoreMove, Typed
  <1>4. Directory(archive', Name) /\ IsFiniteSet(DOMAIN archive')
    BY DropTyped, ArchiveStaysFinite DEF RestoreMove, Typed
  <1>5. job' \in [Workers -> GoodJob]
    BY LeaveTyped DEF RestoreMove
  <1> QED
    BY <1>3, <1>4, <1>5 DEF RestoreMove, Typed

LEMMA RestoreManifestTyped ==
  ASSUME Typed, NEW w \in Workers, RestoreManifest(w)
  PROVE  Typed'
  <1>1. PICK newest \in manifest :
          disk' = Put(disk, job[w].path, [version |-> ManifestText,
                        mtime |-> newest.deletedAt, from |-> NoPath])
    BY DEF RestoreManifest
  <1>2. [version |-> ManifestText, mtime |-> newest.deletedAt, from |-> NoPath] \in File
    BY BoundsNatural DEF Typed, Row, File, Version, ManifestText
  <1>3. job[w].path \in Paths
    BY DEF RestoreManifest, At, Typed, GoodJob, Named
  <1>4. Directory(disk', Paths)
    BY <1>1, <1>2, <1>3, PutTyped DEF Typed
  <1>5. unlisted' \subseteq Name
    BY DEF RestoreManifest, Typed, Row
  <1>6. job' \in [Workers -> GoodJob]
    BY LeaveTyped DEF RestoreManifest
  <1> QED
    BY <1>4, <1>5, <1>6 DEF RestoreManifest, Typed, Directory

LEMMA ListTyped ==
  ASSUME Typed, NEW w \in Workers, List(w) \/ Stat(w)
  PROVE  Typed'
  <1>1. job[w] \in GoodJob /\ job[w].pc # "idle"
    BY DEF List, Stat, At, Typed
  <1>2. now - MaxAge \in Int /\ DOMAIN archive \subseteq Name
    BY BoundsNatural DEF Typed, Directory
  <1>3. CASE List(w)
    <2>1. [job[w] EXCEPT !.pc = "stat", !.names = DOMAIN archive,
                         !.cutoff = now - MaxAge] \in GoodJob
      BY <1>1, <1>2 DEF GoodJob, Job, Step, Named
    <2>2. job' \in [Workers -> GoodJob]
      BY <1>3, <2>1 DEF List, Typed
    <2> QED
      BY <1>3, <2>2 DEF List, Typed, Directory, fsVars
  <1>4. CASE Stat(w)
    <2> DEFINE seen == {[name |-> n, mtime |-> archive[n].mtime,
                         size |-> IF archive[n].version = Empty THEN 0 ELSE 1] :
                          n \in job[w].names}
    <2>1. seen \subseteq Listed
      BY <1>2, <1>4 DEF Stat, Listed, Typed, Directory, File
    <2> HIDE DEF seen
    <2>2. [job[w] EXCEPT !.pc = "expire", !.names = {}, !.listing = seen] \in GoodJob
      BY <1>1, <2>1 DEF GoodJob, Job, Step, Named
    <2>3. job' = [job EXCEPT ![w] =
                    [job[w] EXCEPT !.pc = "expire", !.names = {}, !.listing = seen]]
      BY <1>4 DEF Stat, Typed, seen
    <2>4. job' \in [Workers -> GoodJob]
      BY <2>2, <2>3 DEF Typed
    <2> QED
      BY <1>4, <2>4 DEF Stat, Typed, Directory, fsVars
  <1> QED
    BY <1>3, <1>4

LEMMA UnlinkTyped ==
  ASSUME Typed, NEW names, Unlink(names)
  PROVE  /\ Directory(archive', Name) /\ IsFiniteSet(DOMAIN archive')
         /\ \A x \in pruned' : x.version \in Version /\ x.name \in Name
  <1>1. Directory(archive', Name) /\ IsFiniteSet(DOMAIN archive')
    BY DropTyped, ArchiveStaysFinite DEF Unlink, Typed
  <1>2. \A n \in names \cap DOMAIN archive : archive[n].version \in Version /\ n \in Name
    BY DEF Typed, Directory, File
  <1>3. \A x \in pruned' : x.version \in Version /\ x.name \in Name
    BY <1>2 DEF Unlink, Typed
  <1> QED
    BY <1>1, <1>3

LEMMA PruneTyped ==
  ASSUME Typed, NEW w \in Workers, Expire(w) \/ Shrink(w) \/ PruneFails(w)
  PROVE  Typed'
  <1>1. job[w] \in GoodJob /\ job[w].pc # "idle"
    BY DEF Expire, Shrink, PruneFails, At, Typed
  <1>2. \A x \in job[w].listing : x.name \in Name
    BY <1>1 DEF GoodJob, Job, Listed
  <1>3. CASE Expire(w)
    <2>1. Stale(w) \subseteq Name
      BY <1>2 DEF Stale
    <2>2. [job[w] EXCEPT !.pc = "shrink", !.expired = Stale(w)] \in GoodJob
      BY <1>1, <2>1 DEF GoodJob, Job, Step, Named
    <2>3. job' \in [Workers -> GoodJob]
      BY <1>3, <2>2 DEF Expire, Typed
    <2>4. Unlink(Stale(w))
      BY <1>3 DEF Expire
    <2> QED
      BY <1>3, <2>3, <2>4, UnlinkTyped DEF Expire, Typed, Directory
  <1>4. CASE Shrink(w)
    <2>1. PICK over \in OverCap({x \in job[w].listing : x.name \in DOMAIN archive}) :
            /\ Unlink({x.name : x \in over})
            /\ audited' = audited \cup job[w].expired \cup {x.name : x \in over}
      BY <1>4 DEF Shrink
    <2>2. \A x \in over : x.name \in Name
      BY <1>2 DEF OverCap
    <2>3. audited' \subseteq Name
      BY <1>1, <2>1, <2>2 DEF Typed, GoodJob, Job
    <2>4. job' \in [Workers -> GoodJob]
      BY <1>4, LeaveTyped DEF Shrink
    <2>5. /\ Directory(archive', Name) /\ IsFiniteSet(DOMAIN archive')
          /\ \A x \in pruned' : x.version \in Version /\ x.name \in Name
      BY <2>1, UnlinkTyped
    <2> QED
      BY <1>4, <2>3, <2>4, <2>5 DEF Shrink, Typed, Directory
  <1>5. CASE PruneFails(w)
    <2>1. faults' \in 0 .. MaxFaults
      BY <1>5, BoundsNatural DEF PruneFails, Fault, Typed
    <2>2. job' \in [Workers -> GoodJob]
      BY <1>5, LeaveTyped DEF PruneFails
    <2>3. PICK gone : Unlink(gone) /\ unaudited' \subseteq Name
      <3>1. CASE At(w, "expire")
        <4>1. PICK gone \in SUBSET Stale(w) : Unlink(gone) /\ unaudited' = unaudited \cup gone
          BY <1>5, <3>1 DEF PruneFails, At
        <4>2. Stale(w) \subseteq Name
          BY <1>2 DEF Stale
        <4> QED
          BY <4>1, <4>2 DEF Typed
      <3>2. CASE At(w, "shrink")
        <4>1. PICK over \in OverCap({x \in job[w].listing : x.name \in DOMAIN archive}) :
                \E oldest \in SUBSET over :
                  /\ Unlink({x.name : x \in oldest})
                  /\ unaudited' = unaudited \cup job[w].expired \cup {x.name : x \in oldest}
          BY <1>5, <3>2 DEF PruneFails, At
        <4>2. \A x \in over : x.name \in Name
          BY <1>2 DEF OverCap
        <4> QED
          BY <1>1, <4>1, <4>2 DEF Typed, GoodJob, Job
      <3> QED
        BY <1>5, <3>1, <3>2 DEF PruneFails
    <2>4. /\ Directory(archive', Name) /\ IsFiniteSet(DOMAIN archive')
          /\ \A x \in pruned' : x.version \in Version /\ x.name \in Name
      BY <2>3, UnlinkTyped
    <2> QED
      BY <1>5, <2>1, <2>2, <2>3, <2>4 DEF PruneFails, Typed, Directory
  <1> QED
    BY <1>3, <1>4, <1>5

LEMMA TickTyped ==
  ASSUME Typed, Tick
  PROVE  Typed'
  BY BoundsNatural DEF Tick, Typed, Directory, fsVars

LEMMA StepTyped == Typed /\ [Next]_vars => Typed'
  <1> SUFFICES ASSUME Typed, [Next]_vars PROVE Typed'
    OBVIOUS
  <1>1. CASE UNCHANGED vars
    BY <1>1 DEF vars, fsVars, Typed, Directory
  <1>2. CASE Tick
    BY <1>2, TickTyped
  <1>3. CASE Rest
    BY <1>3 DEF Rest, vars, fsVars, Typed, Directory
  <1>4. ASSUME NEW w \in Workers, Begin(w) \/ Continue(w) PROVE Typed'
    BY <1>4, BeginTyped, QuietTyped, ReserveTyped, MoveTyped, UnreserveTyped, RecordTyped,
       WriteTyped, RestoreTyped, RestoreManifestTyped, ListTyped, PruneTyped DEF Continue
  <1> QED
    BY <1>1, <1>2, <1>3, <1>4 DEF Next

\* Every reachable state of the archive is well typed: write_file, delete_file
\* and restore_file keep files, names, rows and calls of the declared forms,
\* for any workers, paths, archive names and caps.
THEOREM TypeCorrect == Spec => []TypeOK
  <1>1. Spec => []Typed
    BY InitTyped, StepTyped, PTL DEF Spec
  <1> QED
    BY <1>1, TypedImpliesTypeOK, PTL

-----------------------------------------------------------------------------
(* Every archived file has its row.  What the property leaves open is who  *)
(* records it: the call that moved it in holds the path the row will give. *)

Owned(n, w) ==
  job[w].pc = "record" /\ job[w].name = n /\ job[w].path = archive[n].from

Covered ==
  \A n \in DOMAIN archive :
    \/ archive[n].version = Empty
    \/ archive[n].from \in Originals(n)
    \/ \E w \in Workers : Owned(n, w)
    \/ n \in unlisted

LEMMA CoveredInit == Init => Covered
  BY DEF Init, Covered

\* A step that only takes files out of the archive, and lets no call leave
\* "record", leaves the others covered.
LEMMA DropCovered ==
  ASSUME Covered, manifest' = manifest, unlisted' = unlisted,
         DOMAIN archive' \subseteq DOMAIN archive,
         \A n \in DOMAIN archive' : archive'[n] = archive[n],
         \A v \in Workers : job[v].pc = "record" => job'[v] = job[v]
  PROVE  Covered'
  BY DEF Covered, Owned, Originals

LEMMA OneJobMoves ==
  ASSUME Typed, NEW w \in Workers,
         Begin(w) \/ Continue(w)
  PROVE  \A v \in Workers \ {w} : job'[v] = job[v]
  BY DEF Begin, Continue, BeginWrite, BeginDelete, BeginRestore, TakeUp, Reserve, Move,
         MoveFails, Unreserve, Record, RecordFails, WriteText, WriteFails, CheckDest,
         RestoreMove, RestoreManifest, RestoreFails, List, Stat, StatFails, Expire,
         Shrink, PruneFails, Leave, Goto, Typed

\* The steps that take files out of the archive, or leave it alone.
LEMMA OtherStepsCover ==
  ASSUME Typed, Covered, NEW w \in Workers,
         \/ Begin(w) \/ MoveFails(w) \/ Unreserve(w) \/ WriteText(w) \/ WriteFails(w)
         \/ CheckDest(w) \/ RestoreMove(w) \/ RestoreFails(w)
         \/ List(w) \/ Stat(w) \/ StatFails(w) \/ Expire(w) \/ Shrink(w) \/ PruneFails(w)
  PROVE  Covered'
  <1>1. job[w].pc # "record"
    BY DEF Begin, BeginWrite, BeginDelete, BeginRestore, TakeUp, MoveFails, Unreserve,
           WriteText, WriteFails, CheckDest, RestoreMove, RestoreFails, List, Stat,
           StatFails, Expire, Shrink, PruneFails, At
  <1>2. \A v \in Workers \ {w} : job'[v] = job[v]
    BY OneJobMoves DEF Continue
  <1>3. manifest' = manifest /\ unlisted' = unlisted
    BY DEF Begin, BeginWrite, BeginDelete, BeginRestore, TakeUp, MoveFails, Unreserve,
           WriteText, WriteFails, CheckDest, RestoreMove, RestoreFails, List, Stat,
           StatFails, Expire, Shrink, PruneFails, fsVars
  <1>4. archive' = archive \/ \E names : archive' = Drop(archive, names)
    BY DEF Begin, BeginWrite, BeginDelete, BeginRestore, TakeUp, MoveFails, Unreserve,
           WriteText, WriteFails, CheckDest, RestoreMove, RestoreFails, List, Stat,
           StatFails, Expire, Shrink, PruneFails, Unlink, fsVars
  <1>5. DOMAIN archive' \subseteq DOMAIN archive
        /\ \A n \in DOMAIN archive' : archive'[n] = archive[n]
    BY <1>4 DEF Drop
  <1> QED
    BY <1>1, <1>2, <1>3, <1>5, DropCovered

LEMMA ReserveCovers ==
  ASSUME Typed, Covered, NEW w \in Workers, Reserve(w)
  PROVE  Covered'
  <1>1. PICK name : archive' = Put(archive, name, Fresh(Empty))
    BY DEF Reserve
  <1>2. archive'[name].version = Empty
    BY <1>1 DEF Put, Fresh
  <1>3. \A n \in DOMAIN archive' \ {name} : n \in DOMAIN archive /\ archive'[n] = archive[n]
    BY <1>1 DEF Put
  <1>4. \A v \in Workers : job[v].pc = "record" => job'[v] = job[v]
    BY OneJobMoves DEF Continue, Reserve, At
  <1>5. manifest' = manifest /\ unlisted' = unlisted
    BY DEF Reserve
  <1> QED
    BY <1>2, <1>3, <1>4, <1>5 DEF Covered, Owned, Originals

LEMMA MoveCovers ==
  ASSUME Typed, Covered, NEW w \in Workers, Move(w)
  PROVE  Covered'
  <1> DEFINE name == job[w].name
  <1>1. archive' = Put(archive, name, [disk[job[w].path] EXCEPT !.from = job[w].path])
        /\ job' = [job EXCEPT ![w].pc = "record"] /\ manifest' = manifest
        /\ unlisted' = unlisted \ {name}
        /\ job[w].path \in DOMAIN disk
    BY DEF Move, Goto
  <1>2. archive'[name].from = job[w].path
    BY <1>1 DEF Put, Typed, Directory, File
  <1>3. job'[w].pc = "record" /\ job'[w].name = name /\ job'[w].path = job[w].path
    BY <1>1 DEF Typed, GoodJob, Job
  <1>4. \A n \in DOMAIN archive' \ {name} : n \in DOMAIN archive /\ archive'[n] = archive[n]
    BY <1>1 DEF Put
  <1>5. \A v \in Workers : job[v].pc = "record" => job'[v] = job[v]
    BY OneJobMoves DEF Continue, Move, At
  <1> QED
    BY <1>1, <1>2, <1>3, <1>4, <1>5 DEF Covered, Owned, Originals

LEMMA RecordCovers ==
  ASSUME Typed, Covered, NEW w \in Workers, Record(w)
  PROVE  Covered'
  <1>1. archive' = archive
        /\ manifest' = manifest \cup {[name |-> job[w].name, original |-> job[w].path,
                                       deletedAt |-> now]}
        /\ unlisted' = unlisted
    BY DEF Record
  <1> DEFINE row == [name |-> job[w].name, original |-> job[w].path, deletedAt |-> now]
             rows(n) == {r.original : r \in {x \in manifest' : x.name = n}}
  <1>2. job[w].path \in rows(job[w].name)
    <2>1. row \in manifest' /\ row.name = job[w].name /\ row.original = job[w].path
      BY <1>1
    <2> QED
      BY <2>1
  <1>3. \A n : Originals(n) \subseteq rows(n)
    BY <1>1 DEF Originals
  <1>4. \A v \in Workers \ {w} : job'[v] = job[v]
    BY OneJobMoves DEF Continue
  <1>5. \A n \in DOMAIN archive :
          \/ archive[n].version = Empty
          \/ archive[n].from \in rows(n)
          \/ \E v \in Workers : /\ job'[v].pc = "record" /\ job'[v].name = n
                               /\ job'[v].path = archive[n].from
          \/ n \in unlisted
    <2> HIDE DEF rows
    <2> QED
      BY <1>2, <1>3, <1>4 DEF Covered, Owned
  <1>6. Covered' <=>
          \A n \in DOMAIN archive' :
            \/ archive'[n].version = Empty
            \/ archive'[n].from \in rows(n)
            \/ \E v \in Workers : /\ job'[v].pc = "record" /\ job'[v].name = n
                                 /\ job'[v].path = archive'[n].from
            \/ n \in unlisted'
    BY DEF Covered, Owned, Originals
  <1> QED
    BY <1>1, <1>5, <1>6

\* Without an I/O error, a record fails only when its file is gone.
LEMMA RecordFailsCovers ==
  ASSUME Typed, Covered, NEW w \in Workers, RecordFails(w), faults = 0, faults' = 0
  PROVE  Covered'
  <1>1. job[w].name \notin DOMAIN archive
    BY DEF RecordFails, Fault, Typed
  <1>2. archive' = archive /\ manifest' = manifest /\ unlisted' = unlisted
    BY DEF RecordFails, fsVars
  <1>3. \A v \in Workers \ {w} : job'[v] = job[v]
    BY OneJobMoves DEF Continue
  <1> QED
    BY <1>1, <1>2, <1>3 DEF Covered, Owned, Originals

\* A manifest moved out takes the rows along: the names they gave are unlisted.
LEMMA RestoreManifestCovers ==
  ASSUME Typed, Covered, NEW w \in Workers, RestoreManifest(w)
  PROVE  Covered'
  <1>1. archive' = archive /\ unlisted' = unlisted \cup {row.name : row \in manifest}
    BY DEF RestoreManifest
  <1>2. \A v \in Workers : job[v].pc = "record" => job'[v] = job[v]
    BY OneJobMoves DEF Continue, RestoreManifest, At
  <1>3. ASSUME NEW n, Originals(n) # {} PROVE n \in unlisted'
    <2>1. PICK row \in manifest : row.name = n
      BY <1>3 DEF Originals
    <2> QED
      BY <1>1, <2>1
  <1>4. ASSUME NEW n \in DOMAIN archive
        PROVE  \/ archive[n].version = Empty
               \/ n \in unlisted'
               \/ \E v \in Workers : /\ job'[v].pc = "record" /\ job'[v].name = n
                                    /\ job'[v].path = archive[n].from
    <2>1. CASE archive[n].from \in Originals(n)
      BY <1>3, <2>1
    <2> QED
      BY <1>1, <1>2, <2>1 DEF Covered, Owned
  <1> QED
    BY <1>1, <1>4 DEF Covered, Owned

LEMMA FaultsStay ==
  ASSUME Typed, [Next]_vars, faults' = 0
  PROVE  faults = 0
  <1>1. faults' = faults \/ Fault
    BY DEF Next, Tick, Rest, Begin, Continue, BeginWrite, BeginDelete, BeginRestore, TakeUp,
         Reserve, Move, MoveFails, Unreserve, Record, RecordFails, WriteText, WriteFails,
         CheckDest, RestoreMove, RestoreManifest, RestoreFails, List, Stat, StatFails,
         Expire, Shrink, PruneFails, vars
  <1> QED
    BY <1>1 DEF Fault, Typed

CoverInv == faults = 0 => Covered

LEMMA StepCovers == Typed /\ CoverInv /\ [Next]_vars => CoverInv'
  <1> SUFFICES ASSUME Typed, CoverInv, [Next]_vars, faults' = 0 PROVE Covered'
    BY DEF CoverInv
  <1>1. faults = 0 /\ Covered
    BY FaultsStay DEF CoverInv
  <1>2. CASE UNCHANGED vars \/ Tick \/ Rest
    BY <1>1, <1>2 DEF vars, fsVars, Tick, Rest, Covered, Owned, Originals
  <1>3. ASSUME NEW w \in Workers, Begin(w) \/ Continue(w) PROVE Covered'
    BY <1>1, <1>3, OtherStepsCover, ReserveCovers, MoveCovers, RecordCovers,
       RecordFailsCovers, RestoreManifestCovers DEF Continue
  <1> QED
    BY <1>2, <1>3 DEF Next

\* While no I/O error strikes, every archived file can be found through
\* manifest.jsonl once the call that archived it is past recording it, unless a
\* restore has moved the manifest itself out since: however many runs write,
\* delete, restore and prune at once, also when they share paths or flatten
\* them to one archive name.
THEOREM ManifestCovers == Spec => []ManifestCoversArchive
  <1>1. Init => Typed /\ CoverInv
    BY InitTyped, CoveredInit DEF CoverInv
  <1>2. Typed /\ CoverInv /\ [Next]_vars => (Typed /\ CoverInv)'
    BY StepTyped, StepCovers
  <1>3. Typed /\ CoverInv => ManifestCoversArchive
    BY DEF CoverInv, Covered, Owned, ManifestCoversArchive, At
  <1> QED
    BY <1>1, <1>2, <1>3, PTL DEF Spec

-----------------------------------------------------------------------------
(* Two workers may take a file between another's look and its act (the     *)
(* archive_name_reuse run shows one way).  They do not where one is alone on *)
(* the workspace, or where each keeps to paths of its own, nothing is       *)
(* restored, and nothing is old enough or too much to prune.                *)

Alone == \A v, w \in Workers : v = w

Apart ==
  /\ "restore" \notin Ops
  /\ \A v, w \in Workers : v # w => MayTouch[v] \cap MayTouch[w] = {}
  /\ MaxNow <= MaxAge
  /\ MaxCalls <= Cap

\* Reservations take names that are free: were all the attempts up to the
\* archive's size plus one taken, the archive would hold more files than it does.
LEMMA FreeNameIsFree ==
  ASSUME IsFiniteSet(DOMAIN archive), NEW path
  PROVE  FreeName(path) \notin DOMAIN archive
  <1> DEFINE named(i) == [ts |-> now, flat |-> Flat[path], attempt |-> i]
             size == Cardinality(DOMAIN archive)
             taken == {i \in 1 .. size : named(i) \in DOMAIN archive}
             free == (1 .. size + 1) \ taken
  <1>1. size \in Nat
    BY FS_CardinalityType
  <1>2. size + 1 \in free /\ free \subseteq Nat
    BY <1>1
  <1>3. Min(free) \in free
    BY <1>2, MinIsLeast
  <1>4. FreeName(path) = named(Min(free))
    BY DEF FreeName
  <1>5. SUFFICES ASSUME named(Min(free)) \in DOMAIN archive PROVE FALSE
    BY <1>4
  <1>6. Min(free) = size + 1
    <2>1. Min(free) \in 1 .. size + 1 /\ ~(Min(free) \in 1 .. size)
      BY <1>3, <1>5
    <2> HIDE DEF free, size
    <2> QED
      BY <1>1, <2>1
  <1>7. \A i \in 1 .. size : named(i) \in DOMAIN archive
    <2> SUFFICES ASSUME NEW i \in 1 .. size, named(i) \notin DOMAIN archive PROVE FALSE
      OBVIOUS
    <2>1. i \in free /\ i < size + 1
      BY <1>1
    <2>2. Min(free) <= i
      BY <1>2, <2>1, MinIsLeast
    <2> HIDE DEF free, size
    <2> QED
      BY <1>1, <1>6, <2>1, <2>2
  <1>8. \A i \in 1 .. size + 1 : named(i) \in DOMAIN archive
    <2>1. named(size + 1) \in DOMAIN archive
      BY <1>5, <1>6
    <2> HIDE DEF size, named
    <2> QED
      BY <1>1, <1>7, <2>1
  <1> DEFINE f == [i \in 1 .. size + 1 |-> named(i)]
  <1>9. IsFiniteSet(1 .. size + 1) /\ Cardinality(1 .. size + 1) = size + 1
    <2> HIDE DEF size
    <2> QED
      BY <1>1, FS_Interval
  <1>10. f \in [1 .. size + 1 -> DOMAIN archive]
    <2> HIDE DEF size, named
    <2> QED
      BY <1>8
  <1>11. \E x, y \in 1 .. size + 1 : x # y /\ f[x] = f[y]
    <2>1. size < size + 1
      BY <1>1
    <2> HIDE DEF f
    <2> QED
      BY <1>9, <1>10, <2>1, FS_PigeonHole
  <1> QED
    BY <1>11

\* What a call finds as it left it: its reservation, the file it moved, the path
\* it looked at.
Found(j) ==
  /\ j.pc = "idle" => j.name = NoName
  /\ j.pc \in {"move", "unreserve"} =>
       j.name \in DOMAIN archive /\ archive[j.name].version = Empty
  /\ j.pc = "record" => j.name \in DOMAIN archive
  /\ j.pc \in {"record", "write", "restore"} => j.path \notin DOMAIN disk
  /\ j.pc = "write" => j.op = "write"
  /\ j.op = "write" => j.version # Empty
  /\ j.pc \in {"dest", "restore"} => j.op = "restore"
  /\ j.pc # "shrink" => j.expired = {}

Undisturbed == \A w \in Workers : Found(job[w])

LEMMA NoJobFound == Found(NoJob)
  BY DEF Found, NoJob

LEMMA UndisturbedInit == Init => Undisturbed
  BY NoJobFound DEF Init, Undisturbed

LEMMA LeaveFound ==
  ASSUME Typed, NEW w \in Workers, Leave(w)
  PROVE  Found(job[w])'
  <1>1. job'[w] = NoJob
    BY DEF Leave, Typed
  <1> QED
    BY <1>1 DEF Found, NoJob

LEMMA BeginFound ==
  ASSUME Typed, NEW w \in Workers, Begin(w)
  PROVE  Found(job[w])'
  <1> USE MayTouchAssumption DEF NoJob, Empty
  <1>1. ASSUME NEW tool, NEW j \in GoodJob, TakeUp(w, tool, j)
        PROVE  /\ job'[w] = [j EXCEPT !.op = tool, !.began = now]
               /\ disk' = disk /\ archive' = archive /\ calls' = calls + 1
    BY <1>1 DEF TakeUp, Typed, fsVars
  <1>2. ASSUME NEW p \in MayTouch[w], BeginWrite(w, p) PROVE Found(job[w])'
    <2> DEFINE first == IF p \in DOMAIN disk THEN "reserve" ELSE "write"
    <2>1. /\ job'[w] = [[NoJob EXCEPT !.pc = first, !.path = p, !.version = calls + 1]
                          EXCEPT !.op = "write", !.began = now]
          /\ disk' = disk
      BY <1>2 DEF BeginWrite, TakeUp, Typed, fsVars
    <2>2. calls + 1 # 0
      BY BoundsNatural DEF Typed
    <2>3. first \in {"reserve", "write"} /\ (first = "write" => p \notin DOMAIN disk)
      OBVIOUS
    <2> HIDE DEF first
    <2>4. /\ job'[w].pc = first /\ job'[w].path = p /\ job'[w].version = calls + 1
          /\ job'[w].op = "write" /\ job'[w].expired = {}
      BY <2>1
    <2> QED
      BY <2>1, <2>2, <2>3, <2>4 DEF Found
  <1>3. ASSUME NEW p \in MayTouch[w], BeginDelete(w, p) PROVE Found(job[w])'
    <2>1. job'[w] = [[NoJob EXCEPT !.pc = "reserve", !.path = p]
                       EXCEPT !.op = "delete", !.began = now]
      BY <1>3 DEF BeginDelete, TakeUp, Typed
    <2> QED
      BY <2>1 DEF Found
  <1>4. ASSUME NEW n \in DOMAIN archive \cup {ManifestName},
               NEW to \in MayTouch[w] \cup {NoPath},
               BeginRestore(w, n, to)
        PROVE  Found(job[w])'
    <2>1. PICK dest :
            TakeUp(w, "restore", [NoJob EXCEPT !.pc = "dest", !.path = dest,
                                    !.name = n, !.byName = to = NoPath])
      BY <1>4, Zenon DEF BeginRestore
    <2> DEFINE b == to = NoPath
    <2> HIDE DEF b
    <2>2. job'[w] = [[NoJob EXCEPT !.pc = "dest", !.path = dest, !.name = n, !.byName = b]
                       EXCEPT !.op = "restore", !.began = now]
      BY <2>1 DEF TakeUp, Typed, b
    <2> QED
      BY <2>2 DEF Found
  <1> QED
    BY <1>2, <1>3, <1>4 DEF Begin

LEMMA ReserveFound ==
  ASSUME Typed, NEW w \in Workers, Found(job[w]), Reserve(w)
  PROVE  Found(job[w])'
  <1> DEFINE name == FreeName(job[w].path)
  <1>1. /\ archive' = Put(archive, name, Fresh(Empty))
        /\ job'[w] = [job[w] EXCEPT !.pc = "move", !.name = name]
        /\ job[w].pc = "reserve" /\ job[w] \in Job
    BY DEF Reserve, Typed, At, GoodJob
  <1>2. name \in DOMAIN archive' /\ archive'[name].version = Empty
    BY <1>1 DEF Put, Fresh
  <1> HIDE DEF name
  <1> QED
    BY <1>1, <1>2 DEF Found, Job

\* The move takes the file off its path and puts it under the reserved name.
LEMMA MoveFound ==
  ASSUME Typed, NEW w \in Workers, Found(job[w]), Move(w)
  PROVE  Found(job[w])'
  <1>1. /\ job'[w] = [job[w] EXCEPT !.pc = "record"]
        /\ job[w].pc = "move" /\ job[w] \in Job
        /\ job[w].name \in DOMAIN archive' /\ job[w].path \notin DOMAIN disk'
    BY DEF Move, Goto, Typed, At, GoodJob, Put, Drop
  <1> QED
    BY <1>1 DEF Found, Job

LEMMA OtherFound ==
  ASSUME Typed, NEW w \in Workers, Found(job[w]), Continue(w), ~Reserve(w), ~Move(w)
  PROVE  Found(job[w])'
  <1>1. job[w] \in Job
    BY DEF Typed, GoodJob
  <1>2. CASE Leave(w)
    BY <1>2, LeaveFound
  <1>3. ASSUME NEW to \in Step, Goto(w, to)
        PROVE  job'[w] = [job[w] EXCEPT !.pc = to]
    BY <1>3 DEF Goto, Typed
  <1>4. CASE MoveFails(w)
    <2>1. job'[w] = [job[w] EXCEPT !.pc = "unreserve"] /\ archive' = archive
      BY <1>3, <1>4 DEF MoveFails, Step, fsVars
    <2> QED
      BY <1>1, <1>4, <2>1 DEF Found, Job, MoveFails, At
  <1>5. CASE Record(w)
    <2>1. \E to \in {"write", "list"} :
            job'[w] = [job[w] EXCEPT !.pc = to] /\ (to = "write" => job[w].op = "write")
      BY <1>3, <1>5 DEF Record, Step
    <2> QED
      BY <1>1, <1>5, <2>1 DEF Found, Job, Record, At
  <1>6. CASE WriteText(w) /\ ~Leave(w)
    <2>1. job'[w] = [job[w] EXCEPT !.pc = "list"]
      BY <1>3, <1>6 DEF WriteText, Step
    <2> QED
      BY <1>1, <1>6, <2>1 DEF Found, Job, WriteText, At
  <1>7. CASE CheckDest(w) /\ ~Leave(w)
    <2>1. job'[w] = [job[w] EXCEPT !.pc = "restore"] /\ disk' = disk
          /\ job[w].path \notin DOMAIN disk
      BY <1>3, <1>7 DEF CheckDest, Step, fsVars
    <2> QED
      BY <1>1, <1>7, <2>1 DEF Found, Job, CheckDest, At
  <1>8. CASE List(w)
    <2>1. job'[w] = [job[w] EXCEPT !.pc = "stat", !.names = DOMAIN archive,
                                   !.cutoff = now - MaxAge]
      BY <1>8 DEF List, Typed
    <2>2. /\ job'[w].pc = "stat" /\ job'[w].op = job[w].op
          /\ job'[w].version = job[w].version /\ job'[w].expired = job[w].expired
      BY <1>1, <2>1 DEF Job
    <2> QED
      BY <1>8, <2>2 DEF Found, List, At
  <1>9. CASE Stat(w)
    <2>1. PICK seen : job'[w] = [job[w] EXCEPT !.pc = "expire", !.names = {}, !.listing = seen]
      BY <1>9 DEF Stat, Typed
    <2>2. /\ job'[w].pc = "expire" /\ job'[w].op = job[w].op
          /\ job'[w].version = job[w].version /\ job'[w].expired = job[w].expired
      BY <1>1, <2>1 DEF Job
    <2> QED
      BY <1>9, <2>2 DEF Found, Stat, At
  <1>10. CASE Expire(w)
    <2>1. PICK gone : job'[w] = [job[w] EXCEPT !.pc = "shrink", !.expired = gone]
      BY <1>10 DEF Expire, Typed
    <2>2. /\ job'[w].pc = "shrink" /\ job'[w].op = job[w].op
          /\ job'[w].version = job[w].version
      BY <1>1, <2>1 DEF Job
    <2> QED
      BY <1>10, <2>2 DEF Found, Expire, At
  <1> QED
    BY <1>2, <1>4, <1>5, <1>6, <1>7, <1>8, <1>9, <1>10
       DEF Continue, Unreserve, RecordFails, WriteFails, RestoreMove, RestoreManifest,
           RestoreFails, StatFails, Shrink, PruneFails

\* A call that is taken up is not pruning yet.
LEMMA BeginStarts ==
  ASSUME Typed, NEW w \in Workers, Begin(w)
  PROVE  job'[w].pc \in {"reserve", "write", "dest"}
  <1>1. ASSUME NEW p \in MayTouch[w], BeginWrite(w, p)
        PROVE  job'[w].pc \in {"reserve", "write"}
    <2> DEFINE first == IF p \in DOMAIN disk THEN "reserve" ELSE "write"
    <2>1. job'[w] = [[NoJob EXCEPT !.pc = first, !.path = p, !.version = calls + 1]
                       EXCEPT !.op = "write", !.began = now]
      BY <1>1 DEF BeginWrite, TakeUp, Typed
    <2>2. first \in {"reserve", "write"}
      OBVIOUS
    <2> HIDE DEF first
    <2> QED
      BY <2>1, <2>2 DEF NoJob
  <1>2. ASSUME NEW p \in MayTouch[w], BeginDelete(w, p)
        PROVE  job'[w].pc = "reserve"
    BY <1>2 DEF BeginDelete, TakeUp, Typed, NoJob
  <1>3. ASSUME NEW n \in DOMAIN archive \cup {ManifestName},
               NEW to \in MayTouch[w] \cup {NoPath},
               BeginRestore(w, n, to)
        PROVE  job'[w].pc = "dest"
    <2>1. PICK dest :
            TakeUp(w, "restore", [NoJob EXCEPT !.pc = "dest", !.path = dest,
                                    !.name = n, !.byName = to = NoPath])
      BY <1>3, Zenon DEF BeginRestore
    <2> DEFINE b == to = NoPath
    <2> HIDE DEF b
    <2>2. job'[w] = [[NoJob EXCEPT !.pc = "dest", !.path = dest, !.name = n, !.byName = b]
                       EXCEPT !.op = "restore", !.began = now]
      BY <2>1 DEF TakeUp, Typed, b
    <2> QED
      BY <2>2 DEF NoJob
  <1> QED
    BY <1>1, <1>2, <1>3 DEF Begin

\* A prune is under way only once its listing has begun.
LEMMA LaterStarts ==
  ASSUME Typed, NEW w \in Workers, Begin(w) \/ Continue(w), ~Expire(w), ~List(w), ~Stat(w)
  PROVE  job'[w].pc \notin {"stat", "expire", "shrink"}
  <1>1. CASE Leave(w)
    BY <1>1 DEF Leave, NoJob, Typed
  <1>2. CASE \E to \in Step \ {"stat", "expire", "shrink"} : Goto(w, to)
    BY <1>2 DEF Goto, Typed, GoodJob, Job
  <1>3. CASE Reserve(w)
    BY <1>3 DEF Reserve, Typed, GoodJob, Job
  <1>4. CASE Begin(w)
    BY <1>4, BeginStarts
  <1> QED
    BY <1>1, <1>2, <1>3, <1>4
       DEF Continue, Step, Move, MoveFails, Unreserve, Record, RecordFails, WriteText,
           WriteFails, CheckDest, RestoreMove, RestoreManifest, RestoreFails, StatFails,
           Shrink, PruneFails

\* A step keeps what its own worker finds, whatever the others do.
LEMMA StepFound ==
  ASSUME Typed, Undisturbed, NEW w \in Workers, Begin(w) \/ Continue(w)
  PROVE  Found(job[w])'
  BY BeginFound, ReserveFound, MoveFound, OtherFound DEF Undisturbed

LEMMA IdleUndisturbed ==
  ASSUME Undisturbed, UNCHANGED vars \/ Tick \/ Rest
  PROVE  Undisturbed'
  BY DEF vars, fsVars, Tick, Rest, Undisturbed, Found

LEMMA AloneUndisturbed ==
  Alone /\ Typed /\ Undisturbed /\ [Next]_vars => Undisturbed'
  BY StepFound, IdleUndisturbed DEF Next, Alone, Undisturbed


-----------------------------------------------------------------------------
(* Workers that keep apart.  No two hold one name, since a reservation      *)
(* takes a free one and nothing is unlinked; nothing is unlinked, since     *)
(* there are no more files than calls and none is older than the cutoff.    *)

Reserving == {w \in Workers : job[w].pc = "reserve"}

Holding(j) == j.pc \in {"move", "unreserve", "record"}

OwnPath(w) ==
  /\ job[w].pc # "idle" => job[w].path \in MayTouch[w]
  /\ job[w].pc \notin {"dest", "restore"}

OwnNames ==
  \A v, w \in Workers :
    Holding(job[v]) /\ Holding(job[w]) /\ job[v].name = job[w].name => v = w

Counted ==
  /\ IsFiniteSet(Reserving)
  /\ Cardinality(DOMAIN archive) + Cardinality(Reserving) <= calls

\* A prune in progress has nothing to unlink.
NothingDue(j) ==
  /\ j.pc \in {"stat", "expire"} => j.cutoff <= 0
  /\ j.pc \in {"expire", "shrink"} => IsFiniteSet(j.listing) /\ Cardinality(j.listing) <= Cap

\* What a prune sees of an archived file.
Entry(n) == [name |-> n, mtime |-> archive[n].mtime,
             size |-> IF archive[n].version = Empty THEN 0 ELSE 1]

KeptApart ==
  /\ \A w \in Workers : OwnPath(w) /\ NothingDue(job[w])
  /\ OwnNames
  /\ Counted

LEMMA KeptApartInit == Init => KeptApart
  <1> SUFFICES ASSUME Init PROVE KeptApart
    OBVIOUS
  <1>1. Reserving = {} /\ DOMAIN archive = {} /\ calls = 0
    BY DEF Init, Reserving, NoJob
  <1>2. Counted
    BY <1>1, FS_EmptySet DEF Counted
  <1> QED
    BY <1>2 DEF Init, KeptApart, OwnPath, OwnNames, NothingDue, Holding, NoJob

LEMMA NothingStale ==
  ASSUME Typed, NEW w \in Workers, NothingDue(job[w]), At(w, "expire")
  PROVE  Stale(w) = {}
  <1>1. job[w].cutoff <= 0 /\ job[w].cutoff \in Int
    BY DEF NothingDue, At, Typed, GoodJob, Job
  <1>2. \A x \in job[w].listing : x.mtime \in 0 .. MaxNow
    BY DEF Typed, GoodJob, Job, Listed
  <1>3. \A x \in job[w].listing : ~(x.mtime < job[w].cutoff)
    BY <1>1, <1>2, BoundsNatural
  <1> QED
    BY <1>3 DEF Stale

LEMMA NothingOver ==
  ASSUME NEW w \in Workers, NothingDue(job[w]), At(w, "shrink")
  PROVE  OverCap({x \in job[w].listing : x.name \in DOMAIN archive}) = {{}}
  <1> DEFINE listing == {x \in job[w].listing : x.name \in DOMAIN archive}
             sized == {x \in listing : x.size = 1}
  <1>1. IsFiniteSet(job[w].listing) /\ Cardinality(job[w].listing) <= Cap
    BY DEF NothingDue, At
  <1>2. sized \in SUBSET job[w].listing
    OBVIOUS
  <1>3. Cardinality(sized) <= Cap
    <2> HIDE DEF sized
    <2>1. IsFiniteSet(sized) /\ Cardinality(sized) <= Cardinality(job[w].listing)
      BY <1>1, <1>2, FS_Subset
    <2>2. Cardinality(sized) \in Nat /\ Cardinality(job[w].listing) \in Nat
      BY <1>1, <2>1, FS_CardinalityType
    <2> QED
      BY <1>1, <2>1, <2>2, BoundsNatural
  <1> QED
    BY <1>3 DEF OverCap, Size

LEMMA PruneUnlinksNothing ==
  ASSUME Typed, KeptApart, NEW w \in Workers, Expire(w) \/ Shrink(w) \/ PruneFails(w)
  PROVE  /\ DOMAIN archive' = DOMAIN archive
         /\ \A n \in DOMAIN archive : archive'[n] = archive[n]
  <1>1. NothingDue(job[w])
    BY DEF KeptApart
  <1>2. \E names : names = {} /\ archive' = Drop(archive, names)
    <2>1. CASE Expire(w)
      <3>1. archive' = Drop(archive, Stale(w)) /\ At(w, "expire")
        BY <2>1 DEF Expire, Unlink
      <3>2. Stale(w) = {}
        BY <1>1, <3>1, NothingStale
      <3> QED
        BY <3>1, <3>2
    <2>2. CASE Shrink(w)
      <3>1. PICK over \in OverCap({x \in job[w].listing : x.name \in DOMAIN archive}) :
              archive' = Drop(archive, {x.name : x \in over})
        BY <2>2 DEF Shrink, Unlink
      <3>2. over = {}
        BY <1>1, <2>2, <3>1, NothingOver DEF Shrink
      <3>3. {x.name : x \in over} = {}
        BY <3>2
      <3> QED
        BY <3>1, <3>3
    <2>3. CASE PruneFails(w)
      <3>1. CASE At(w, "expire")
        <4>1. Stale(w) = {}
          BY <1>1, <3>1, NothingStale
        <4>2. \E gone \in (SUBSET Stale(w)) \ {Stale(w)} : TRUE
          BY <2>3, <3>1 DEF PruneFails, At
        <4> QED
          BY <4>1, <4>2
      <3>2. CASE At(w, "shrink")
        <4>1. OverCap({x \in job[w].listing : x.name \in DOMAIN archive}) = {{}}
          BY <1>1, <3>2, NothingOver
        <4>2. \E over \in OverCap({x \in job[w].listing : x.name \in DOMAIN archive}) :
                \E oldest \in (SUBSET over) \ {over} : TRUE
          BY <2>3, <3>2 DEF PruneFails, At
        <4> QED
          BY <4>1, <4>2
      <3> QED
        BY <2>3, <3>1, <3>2 DEF PruneFails
    <2> QED
      BY <2>1, <2>2, <2>3
  <1> QED
    BY <1>2 DEF Drop

LEMMA BeginApart ==
  ASSUME Typed, Apart, NEW w \in Workers, Begin(w)
  PROVE  /\ job[w].pc = "idle" /\ job'[w].pc \in {"reserve", "write"}
         /\ job'[w].path \in MayTouch[w]
         /\ archive' = archive /\ disk' = disk /\ calls' = calls + 1
  <1>1. job[w].pc = "idle" /\ archive' = archive /\ disk' = disk /\ calls' = calls + 1
    BY DEF Begin, BeginWrite, BeginDelete, BeginRestore, TakeUp, At, fsVars
  <1>2. ASSUME NEW p \in MayTouch[w], BeginWrite(w, p)
        PROVE  job'[w].pc \in {"reserve", "write"} /\ job'[w].path = p
    <2> DEFINE first == IF p \in DOMAIN disk THEN "reserve" ELSE "write"
    <2>1. job'[w] = [[NoJob EXCEPT !.pc = first, !.path = p, !.version = calls + 1]
                       EXCEPT !.op = "write", !.began = now]
      BY <1>2 DEF BeginWrite, TakeUp, Typed
    <2>2. first \in {"reserve", "write"}
      OBVIOUS
    <2> HIDE DEF first
    <2> QED
      BY <2>1, <2>2 DEF NoJob
  <1>3. ASSUME NEW p \in MayTouch[w], BeginDelete(w, p)
        PROVE  job'[w].pc = "reserve" /\ job'[w].path = p
    BY <1>3 DEF BeginDelete, TakeUp, Typed, NoJob
  <1>4. \A n, to : ~BeginRestore(w, n, to)
    BY Zenon DEF BeginRestore, TakeUp, Apart
  <1> QED
    BY <1>1, <1>2, <1>3, <1>4 DEF Begin

LEMMA ContinueApart ==
  ASSUME Typed, NEW w \in Workers, OwnPath(w), Continue(w), ~Reserve(w)
  PROVE  /\ job[w].pc \notin {"idle", "reserve"}
         /\ job'[w].pc \notin {"reserve", "dest", "restore"}
         /\ job'[w].pc # "idle" => job'[w].path = job[w].path
         /\ Holding(job'[w]) => Holding(job[w]) /\ job'[w].name = job[w].name
         /\ calls' = calls
  <1>1. job[w] \in Job
    BY DEF Typed, GoodJob
  <1>2. job[w].pc \notin {"idle", "reserve"} /\ calls' = calls
    BY DEF Continue, Move, MoveFails, Unreserve, Record, RecordFails, WriteText, WriteFails,
           CheckDest, RestoreMove, RestoreManifest, RestoreFails, List, Stat, StatFails,
           Expire, Shrink, PruneFails, At
  <1>3. \/ Leave(w)
        \/ Goto(w, "record") /\ job[w].pc = "move"
        \/ Goto(w, "unreserve") /\ job[w].pc = "move"
        \/ \E to \in {"write", "list"} : Goto(w, to)
        \/ List(w) \/ Stat(w) \/ Expire(w)
    BY DEF Continue, Move, MoveFails, Unreserve, Record, RecordFails, WriteText, WriteFails,
           CheckDest, RestoreMove, RestoreManifest, RestoreFails, StatFails, Shrink,
           PruneFails, At, OwnPath
  <1>4. CASE Leave(w)
    BY <1>2, <1>4 DEF Leave, NoJob, Typed, Holding
  <1>5. ASSUME NEW to, Goto(w, to)
        PROVE  /\ job'[w].pc = to /\ job'[w].path = job[w].path
               /\ job'[w].name = job[w].name
    BY <1>1, <1>5 DEF Goto, Typed, Job
  <1>6. CASE List(w) \/ Stat(w) \/ Expire(w)
    <2>1. job'[w].pc \in {"stat", "expire", "shrink"} /\ job'[w].path = job[w].path
      BY <1>1, <1>6 DEF List, Stat, Expire, Typed, Job
    <2> QED
      BY <1>2, <2>1 DEF Holding
  <1>7. CASE \E to \in {"record", "unreserve"} : Goto(w, to) /\ job[w].pc = "move"
    BY <1>2, <1>5, <1>7 DEF Holding
  <1>8. CASE \E to \in {"write", "list"} : Goto(w, to)
    BY <1>2, <1>5, <1>8 DEF Holding
  <1> QED
    BY <1>3, <1>4, <1>6, <1>7, <1>8

\* Of the files other calls hold, a step of one worker changes none.
LEMMA OthersFilesStay ==
  ASSUME Typed, Undisturbed, KeptApart, Apart, NEW w \in Workers, Begin(w) \/ Continue(w)
  PROVE  /\ \A n \in DOMAIN archive :
              \/ Holding(job[w]) /\ n = job[w].name
              \/ n \in DOMAIN archive' /\ archive'[n] = archive[n]
         /\ \A p \in DOMAIN disk' : p \in DOMAIN disk \/ (~At(w, "idle") /\ p = job[w].path)
  <1>1. OwnPath(w)
    BY DEF KeptApart
  <1>2. CASE Begin(w)
    BY <1>2, BeginApart
  <1>3. CASE Reserve(w)
    <2>1. PICK file : archive' = Put(archive, FreeName(job[w].path), file) /\ disk' = disk
      BY <1>3 DEF Reserve
    <2>2. FreeName(job[w].path) \notin DOMAIN archive
      BY FreeNameIsFree DEF Typed
    <2> QED
      BY <2>1, <2>2 DEF Put
  <1>4. CASE Move(w)
    BY <1>4 DEF Move, At, Holding, Put, Drop
  <1>5. CASE Unreserve(w)
    BY <1>5 DEF Unreserve, At, Holding, Drop
  <1>6. CASE WriteText(w) \/ WriteFails(w)
    <2>1. archive' = archive /\ At(w, "write")
          /\ (disk' = disk \/ \E file : disk' = Put(disk, job[w].path, file))
      BY <1>6 DEF WriteText, WriteFails
    <2> QED
      BY <2>1 DEF Put, At
  <1>7. CASE Expire(w) \/ Shrink(w) \/ PruneFails(w)
    <2>1. disk' = disk
      BY <1>7 DEF Expire, Shrink, PruneFails
    <2> QED
      BY <1>7, <2>1, PruneUnlinksNothing
  <1>8. CASE \/ MoveFails(w) \/ Record(w) \/ RecordFails(w) \/ CheckDest(w)
             \/ RestoreFails(w) \/ List(w) \/ Stat(w) \/ StatFails(w)
    BY <1>8 DEF MoveFails, Record, RecordFails, CheckDest, RestoreFails, List, Stat,
                StatFails, fsVars
  <1>9. ~RestoreMove(w) /\ ~RestoreManifest(w)
    BY <1>1 DEF RestoreMove, RestoreManifest, OwnPath, At
  <1> QED
    BY <1>2, <1>3, <1>4, <1>5, <1>6, <1>7, <1>8, <1>9 DEF Continue

LEMMA OthersFound ==
  ASSUME Typed, Undisturbed, KeptApart, Apart, NEW w \in Workers, Begin(w) \/ Continue(w),
         NEW v \in Workers \ {w}
  PROVE  Found(job[v])'
  <1>1. job'[v] = job[v] /\ Found(job[v]) /\ OwnPath(v) /\ OwnPath(w)
    BY OneJobMoves DEF Undisturbed, KeptApart
  <1>2. Holding(job[v]) => /\ job[v].name \in DOMAIN archive'
                           /\ archive'[job[v].name] = archive[job[v].name]
    <2>1. Holding(job[v]) => job[v].name \in DOMAIN archive
      BY <1>1 DEF Found, Holding
    <2>2. Holding(job[v]) => ~(Holding(job[w]) /\ job[v].name = job[w].name)
      BY DEF KeptApart, OwnNames
    <2> QED
      BY <2>1, <2>2, OthersFilesStay
  <1>3. job[v].pc \in {"record", "write"} => job[v].path \notin DOMAIN disk'
    <2> SUFFICES ASSUME job[v].pc \in {"record", "write"}, job[v].path \in DOMAIN disk'
                 PROVE  FALSE
      OBVIOUS
    <2>1. job[v].path \notin DOMAIN disk /\ job[v].path \in MayTouch[v]
      BY <1>1 DEF Found, OwnPath
    <2>2. ~At(w, "idle") /\ job[v].path = job[w].path
      BY <2>1, OthersFilesStay
    <2>3. job[v].path \in MayTouch[w]
      BY <1>1, <2>2 DEF OwnPath, At
    <2> QED
      BY <2>1, <2>3 DEF Apart
  <1>4. job[v].pc \notin {"dest", "restore"}
    BY <1>1 DEF OwnPath
  <1> QED
    BY <1>1, <1>2, <1>3, <1>4 DEF Found, Holding

LEMMA CountedFacts ==
  ASSUME Typed, Counted
  PROVE  /\ Cardinality(DOMAIN archive) \in Nat /\ Cardinality(Reserving) \in Nat
         /\ calls \in Nat /\ Cardinality(DOMAIN archive) <= MaxCalls
  BY FS_CardinalityType, BoundsNatural DEF Typed, Counted

\* There are no more files in the archive than calls that reserved a name.
LEMMA StepCounted ==
  ASSUME Typed, Undisturbed, KeptApart, Apart, NEW w \in Workers, Begin(w) \/ Continue(w)
  PROVE  Counted'
  <1> DEFINE size == Cardinality(DOMAIN archive)
             count == Cardinality(Reserving)
  <1>1. /\ size \in Nat /\ count \in Nat /\ calls \in Nat /\ size + count <= calls
        /\ IsFiniteSet(Reserving) /\ IsFiniteSet(DOMAIN archive)
    BY CountedFacts DEF KeptApart, Counted, Typed
  <1>2. \A v \in Workers \ {w} : job'[v] = job[v]
    BY OneJobMoves
  <1>3. Counted' <=> /\ IsFiniteSet(Reserving')
                     /\ Cardinality(DOMAIN archive') + Cardinality(Reserving') <= calls'
    BY DEF Counted
  <1>4. CASE Begin(w)
    <2>1. archive' = archive /\ calls' = calls + 1
      BY <1>4, BeginApart
    <2>2. Reserving' \in SUBSET (Reserving \cup {w})
      BY <1>2 DEF Reserving
    <2>3. /\ IsFiniteSet(Reserving \cup {w})
          /\ Cardinality(Reserving \cup {w}) \in {count, count + 1}
      BY <1>1, FS_AddElement
    <2>4. /\ IsFiniteSet(Reserving')
          /\ Cardinality(Reserving') <= Cardinality(Reserving \cup {w})
      <3> HIDE DEF Reserving
      <3> QED
        BY <2>2, <2>3, FS_Subset
    <2>5. Cardinality(Reserving') \in Nat
      BY <2>4, FS_CardinalityType
    <2>6. Cardinality(Reserving') <= count + 1
      <3> HIDE DEF count
      <3> QED
        BY <1>1, <2>3, <2>4, <2>5
    <2> HIDE DEF size, count
    <2> QED
      BY <1>1, <1>3, <2>1, <2>4, <2>5, <2>6 DEF size
  <1>5. CASE Reserve(w)
    <2> DEFINE name == FreeName(job[w].path)
    <2>1. DOMAIN archive' = DOMAIN archive \cup {name} /\ calls' = calls
      BY <1>5 DEF Reserve, Put
    <2>2. name \notin DOMAIN archive
      BY FreeNameIsFree DEF Typed
    <2>3. Reserving' = Reserving \ {w} /\ w \in Reserving
      <3>1. job[w].pc = "reserve" /\ job'[w].pc = "move"
        BY <1>5 DEF Reserve, At, Typed, GoodJob, Job
      <3> QED
        BY <1>2, <3>1 DEF Reserving
    <2> HIDE DEF name
    <2>4. Cardinality(DOMAIN archive') = size + 1
      BY <1>1, <2>1, <2>2, FS_AddElement
    <2>5. IsFiniteSet(Reserving') /\ Cardinality(Reserving') = count - 1
      BY <1>1, <2>3, FS_RemoveElement
    <2> HIDE DEF size, count
    <2> QED
      BY <1>1, <1>3, <2>1, <2>4, <2>5
  <1>6. CASE Continue(w) /\ ~Reserve(w)
    <2>1. /\ job[w].pc # "reserve" /\ job'[w].pc # "reserve" /\ calls' = calls
      BY <1>6, ContinueApart DEF KeptApart
    <2>2. Reserving' = Reserving
      BY <1>2, <2>1 DEF Reserving
    <2>3. DOMAIN archive' \in SUBSET DOMAIN archive
      <3>1. CASE Move(w)
        BY <3>1 DEF Move, At, Undisturbed, Found, Put
      <3>2. CASE ~Move(w)
        BY <1>6, <3>2
           DEF Continue, MoveFails, Unreserve, Record, RecordFails, WriteText, WriteFails,
               CheckDest, RestoreMove, RestoreManifest, RestoreFails, List, Stat,
               StatFails, Expire, Shrink, PruneFails, Unlink, Drop, fsVars
      <3> QED
        BY <3>1, <3>2
    <2>4. Cardinality(DOMAIN archive') \in Nat /\ Cardinality(DOMAIN archive') <= size
      BY <1>1, <2>3, FS_Subset, FS_CardinalityType
    <2> HIDE DEF size, count
    <2> QED
      BY <1>1, <1>3, <2>1, <2>2, <2>4 DEF count
  <1> QED
    BY <1>4, <1>5, <1>6

LEMMA StepNothingDue ==
  ASSUME Typed, KeptApart, Apart, NEW w \in Workers, Begin(w) \/ Continue(w)
  PROVE  NothingDue(job[w])'
  <1>1. job[w] \in Job /\ NothingDue(job[w])
    BY DEF Typed, GoodJob, KeptApart
  <1>2. CASE List(w)
    <2>1. job'[w].pc = "stat" /\ job'[w].cutoff = now - MaxAge
      BY <1>1, <1>2 DEF List, Typed, Job
    <2>2. now - MaxAge <= 0
      BY BoundsNatural DEF Typed, Apart
    <2> QED
      BY <2>1, <2>2 DEF NothingDue
  <1>3. CASE Stat(w)
    <2>1. /\ job'[w].pc = "expire" /\ job'[w].cutoff = job[w].cutoff
          /\ job[w].names \subseteq DOMAIN archive /\ job[w].pc = "stat"
          /\ job'[w].listing = {Entry(n) : n \in job[w].names}
      BY <1>1, <1>3 DEF Stat, Typed, Job, Entry, At
    <2>2. IsFiniteSet(job[w].names) /\ Cardinality(job[w].names) <= Cardinality(DOMAIN archive)
      BY <2>1, FS_Subset DEF Typed
    <2> DEFINE f == [n \in job[w].names |-> Entry(n)]
               listing == {Entry(n) : n \in job[w].names}
    <2>3. f \in Surjection(job[w].names, listing)
      BY DEF Surjection
    <2>4. IsFiniteSet(listing) /\ Cardinality(listing) <= Cardinality(job[w].names)
      <3> HIDE DEF f, listing
      <3> QED
        BY <2>2, <2>3, FS_Surjection
    <2>5. Cardinality(listing) <= Cap
      <3>1. Cardinality(listing) \in Nat /\ Cardinality(job[w].names) \in Nat
        <4> HIDE DEF listing
        <4> QED
          BY <2>2, <2>4, FS_CardinalityType
      <3>2. /\ Cardinality(DOMAIN archive) \in Nat
            /\ Cardinality(DOMAIN archive) <= MaxCalls /\ MaxCalls <= Cap
        BY CountedFacts DEF KeptApart, Apart
      <3> HIDE DEF listing
      <3> QED
        BY <2>2, <2>4, <3>1, <3>2, BoundsNatural
    <2> QED
      BY <1>1, <2>1, <2>4, <2>5 DEF NothingDue
  <1>4. CASE Expire(w)
    <2>1. /\ job'[w].pc = "shrink" /\ job'[w].listing = job[w].listing
          /\ job[w].pc = "expire"
      BY <1>1, <1>4 DEF Expire, Typed, Job, At
    <2> QED
      BY <1>1, <2>1 DEF NothingDue
  <1>5. CASE ~List(w) /\ ~Stat(w) /\ ~Expire(w)
    <2>1. job'[w].pc \notin {"stat", "expire", "shrink"}
      BY <1>5, LaterStarts
    <2> QED
      BY <2>1 DEF NothingDue
  <1> QED
    BY <1>2, <1>3, <1>4, <1>5

LEMMA StepKeptApart ==
  ASSUME Typed, Undisturbed, KeptApart, Apart, NEW w \in Workers, Begin(w) \/ Continue(w)
  PROVE  KeptApart'
  <1>1. \A v \in Workers \ {w} : job'[v] = job[v]
    BY OneJobMoves
  <1>2. job[w] \in Job /\ OwnPath(w)
    BY DEF Typed, GoodJob, KeptApart
  <1>3. \A v \in Workers : NothingDue(job[v])'
    <2>1. \A v \in Workers \ {w} : NothingDue(job[v])'
      BY <1>1 DEF KeptApart, NothingDue
    <2> QED
      BY <2>1, StepNothingDue
  <1>4. CASE Reserve(w)
    <2>1. /\ job'[w].pc = "move" /\ job'[w].path = job[w].path /\ job[w].pc = "reserve"
          /\ job'[w].name = FreeName(job[w].path)
      <3> DEFINE name == FreeName(job[w].path)
      <3>1. job'[w] = [job[w] EXCEPT !.pc = "move", !.name = name]
        BY <1>4 DEF Reserve, Typed
      <3> HIDE DEF name
      <3>2. job'[w].pc = "move" /\ job'[w].path = job[w].path /\ job'[w].name = name
        BY <1>2, <3>1 DEF Job
      <3> QED
        BY <1>4, <3>2 DEF Reserve, At, name
    <2>2. job'[w].name \notin DOMAIN archive
      BY <2>1, FreeNameIsFree DEF Typed
    <2>3. \A v \in Workers \ {w} : Holding(job[v]) => job[v].name \in DOMAIN archive
      BY DEF Undisturbed, Found, Holding
    <2>4. OwnNames'
      BY <1>1, <2>2, <2>3 DEF KeptApart, OwnNames
    <2>5. \A v \in Workers : OwnPath(v)'
      BY <1>1, <1>2, <2>1 DEF KeptApart, OwnPath
    <2> QED
      BY <1>3, <2>4, <2>5, StepCounted DEF KeptApart
  <1>5. CASE Continue(w) /\ ~Reserve(w)
    <2>1. OwnNames'
      BY <1>1, <1>2, <1>5, ContinueApart DEF KeptApart, OwnNames
    <2>2. \A v \in Workers : OwnPath(v)'
      BY <1>1, <1>2, <1>5, ContinueApart DEF KeptApart, OwnPath
    <2> QED
      BY <1>3, <2>1, <2>2, StepCounted DEF KeptApart
  <1>6. CASE Begin(w)
    <2>1. OwnNames'
      BY <1>1, <1>6, BeginApart DEF KeptApart, OwnNames, Holding
    <2>2. \A v \in Workers : OwnPath(v)'
      BY <1>1, <1>6, BeginApart DEF KeptApart, OwnPath
    <2> QED
      BY <1>3, <2>1, <2>2, StepCounted DEF KeptApart
  <1> QED
    BY <1>4, <1>5, <1>6

LEMMA ApartUndisturbed ==
  Apart /\ Typed /\ Undisturbed /\ KeptApart /\ [Next]_vars => Undisturbed' /\ KeptApart'
  <1> SUFFICES ASSUME Apart, Typed, Undisturbed, KeptApart, [Next]_vars
               PROVE  Undisturbed' /\ KeptApart'
    OBVIOUS
  <1>1. CASE UNCHANGED vars \/ Tick \/ Rest
    <2>1. UNCHANGED <<disk, archive, job, calls>>
      BY <1>1 DEF vars, fsVars, Tick, Rest
    <2>2. KeptApart'
      BY <2>1 DEF KeptApart, OwnPath, OwnNames, NothingDue, Counted, Reserving, Holding
    <2> QED
      BY <1>1, <2>2, IdleUndisturbed
  <1>2. ASSUME NEW w \in Workers, Begin(w) \/ Continue(w) PROVE Undisturbed' /\ KeptApart'
    <2>1. \A v \in Workers : Found(job[v])'
      BY <1>2, StepFound, OthersFound
    <2> QED
      BY <1>2, <2>1, StepKeptApart DEF Undisturbed
  <1> QED
    BY <1>1, <1>2 DEF Next

LEMMA UndisturbedKept == Alone \/ Apart => (Spec => [](Typed /\ Undisturbed))
  <1> SUFFICES ASSUME Alone \/ Apart PROVE Spec => [](Typed /\ Undisturbed)
    OBVIOUS
  <1>1. Init => Typed /\ Undisturbed /\ KeptApart
    BY InitTyped, UndisturbedInit, KeptApartInit
  <1>2. CASE Alone
    <2>1. Typed /\ Undisturbed /\ [Next]_vars => (Typed /\ Undisturbed)'
      BY <1>2, StepTyped, AloneUndisturbed
    <2> QED
      BY <1>1, <2>1, PTL DEF Spec
  <1>3. CASE Apart
    <2>1. Typed /\ Undisturbed /\ KeptApart /\ [Next]_vars =>
            (Typed /\ Undisturbed /\ KeptApart)'
      BY <1>3, StepTyped, ApartUndisturbed
    <2> QED
      BY <1>1, <2>1, PTL DEF Spec
  <1> QED
    BY <1>2, <1>3

\* The move of _archive_file lands on the placeholder that
\* _reserve_archive_name left, as its comment says, for one worker and for any
\* number that keep apart: it destroys no file of the archive.
THEOREM MoveIntoPlaceholder == Alone \/ Apart => (Spec => MoveLandsOnPlaceholder)
  <1> SUFFICES ASSUME Alone \/ Apart PROVE Spec => MoveLandsOnPlaceholder
    OBVIOUS
  <1>1. Typed /\ Undisturbed /\ [Next]_vars =>
          [\A w \in Workers : Move(w) =>
             /\ job[w].name \in DOMAIN archive
             /\ archive[job[w].name].version = Empty]_vars
    BY DEF Undisturbed, Found, Move, At
  <1> QED
    BY <1>1, UndisturbedKept, PTL DEF Spec, MoveLandsOnPlaceholder

\* Neither write_file nor restore_file replaces a file that was not moved away
\* first, for one worker and for any number that keep apart.
THEOREM NothingIsReplaced == Alone \/ Apart => (Spec => NothingReplaced)
  <1> SUFFICES ASSUME Alone \/ Apart PROVE Spec => NothingReplaced
    OBVIOUS
  <1>1. Typed /\ Undisturbed /\ [Next]_vars =>
          [\A w \in Workers :
             WriteText(w) \/ RestoreMove(w) \/ RestoreManifest(w) =>
               job[w].path \notin DOMAIN disk]_vars
    BY DEF Undisturbed, Found, WriteText, RestoreMove, RestoreManifest, At
  <1> QED
    BY <1>1, UndisturbedKept, PTL DEF Spec, NothingReplaced

-----------------------------------------------------------------------------
(* Nothing is lost.  A content that leaves the path it was at is in the     *)
(* archive, one that leaves the archive without going back to a path was    *)
(* unlinked by a prune, and its name is with the call, or in an event.      *)

Held == Versions(disk) \cup Versions(archive)

Told == audited \cup unaudited \cup UNION {job[w].expired : w \in Workers}

Lossless ==
  /\ Empty \notin written
  /\ \A v \in written : v \in Held \/ \E x \in pruned : x.version = v /\ x.name \in Told

LEMMA LosslessInit == Init => Lossless
  BY DEF Init, Lossless

LEMMA LosslessIsNothingLost == Lossless => NothingLost
  BY DEF Lossless, NothingLost, Held, Told

\* A step that moves contents about and tells what it unlinks loses none.
LEMMA NoneLost ==
  ASSUME Lossless,
         \A v \in Held \ {Empty} :
           v \in Held' \/ \E x \in pruned' : x.version = v /\ x.name \in Told',
         pruned \subseteq pruned', Told \subseteq Told',
         \A v \in written' \ written : v # Empty /\ v \in Held'
  PROVE  Lossless'
  <1>1. Empty \notin written'
    BY DEF Lossless
  <1>2. ASSUME NEW v \in written'
        PROVE  v \in Held' \/ \E x \in pruned' : x.version = v /\ x.name \in Told'
    BY <1>1 DEF Lossless
  <1> QED
    BY <1>1, <1>2 DEF Lossless

\* The names a step leaves told: those of the other calls stay with them.
LEMMA ToldKept ==
  ASSUME Typed, NEW w \in Workers, Begin(w) \/ Continue(w),
         audited \cup unaudited \cup job[w].expired
           \subseteq audited' \cup unaudited' \cup job'[w].expired
  PROVE  /\ Told \subseteq Told'
         /\ audited' \cup unaudited' \cup job'[w].expired \subseteq Told'
  <1>1. audited' \cup unaudited' \cup job'[w].expired \subseteq Told'
    BY DEF Told
  <1>2. \A v \in Workers \ {w} : job'[v] = job[v]
    BY OneJobMoves
  <1>3. \A v \in Workers \ {w} : job[v].expired \subseteq Told'
    BY <1>2 DEF Told
  <1> QED
    BY <1>1, <1>3 DEF Told

LEMMA PutHolds ==
  ASSUME NEW dir, NEW name, NEW file, NEW v \in Versions(dir),
         name \in DOMAIN dir => dir[name].version # v
  PROVE  v \in Versions(Put(dir, name, file))
  <1>1. PICK k \in DOMAIN dir : dir[k].version = v
    BY DEF Versions
  <1>2. k \in DOMAIN Put(dir, name, file) /\ Put(dir, name, file)[k] = dir[k]
    BY <1>1 DEF Put
  <1> QED
    BY <1>1, <1>2 DEF Versions

LEMMA PutAdds ==
  ASSUME NEW dir, NEW name, NEW file
  PROVE  file.version \in Versions(Put(dir, name, file))
  <1>1. name \in DOMAIN Put(dir, name, file) /\ Put(dir, name, file)[name] = file
    BY DEF Put
  <1> QED
    BY <1>1 DEF Versions

LEMMA DropHolds ==
  ASSUME NEW dir, NEW names, NEW v \in Versions(dir)
  PROVE  \/ v \in Versions(Drop(dir, names))
         \/ \E n \in names \cap DOMAIN dir : dir[n].version = v
  <1>1. PICK k \in DOMAIN dir : dir[k].version = v
    BY DEF Versions
  <1>2. CASE k \notin names
    <2>1. k \in DOMAIN Drop(dir, names) /\ Drop(dir, names)[k] = dir[k]
      BY <1>1, <1>2, DropFacts
    <2> QED
      BY <1>1, <2>1 DEF Versions
  <1> QED
    BY <1>1, <1>2

\* Steps that leave every file and every event alone.
LEMMA QuietLossless ==
  ASSUME Typed, Undisturbed, Lossless, NEW w \in Workers,
         \/ Begin(w) \/ MoveFails(w) \/ Record(w) \/ RecordFails(w)
         \/ CheckDest(w) \/ RestoreFails(w) \/ List(w) \/ Stat(w) \/ StatFails(w)
  PROVE  Lossless'
  <1>1. /\ disk' = disk /\ archive' = archive /\ audited' = audited
        /\ unaudited' = unaudited /\ pruned' = pruned /\ written' = written
    BY DEF Begin, BeginWrite, BeginDelete, BeginRestore, TakeUp, MoveFails, Record,
           RecordFails, CheckDest, RestoreFails, List, Stat, StatFails, fsVars
  <1>2. job[w].expired = {}
    BY DEF Undisturbed, Found, Begin, BeginWrite, BeginDelete, BeginRestore, TakeUp,
           MoveFails, Record, RecordFails, CheckDest, RestoreFails, List, Stat, StatFails, At
  <1>3. Told \subseteq Told'
    BY <1>1, <1>2, ToldKept DEF Continue
  <1> QED
    BY <1>1, <1>3, NoneLost DEF Held

LEMMA ReserveLossless ==
  ASSUME Typed, Undisturbed, Lossless, NEW w \in Workers, Reserve(w)
  PROVE  Lossless'
  <1> DEFINE name == FreeName(job[w].path)
  <1>1. name \notin DOMAIN archive
    BY FreeNameIsFree DEF Typed
  <1>2. /\ archive' = Put(archive, name, Fresh(Empty)) /\ disk' = disk
        /\ audited' = audited /\ unaudited' = unaudited /\ pruned' = pruned
        /\ written' = written
    BY DEF Reserve
  <1>3. \A v \in Held : v \in Held'
    <2> HIDE DEF name
    <2> QED
      BY <1>1, <1>2, PutHolds DEF Held
  <1>4. Told \subseteq Told'
    BY <1>2, ToldKept DEF Continue, Undisturbed, Found, Reserve, At
  <1> QED
    BY <1>2, <1>3, <1>4, NoneLost

\* The content goes from its path to the name, which held none.
LEMMA MoveLossless ==
  ASSUME Typed, Undisturbed, Lossless, NEW w \in Workers, Move(w)
  PROVE  Lossless'
  <1> DEFINE name == job[w].name
             path == job[w].path
             file == [disk[path] EXCEPT !.from = path]
  <1>1. /\ archive' = Put(archive, name, file) /\ disk' = Drop(disk, {path})
        /\ path \in DOMAIN disk
        /\ audited' = audited /\ unaudited' = unaudited /\ pruned' = pruned
        /\ written' = written
    BY DEF Move
  <1>2. archive[name].version = Empty /\ job[w].expired = {}
    BY DEF Undisturbed, Found, Move, At
  <1>3. file.version = disk[path].version
    BY <1>1 DEF Typed, Directory, File
  <1>4. ASSUME NEW v \in Held \ {Empty} PROVE v \in Held'
    <2>1. CASE v \in Versions(archive)
      <3> HIDE DEF file
      <3> QED
        BY <1>1, <1>2, <2>1, PutHolds DEF Held
    <2>2. CASE v \in Versions(disk)
      <3>1. v \in Versions(disk') \/ v = disk[path].version
        BY <1>1, <2>2, DropHolds
      <3>2. file.version \in Versions(archive')
        <4> HIDE DEF file
        <4> QED
          BY <1>1, PutAdds
      <3> QED
        BY <1>3, <3>1, <3>2 DEF Held
    <2> QED
      BY <2>1, <2>2 DEF Held
  <1>5. Told \subseteq Told'
    BY <1>1, <1>2, ToldKept DEF Continue
  <1> QED
    BY <1>1, <1>4, <1>5, NoneLost

LEMMA UnreserveLossless ==
  ASSUME Typed, Undisturbed, Lossless, NEW w \in Workers, Unreserve(w)
  PROVE  Lossless'
  <1>1. /\ archive' = Drop(archive, {job[w].name}) /\ disk' = disk
        /\ audited' = audited /\ unaudited' = unaudited /\ pruned' = pruned
        /\ written' = written
    BY DEF Unreserve
  <1>2. archive[job[w].name].version = Empty /\ job[w].expired = {}
    BY DEF Undisturbed, Found, Unreserve, At
  <1>3. \A v \in Held \ {Empty} : v \in Held'
    BY <1>1, <1>2, DropHolds DEF Held
  <1>4. Told \subseteq Told'
    BY <1>1, <1>2, ToldKept DEF Continue
  <1> QED
    BY <1>1, <1>3, <1>4, NoneLost

\* A write creates its file where there is none.
LEMMA WriteLossless ==
  ASSUME Typed, Undisturbed, Lossless, NEW w \in Workers,
         WriteText(w) \/ WriteFails(w)
  PROVE  Lossless'
  <1>1. /\ job[w].path \notin DOMAIN disk /\ job[w].version # Empty /\ job[w].expired = {}
    BY DEF Undisturbed, Found, WriteText, WriteFails, At
  <1>2. /\ archive' = archive /\ audited' = audited /\ unaudited' = unaudited
        /\ pruned' = pruned
    BY DEF WriteText, WriteFails
  <1>3. disk' = disk \/ \E file : disk' = Put(disk, job[w].path, file)
    BY DEF WriteText, WriteFails
  <1>4. \A v \in Held : v \in Held'
    BY <1>1, <1>2, <1>3, PutHolds DEF Held
  <1>5. \A v \in written' \ written : v # Empty /\ v \in Held'
    <2>1. CASE WriteFails(w)
      BY <2>1 DEF WriteFails
    <2>2. CASE WriteText(w)
      <3>1. disk' = Put(disk, job[w].path, Fresh(job[w].version))
            /\ written' = written \cup {job[w].version}
        BY <2>2 DEF WriteText
      <3>2. Fresh(job[w].version).version = job[w].version
        BY DEF Fresh
      <3>3. job[w].version \in Held'
        BY <3>1, <3>2, PutAdds DEF Held
      <3> QED
        BY <1>1, <3>1, <3>3
    <2> QED
      BY <2>1, <2>2
  <1>6. Told \subseteq Told'
    BY <1>1, <1>2, ToldKept DEF Continue
  <1> QED
    BY <1>2, <1>4, <1>5, <1>6, NoneLost

LEMMA RestoreLossless ==
  ASSUME Typed, Undisturbed, Lossless, NEW w \in Workers, RestoreMove(w)
  PROVE  Lossless'
  <1> DEFINE name == job[w].name
             path == job[w].path
             file == [archive[name] EXCEPT !.from = NoPath]
  <1>1. /\ disk' = Put(disk, path, file) /\ archive' = Drop(archive, {name})
        /\ name \in DOMAIN archive
        /\ audited' = audited /\ unaudited' = unaudited /\ pruned' = pruned
        /\ written' = written
    BY DEF RestoreMove
  <1>2. path \notin DOMAIN disk /\ job[w].expired = {}
    BY DEF Undisturbed, Found, RestoreMove, At
  <1>3. file.version = archive[name].version
    BY <1>1 DEF Typed, Directory, File
  <1>4. ASSUME NEW v \in Held \ {Empty} PROVE v \in Held'
    <2>1. CASE v \in Versions(disk)
      <3> HIDE DEF file
      <3> QED
        BY <1>1, <1>2, <2>1, PutHolds DEF Held
    <2>2. CASE v \in Versions(archive)
      <3>1. v \in Versions(archive') \/ v = archive[name].version
        BY <1>1, <2>2, DropHolds
      <3>2. file.version \in Versions(disk')
        <4> HIDE DEF file
        <4> QED
          BY <1>1, PutAdds
      <3> QED
        BY <1>3, <3>1, <3>2 DEF Held
    <2> QED
      BY <2>1, <2>2 DEF Held
  <1>5. Told \subseteq Told'
    BY <1>1, <1>2, ToldKept DEF Continue
  <1> QED
    BY <1>1, <1>4, <1>5, NoneLost

\* A manifest that comes to a free path displaces no content.
LEMMA RestoreManifestLossless ==
  ASSUME Typed, Undisturbed, Lossless, NEW w \in Workers, RestoreManifest(w)
  PROVE  Lossless'
  <1>1. PICK file : disk' = Put(disk, job[w].path, file)
    BY DEF RestoreManifest
  <1>2. /\ archive' = archive /\ audited' = audited /\ unaudited' = unaudited
        /\ pruned' = pruned /\ written' = written
    BY DEF RestoreManifest
  <1>3. job[w].path \notin DOMAIN disk /\ job[w].expired = {}
    BY DEF Undisturbed, Found, RestoreManifest, At
  <1>4. ASSUME NEW v \in Held PROVE v \in Held'
    <2>1. CASE v \in Versions(disk)
      BY <1>1, <1>3, <2>1, PutHolds DEF Held
    <2>2. CASE v \in Versions(archive)
      BY <1>2, <2>2 DEF Held, Versions
    <2> QED
      BY <2>1, <2>2 DEF Held
  <1>5. Told \subseteq Told'
    BY <1>2, <1>3, ToldKept DEF Continue
  <1> QED
    BY <1>2, <1>4, <1>5, NoneLost

\* What a prune unlinks is told, by name, with the version the name held.
LEMMA UnlinkLossless ==
  ASSUME Lossless, NEW names, Unlink(names), disk' = disk, written' = written,
         Told \subseteq Told', names \subseteq Told'
  PROVE  Lossless'
  <1>1. /\ archive' = Drop(archive, names) /\ pruned \subseteq pruned'
        /\ \A n \in names \cap DOMAIN archive :
             [version |-> archive[n].version, name |-> n] \in pruned'
    BY DEF Unlink
  <1>2. ASSUME NEW v \in Held
        PROVE  v \in Held' \/ \E x \in pruned' : x.version = v /\ x.name \in Told'
    <2>1. CASE v \in Versions(disk) \/ v \in Versions(archive')
      BY <2>1 DEF Held
    <2>2. ASSUME NEW n \in names \cap DOMAIN archive, archive[n].version = v
          PROVE  \E x \in pruned' : x.version = v /\ x.name \in Told'
      <3>1. [version |-> v, name |-> n] \in pruned'
        BY <1>1, <2>2
      <3> QED
        BY <3>1
    <2> QED
      BY <1>1, <2>1, <2>2, DropHolds DEF Held
  <1> QED
    BY <1>1, <1>2, NoneLost

LEMMA PruneLossless ==
  ASSUME Typed, Undisturbed, Lossless, NEW w \in Workers,
         Expire(w) \/ Shrink(w) \/ PruneFails(w)
  PROVE  Lossless'
  <1>1. disk' = disk /\ written' = written
    BY DEF Expire, Shrink, PruneFails
  <1>2. job[w].pc = "expire" => job[w].expired = {}
    BY DEF Undisturbed, Found
  <1>3. CASE Expire(w)
    <2>1. Unlink(Stale(w)) /\ job'[w].expired = Stale(w) /\ job[w].expired = {}
          /\ audited' = audited /\ unaudited' = unaudited
      BY <1>2, <1>3 DEF Expire, At, Typed, GoodJob, Job
    <2> QED
      BY <1>1, <2>1, ToldKept, UnlinkLossless DEF Continue
  <1>4. CASE Shrink(w)
    <2>1. PICK names : Unlink(names) /\ audited' = audited \cup job[w].expired \cup names
      BY <1>4, Zenon DEF Shrink
    <2>2. unaudited' = unaudited
      BY <1>4 DEF Shrink
    <2> QED
      BY <1>1, <2>1, <2>2, ToldKept, UnlinkLossless DEF Continue
  <1>5. CASE PruneFails(w)
    <2>1. PICK names : Unlink(names) /\ unaudited' = unaudited \cup job[w].expired \cup names
      <3>1. CASE At(w, "expire")
        <4>1. \E gone : Unlink(gone) /\ unaudited' = unaudited \cup gone
          BY <1>5, <3>1, Zenon DEF PruneFails, At
        <4> QED
          BY <1>2, <3>1, <4>1 DEF At
      <3>2. CASE At(w, "shrink")
        BY <1>5, <3>2, Zenon DEF PruneFails, At
      <3> QED
        BY <1>5, <3>1, <3>2, Zenon DEF PruneFails
    <2>2. audited' = audited
      BY <1>5 DEF PruneFails
    <2> QED
      BY <1>1, <2>1, <2>2, ToldKept, UnlinkLossless DEF Continue
  <1> QED
    BY <1>3, <1>4, <1>5

LEMMA StepLossless ==
  Typed /\ Undisturbed /\ Lossless /\ [Next]_vars => Lossless'
  <1> SUFFICES ASSUME Typed, Undisturbed, Lossless, [Next]_vars PROVE Lossless'
    OBVIOUS
  <1>1. CASE UNCHANGED vars \/ Tick \/ Rest
    BY <1>1 DEF vars, fsVars, Tick, Rest, Lossless, Held, Told, Versions
  <1>2. ASSUME NEW w \in Workers, Begin(w) \/ Continue(w) PROVE Lossless'
    BY <1>2, QuietLossless, ReserveLossless, MoveLossless, UnreserveLossless,
       WriteLossless, RestoreLossless, RestoreManifestLossless, PruneLossless DEF Continue
  <1> QED
    BY <1>1, <1>2 DEF Next

\* Every content write_file reported is at a path, in the archive, or was pruned
\* under a name an archive_pruned event gives or will give, but for a prune that
\* an I/O error cut short: whatever one worker writes, deletes, restores and
\* prunes, or any number of them write and delete apart, and whichever calls
\* fail half-way.
THEOREM NoContentLost == Alone \/ Apart => (Spec => []NothingLost)
  <1> SUFFICES ASSUME Alone \/ Apart PROVE Spec => []NothingLost
    OBVIOUS
  <1>1. Init => Lossless
    BY LosslessInit
  <1>2. Typed /\ Undisturbed /\ Lossless /\ [Next]_vars => Lossless'
    BY StepLossless
  <1> QED
    BY <1>1, <1>2, UndisturbedKept, LosslessIsNothingLost, PTL DEF Spec

-----------------------------------------------------------------------------
(* The caps.  A prune stats what it listed and unlinks from what it statted,*)
(* so its listing must still be the archive when it unlinks.                *)

Listing == {Entry(n) : n \in DOMAIN archive}

SeesAll(j) ==
  /\ j.pc = "stat" => j.names = DOMAIN archive
  /\ j.pc = "expire" => j.listing = Listing
  /\ j.pc = "shrink" =>
       /\ {x \in j.listing : x.name \in DOMAIN archive} = Listing
       /\ \A n \in DOMAIN archive : archive[n].mtime >= j.cutoff

PruneSeesAll == \A w \in Workers : SeesAll(job[w])

LEMMA ListingFinite ==
  ASSUME IsFiniteSet(DOMAIN archive)
  PROVE  IsFiniteSet(Listing)
  <1> DEFINE f == [n \in DOMAIN archive |-> Entry(n)]
  <1>1. f \in Surjection(DOMAIN archive, Listing)
    BY DEF Surjection, Listing
  <1> QED
    BY <1>1, FS_Surjection

LEMMA SeesAllInit == Init => PruneSeesAll
  BY DEF Init, PruneSeesAll, SeesAll, NoJob

LEMMA ExpireSees ==
  ASSUME Typed, NEW w \in Workers, SeesAll(job[w]), Expire(w)
  PROVE  SeesAll(job[w])'
  <1>1. /\ job[w].listing = Listing
        /\ job'[w].pc = "shrink" /\ job'[w].listing = Listing
        /\ job'[w].cutoff = job[w].cutoff /\ job[w].cutoff \in Int
    BY DEF SeesAll, Expire, At, Typed, GoodJob, Job
  <1>2. archive' = Drop(archive, Stale(w))
    BY DEF Expire, Unlink
  <1>3. \A n \in DOMAIN archive' :
          n \in DOMAIN archive /\ n \notin Stale(w) /\ archive'[n] = archive[n]
    BY <1>2 DEF Drop
  <1>4. \A n \in DOMAIN archive : n \notin Stale(w) => n \in DOMAIN archive'
    BY <1>2 DEF Drop
  <1>5. \A n \in DOMAIN archive' : archive'[n].mtime >= job[w].cutoff
    <2> SUFFICES ASSUME NEW n \in DOMAIN archive' PROVE archive[n].mtime >= job[w].cutoff
      BY <1>3
    <2>1. Entry(n) \in job[w].listing
      BY <1>1, <1>3 DEF Listing
    <2>2. Entry(n).name = n /\ Entry(n).mtime = archive[n].mtime
      BY DEF Entry
    <2>3. ~(Entry(n).mtime < job[w].cutoff)
      BY <1>3, <2>1, <2>2 DEF Stale
    <2>4. archive[n].mtime \in Int
      BY <1>3 DEF Typed, Directory, File
    <2> QED
      BY <1>1, <2>2, <2>3, <2>4
  <1>6. {x \in Listing : x.name \in DOMAIN archive'} = Listing'
    <2>1. \A n \in DOMAIN archive' : Entry(n)' = Entry(n)
      BY <1>3 DEF Entry
    <2>2. \A n : Entry(n).name = n
      BY DEF Entry
    <2>3. Listing' = {Entry(n)' : n \in DOMAIN archive'}
      BY DEF Listing
    <2>4. Listing' = {Entry(n) : n \in DOMAIN archive'}
      BY <2>1, <2>3
    <2> QED
      BY <1>3, <2>2, <2>4 DEF Listing
  <1> QED
    BY <1>1, <1>5, <1>6 DEF SeesAll

LEMMA StepSees ==
  ASSUME Typed, NEW w \in Workers, SeesAll(job[w]), Begin(w) \/ Continue(w)
  PROVE  SeesAll(job[w])'
  <1>1. CASE Expire(w)
    BY <1>1, ExpireSees
  <1>2. CASE List(w)
    <2>1. job'[w].pc = "stat" /\ job'[w].names = DOMAIN archive /\ archive' = archive
      BY <1>2 DEF List, Typed, GoodJob, Job, fsVars
    <2> QED
      BY <2>1 DEF SeesAll
  <1>3. CASE Stat(w)
    <2>1. job[w].names = DOMAIN archive
      BY <1>3 DEF Stat, At, SeesAll
    <2>2. job'[w].pc = "expire" /\ job'[w].listing = Listing /\ archive' = archive
      BY <1>3, <2>1 DEF Stat, Typed, GoodJob, Job, fsVars, Listing, Entry
    <2>3. Listing' = Listing
      BY <2>2 DEF Listing, Entry
    <2> QED
      BY <2>2, <2>3 DEF SeesAll
  <1>4. CASE ~Expire(w) /\ ~List(w) /\ ~Stat(w)
    <2>1. job'[w].pc \notin {"stat", "expire", "shrink"}
      BY <1>4, LaterStarts
    <2> QED
      BY <2>1 DEF SeesAll
  <1> QED
    BY <1>1, <1>2, <1>3, <1>4

LEMMA StepSeesAll == Alone /\ Typed /\ PruneSeesAll /\ [Next]_vars => PruneSeesAll'
  <1> SUFFICES ASSUME Alone, Typed, PruneSeesAll, [Next]_vars PROVE PruneSeesAll'
    OBVIOUS
  <1>1. CASE UNCHANGED vars \/ Tick \/ Rest
    BY <1>1 DEF vars, fsVars, Tick, Rest, PruneSeesAll, SeesAll, Listing, Entry
  <1>2. ASSUME NEW w \in Workers, Begin(w) \/ Continue(w) PROVE PruneSeesAll'
    <2>1. SeesAll(job[w])'
      BY <1>2, StepSees DEF PruneSeesAll
    <2> QED
      BY <2>1 DEF Alone, PruneSeesAll
  <1> QED
    BY <1>1, <1>2 DEF Next

\* What is left of a listing that fits is no more than fits.
LEMMA ShrinkFits ==
  ASSUME Typed, NEW w \in Workers, SeesAll(job[w]), Shrink(w)
  PROVE  /\ Cardinality({n \in DOMAIN archive' : archive'[n].version # Empty}) <= Cap
         /\ \A n \in DOMAIN archive' : archive'[n].mtime >= job[w].cutoff
  <1>1. /\ {x \in job[w].listing : x.name \in DOMAIN archive} = Listing
        /\ \A n \in DOMAIN archive : archive[n].mtime >= job[w].cutoff
    BY DEF SeesAll, Shrink, At
  <1>2. PICK over \in OverCap(Listing) : Unlink({x.name : x \in over})
    BY <1>1 DEF Shrink
  <1> DEFINE left == {n \in DOMAIN archive' : archive'[n].version # Empty}
             rest == {x \in Listing \ over : x.size = 1}
  <1>3. Cardinality(rest) <= Cap
    <2>1. CASE Size(Listing) <= Cap
      <3>1. over = {}
        BY <1>2, <2>1 DEF OverCap
      <3>2. rest = {x \in Listing : x.size = 1}
        BY <3>1
      <3> QED
        BY <2>1, <3>2 DEF Size
    <2>2. CASE ~(Size(Listing) <= Cap)
      BY <1>2, <2>2 DEF OverCap, Size
    <2> QED
      BY <2>1, <2>2
  <1>4. \A n \in DOMAIN archive' :
          n \in DOMAIN archive /\ archive'[n] = archive[n] /\ ~\E x \in over : x.name = n
    BY <1>2 DEF Unlink, Drop
  <1>5. \A n \in left : Entry(n) \in rest
    <2> SUFFICES ASSUME NEW n \in left PROVE Entry(n) \in rest
      OBVIOUS
    <2>1. Entry(n).name = n /\ Entry(n).size = 1
      BY <1>4 DEF Entry
    <2>2. Entry(n) \in Listing /\ Entry(n) \notin over
      BY <1>4, <2>1 DEF Listing
    <2> QED
      BY <2>1, <2>2
  <1> DEFINE f == [n \in left |-> Entry(n)]
  <1>6. f \in Injection(left, rest)
    <2>1. f \in [left -> rest]
      <3> HIDE DEF left, rest
      <3> QED
        BY <1>5
    <2>2. \A m, n \in left : f[m] = f[n] => m = n
      <3> HIDE DEF left
      <3> QED
        BY DEF Entry
    <2> HIDE DEF f, left, rest
    <2> QED
      BY <2>1, <2>2 DEF Injection, IsInjective
  <1>7. IsFiniteSet(rest)
    <2>1. IsFiniteSet(Listing)
      BY ListingFinite DEF Typed
    <2>2. rest \in SUBSET Listing
      OBVIOUS
    <2> QED
      BY <2>1, <2>2, FS_Subset
  <1>8. Cardinality(left) <= Cap
    <2> HIDE DEF left, rest, f
    <2>1. IsFiniteSet(left) /\ Cardinality(left) <= Cardinality(rest)
      BY <1>6, <1>7, FS_Injection
    <2>2. Cardinality(left) \in Nat /\ Cardinality(rest) \in Nat
      BY <1>7, <2>1, FS_CardinalityType
    <2> QED
      BY <1>3, <2>1, <2>2, BoundsNatural
  <1> QED
    BY <1>1, <1>4, <1>8

\* Every other way for such a call to end is an I/O error's.
LEMMA EndsByShrinking ==
  ASSUME Typed, NEW w \in Workers, Found(job[w]), SeesAll(job[w]),
         Begin(w) \/ Continue(w),
         Archived(w), job'[w].pc = "idle", faults' = faults
  PROVE  Shrink(w)
  <1>1. ~Fault
    BY DEF Fault, Typed
  <1>2. ~Begin(w)
    BY BeginStarts
  <1>3. ASSUME NEW to \in Step \ {"idle"} PROVE ~Goto(w, to)
    BY DEF Goto, Typed, GoodJob, Job
  <1>4. ~Reserve(w) /\ ~List(w) /\ ~Stat(w) /\ ~Expire(w)
    BY DEF Reserve, List, Stat, Expire, Typed, GoodJob, Job
  <1>5. ~Move(w) /\ ~MoveFails(w) /\ ~Record(w)
    BY <1>3 DEF Move, MoveFails, Record, Step
  <1>6. ~Unreserve(w)
    BY DEF Archived, Unreserve
  <1>7. ~RecordFails(w)
    BY <1>1 DEF RecordFails, Found, At
  <1>8. ~WriteText(w) /\ ~WriteFails(w)
    BY <1>1, <1>3 DEF WriteText, WriteFails, Archived, Step
  <1>9. ~CheckDest(w) /\ ~RestoreMove(w) /\ ~RestoreManifest(w) /\ ~RestoreFails(w)
    BY DEF CheckDest, RestoreMove, RestoreManifest, RestoreFails, Found, Archived, At
  <1>10. ~StatFails(w)
    BY <1>1 DEF StatFails, SeesAll, At
  <1>11. ~PruneFails(w)
    BY <1>1 DEF PruneFails
  <1> QED
    BY <1>2, <1>4, <1>5, <1>6, <1>7, <1>8, <1>9, <1>10, <1>11 DEF Continue

\* On the workspace of one worker, both caps of _prune_archive govern the
\* archive whenever a call that put something into it ends without an I/O
\* error, whatever earlier calls left over the caps.
THEOREM CapsEnforced == Alone => (Spec => PruneEnforcesCaps)
  <1> SUFFICES ASSUME Alone PROVE Spec => PruneEnforcesCaps
    OBVIOUS
  <1> DEFINE Fits(w) ==
        /\ Cardinality({n \in DOMAIN archive' : archive'[n].version # Empty}) <= Cap
        /\ \A n \in DOMAIN archive' : archive'[n].mtime >= job[w].cutoff
  <1>1. Typed /\ Undisturbed /\ PruneSeesAll /\ [Next]_vars =>
          [\A w \in Workers :
             Archived(w) /\ job'[w].pc = "idle" /\ faults' = faults => Fits(w)]_vars
    <2> SUFFICES ASSUME Typed, Undisturbed, PruneSeesAll, Next, NEW w \in Workers,
                        Archived(w), job'[w].pc = "idle", faults' = faults
                 PROVE  Fits(w)
      OBVIOUS
    <2>1. Found(job[w]) /\ SeesAll(job[w])
      BY DEF Undisturbed, PruneSeesAll
    <2>2. job[w].pc # "idle"
      BY <2>1 DEF Found, Archived
    <2>3. ~Tick /\ ~Rest
      BY <2>2 DEF Tick, Rest, At
    <2>4. Begin(w) \/ Continue(w)
      BY <2>3 DEF Next, Alone
    <2>5. Shrink(w)
      BY <2>1, <2>4, EndsByShrinking
    <2> QED
      BY <2>1, <2>5, ShrinkFits
  <1>2. Init => PruneSeesAll
    BY SeesAllInit
  <1>3. Typed /\ PruneSeesAll /\ [Next]_vars => PruneSeesAll'
    BY StepSeesAll
  <1> QED
    BY <1>1, <1>2, <1>3, UndisturbedKept, PTL DEF Spec, PruneEnforcesCaps

-----------------------------------------------------------------------------
(* Restores go home.  While no I/O error strikes, a file without content is *)
(* a reservation still in use, so what a restore can name has its row; and  *)
(* a restore by name alone heads for where the file came from.              *)

Reserved(j, n) == j.pc \in {"move", "unreserve"} /\ j.name = n

HeadsHome(j) ==
  j.pc \in {"dest", "restore"} /\ j.byName /\ j.name \in DOMAIN archive =>
    j.path = archive[j.name].from

Homeward ==
  /\ \A p \in DOMAIN disk : disk[p].version # Empty
  /\ \A n \in DOMAIN archive :
       archive[n].version = Empty => \E w \in Workers : Reserved(job[w], n)
  /\ \A w \in Workers : HeadsHome(job[w])

HomeInv == faults = 0 => Homeward

LEMMA HomewardInit == Init => Homeward
  BY DEF Init, Homeward, HeadsHome, NoJob

\* What the one worker's call must keep.
LEMMA HomewardOf ==
  ASSUME Alone, NEW w \in Workers, Homeward
  PROVE  /\ \A p \in DOMAIN disk : disk[p].version # Empty
         /\ \A n \in DOMAIN archive :
              archive[n].version = Empty => Reserved(job[w], n)
         /\ HeadsHome(job[w])
  BY DEF Alone, Homeward

LEMMA HomewardBy ==
  ASSUME Alone, NEW w \in Workers,
         \A p \in DOMAIN disk' : disk'[p].version # Empty,
         \A n \in DOMAIN archive' :
           archive'[n].version = Empty =>
             job'[w].pc \in {"move", "unreserve"} /\ job'[w].name = n,
         HeadsHome(job[w])'
  PROVE  Homeward'
  BY DEF Alone, Homeward, Reserved

\* A name that lost its row has none left, until a file is archived under it.
Unlisted ==
  /\ \A n \in unlisted : Originals(n) = {}
  /\ \A w \in Workers : job[w].pc = "record" => job[w].name \notin unlisted

LEMMA UnlistedInit == Init => Unlisted
  BY DEF Init, Unlisted, NoJob

LEMMA UnlistedBy ==
  ASSUME Alone, NEW w \in Workers, Unlisted, unlisted' = unlisted, manifest' = manifest,
         job'[w].pc # "record"
  PROVE  Unlisted'
  BY DEF Alone, Unlisted, Originals

LEMMA StepUnlisted == Alone /\ Typed /\ Unlisted /\ [Next]_vars => Unlisted'
  <1> SUFFICES ASSUME Alone, Typed, Unlisted, [Next]_vars PROVE Unlisted'
    OBVIOUS
  <1>1. CASE UNCHANGED vars \/ Tick \/ Rest
    BY <1>1 DEF vars, fsVars, Tick, Rest, Unlisted, Originals
  <1>2. ASSUME NEW w \in Workers, Move(w) PROVE Unlisted'
    <2>1. /\ unlisted' = unlisted \ {job[w].name} /\ manifest' = manifest
          /\ job'[w].name = job[w].name
      BY <1>2 DEF Move, Goto, Typed, GoodJob, Job
    <2> QED
      BY <2>1 DEF Alone, Unlisted, Originals
  <1>3. ASSUME NEW w \in Workers, Record(w) PROVE Unlisted'
    <2>1. /\ unlisted' = unlisted /\ job[w].name \notin unlisted
          /\ job'[w].pc \in {"write", "list"}
      BY <1>3 DEF Record, Goto, At, Unlisted, Typed, GoodJob, Job
    <2>2. \A row \in manifest' : row \in manifest \/ row.name = job[w].name
      BY <1>3 DEF Record
    <2>3. ASSUME NEW n \in unlisted PROVE {x \in manifest' : x.name = n} = {}
      <3>1. {x \in manifest : x.name = n} = {}
        BY DEF Unlisted, Originals
      <3> QED
        BY <2>1, <2>2, <3>1
    <2> QED
      BY <2>1, <2>3 DEF Alone, Unlisted, Originals
  <1>4. ASSUME NEW w \in Workers, RestoreManifest(w) PROVE Unlisted'
    <2>1. manifest' = {} /\ job'[w].pc = "idle"
      BY <1>4 DEF RestoreManifest, Leave, NoJob, Typed
    <2> QED
      BY <2>1 DEF Alone, Unlisted, Originals
  <1>5. ASSUME NEW w \in Workers, Begin(w) \/ Continue(w), ~Move(w), ~Record(w),
               ~RestoreManifest(w)
        PROVE  Unlisted'
    <2>1. unlisted' = unlisted /\ manifest' = manifest
      BY <1>5 DEF Begin, BeginWrite, BeginDelete, BeginRestore, TakeUp, Continue, Reserve,
           MoveFails, Unreserve, RecordFails, WriteText, WriteFails, CheckDest, RestoreMove,
           RestoreFails, List, Stat, StatFails, Expire, Shrink, PruneFails, fsVars
    <2>2. job'[w].pc # "record"
      <3>1. CASE Begin(w)
        BY <3>1, BeginStarts
      <3>2. CASE Leave(w)
        BY <3>2 DEF Leave, NoJob, Typed
      <3>3. CASE \E to \in Step \ {"record"} : Goto(w, to)
        BY <3>3 DEF Goto, Typed, GoodJob, Job
      <3>4. CASE Reserve(w) \/ List(w) \/ Stat(w) \/ Expire(w)
        BY <3>4 DEF Reserve, List, Stat, Expire, Typed, GoodJob, Job
      <3> QED
        BY <1>5, <3>1, <3>2, <3>3, <3>4
           DEF Continue, Step, MoveFails, Unreserve, RecordFails, WriteText, WriteFails,
               CheckDest, RestoreMove, RestoreFails, StatFails, Shrink, PruneFails
    <2> QED
      BY <2>1, <2>2, UnlistedBy
  <1> QED
    BY <1>1, <1>2, <1>3, <1>4, <1>5 DEF Next, Continue

\* A restore by name alone takes its destination from the manifest, which has
\* one path for the name: the path the file came from.
LEMMA BeginHomeward ==
  ASSUME Alone, Typed, Covered, Unlisted, Homeward, NEW w \in Workers, Begin(w)
  PROVE  Homeward'
  <1>1. job[w].pc = "idle" /\ disk' = disk /\ archive' = archive
    BY DEF Begin, BeginWrite, BeginDelete, BeginRestore, TakeUp, At, fsVars
  <1>2. \A n \in DOMAIN archive : archive[n].version # Empty
    BY <1>1, HomewardOf DEF Reserved
  <1>3. \A n \in DOMAIN archive :
          archive[n].from \in Originals(n) \/ Originals(n) = {}
    BY <1>1, <1>2 DEF Alone, Covered, Owned, Unlisted
  <1>4. ASSUME NEW n \in DOMAIN archive \cup {ManifestName},
               NEW to \in MayTouch[w] \cup {NoPath},
               BeginRestore(w, n, to)
        PROVE  HeadsHome(job[w])'
    <2>1. PICK dest \in IF to # NoPath THEN {to}
                        ELSE {p \in Originals(n) : Originals(n) = {p}} :
            TakeUp(w, "restore", [NoJob EXCEPT !.pc = "dest", !.path = dest,
                                    !.name = n, !.byName = to = NoPath])
      BY <1>4, Zenon DEF BeginRestore
    <2>2. to = NoPath /\ n \in DOMAIN archive => dest = archive[n].from
      BY <1>3, <2>1
    <2> DEFINE b == to = NoPath
    <2>3. b /\ n \in DOMAIN archive => dest = archive[n].from
      BY <2>2
    <2> HIDE DEF b
    <2>4. job'[w] = [[NoJob EXCEPT !.pc = "dest", !.path = dest, !.name = n, !.byName = b]
                       EXCEPT !.op = "restore", !.began = now]
      BY <2>1 DEF TakeUp, Typed, b
    <2>5. job'[w].path = dest /\ job'[w].name = n /\ job'[w].byName = b
      BY <2>4 DEF NoJob
    <2> QED
      BY <1>1, <2>3, <2>5 DEF HeadsHome
  <1>5. ASSUME NEW p \in MayTouch[w], BeginWrite(w, p) \/ BeginDelete(w, p)
        PROVE  HeadsHome(job[w])'
    <2>1. job'[w].byName = FALSE
      <3>1. CASE BeginWrite(w, p)
        <4> DEFINE first == IF p \in DOMAIN disk THEN "reserve" ELSE "write"
        <4>1. job'[w] = [[NoJob EXCEPT !.pc = first, !.path = p, !.version = calls + 1]
                           EXCEPT !.op = "write", !.began = now]
          BY <3>1 DEF BeginWrite, TakeUp, Typed
        <4> HIDE DEF first
        <4> QED
          BY <4>1 DEF NoJob
      <3>2. CASE BeginDelete(w, p)
        BY <3>2 DEF BeginDelete, TakeUp, Typed, NoJob
      <3> QED
        BY <1>5, <3>1, <3>2
    <2> QED
      BY <2>1 DEF HeadsHome
  <1>6. HeadsHome(job[w])'
    BY <1>4, <1>5 DEF Begin
  <1>7. \A p \in DOMAIN disk' : disk'[p].version # Empty
    BY <1>1, HomewardOf
  <1> QED
    BY <1>1, <1>2, <1>6, <1>7, HomewardBy

LEMMA ReserveHomeward ==
  ASSUME Alone, Typed, Homeward, NEW w \in Workers, Reserve(w)
  PROVE  Homeward'
  <1> DEFINE name == FreeName(job[w].path)
  <1>1. /\ archive' = Put(archive, name, Fresh(Empty)) /\ disk' = disk
        /\ job'[w] = [job[w] EXCEPT !.pc = "move", !.name = name]
        /\ job[w].pc = "reserve" /\ job[w] \in Job
    BY DEF Reserve, Typed, At, GoodJob
  <1> HIDE DEF name
  <1>2. job'[w].pc = "move" /\ job'[w].name = name
    BY <1>1 DEF Job
  <1>3. \A n \in DOMAIN archive : archive[n].version # Empty
    BY <1>1, HomewardOf DEF Reserved
  <1>4. \A n \in DOMAIN archive' \ {name} : archive'[n].version # Empty
    BY <1>1, <1>3 DEF Put
  <1>5. HeadsHome(job[w])'
    BY <1>2 DEF HeadsHome
  <1>6. \A p \in DOMAIN disk' : disk'[p].version # Empty
    BY <1>1, HomewardOf
  <1> QED
    BY <1>2, <1>4, <1>5, <1>6, HomewardBy

LEMMA MoveHomeward ==
  ASSUME Alone, Typed, Homeward, NEW w \in Workers, Move(w)
  PROVE  Homeward'
  <1> DEFINE name == job[w].name
             path == job[w].path
             file == [disk[path] EXCEPT !.from = path]
  <1>1. /\ archive' = Put(archive, name, file) /\ disk' = Drop(disk, {path})
        /\ path \in DOMAIN disk
        /\ job'[w].pc = "record"
    BY DEF Move, Goto, Typed, GoodJob, Job
  <1>2. file.version # Empty
    <2>1. file.version = disk[path].version
      BY <1>1 DEF Typed, Directory, File
    <2> QED
      BY <1>1, <2>1, HomewardOf
  <1> HIDE DEF file
  <1>3. \A n \in DOMAIN archive' : archive'[n].version # Empty
    <2>1. \A n \in DOMAIN archive \ {name} : archive[n].version # Empty
      BY HomewardOf DEF Reserved
    <2> QED
      BY <1>1, <1>2, <2>1 DEF Put
  <1>4. \A p \in DOMAIN disk' : disk'[p].version # Empty
    BY <1>1, HomewardOf DEF Drop
  <1>5. HeadsHome(job[w])'
    BY <1>1 DEF HeadsHome
  <1> QED
    BY <1>3, <1>4, <1>5, HomewardBy

\* Moving a call on, with the files as they were, or ending it.
LEMMA QuietHomeward ==
  ASSUME Alone, Typed, Homeward, NEW w \in Workers,
         \/ MoveFails(w) \/ Record(w) \/ RecordFails(w)
         \/ CheckDest(w) \/ RestoreFails(w) \/ List(w) \/ Stat(w) \/ StatFails(w)
  PROVE  Homeward'
  <1>1. disk' = disk /\ archive' = archive
    BY DEF MoveFails, Record, RecordFails, CheckDest, RestoreFails, List, Stat, StatFails,
           fsVars
  <1>2. job[w] \in Job
    BY DEF Typed, GoodJob
  <1>3. CASE MoveFails(w)
    <2>1. job[w].pc = "move" /\ job'[w].pc = "unreserve" /\ job'[w].name = job[w].name
      BY <1>2, <1>3 DEF MoveFails, Goto, At, Typed, Job
    <2>2. HeadsHome(job[w])'
      BY <2>1 DEF HeadsHome
    <2> QED
      BY <1>1, <2>1, <2>2, HomewardOf, HomewardBy DEF Reserved
  <1>4. CASE ~MoveFails(w)
    <2>1. job[w].pc \notin {"move", "unreserve"}
      BY <1>4 DEF Record, RecordFails, CheckDest, RestoreFails, List, Stat, StatFails, At
    <2>2. HeadsHome(job[w])'
      <3>1. CASE CheckDest(w) /\ ~Leave(w)
        <4>1. /\ job'[w].byName = job[w].byName /\ job'[w].name = job[w].name
              /\ job'[w].path = job[w].path /\ job[w].pc = "dest"
          BY <1>2, <3>1 DEF CheckDest, Goto, Typed, Job, At
        <4> QED
          BY <1>1, <4>1, HomewardOf DEF HeadsHome
      <3>2. CASE Leave(w)
        <4>1. job'[w].pc = "idle"
          BY <3>2 DEF Leave, NoJob, Typed
        <4> QED
          BY <4>1 DEF HeadsHome
      <3>3. CASE Record(w) \/ List(w) \/ Stat(w)
        <4>1. job'[w].pc \in {"write", "list", "stat", "expire"}
          BY <1>2, <3>3 DEF Record, List, Stat, Goto, Typed, Job
        <4> QED
          BY <4>1 DEF HeadsHome
      <3> QED
        BY <1>4, <3>1, <3>2, <3>3 DEF RecordFails, RestoreFails, StatFails
    <2> QED
      BY <1>1, <2>1, <2>2, HomewardOf, HomewardBy DEF Reserved
  <1> QED
    BY <1>3, <1>4

\* Steps that put a content on the disk or take files out of the archive.
LEMMA OtherHomeward ==
  ASSUME Alone, Typed, Undisturbed, Homeward, faults' = faults, NEW w \in Workers,
         \/ Unreserve(w) \/ WriteText(w) \/ WriteFails(w)
         \/ RestoreMove(w) \/ RestoreManifest(w)
         \/ Expire(w) \/ Shrink(w) \/ PruneFails(w)
  PROVE  Homeward'
  <1>1. ~WriteFails(w)
    BY DEF WriteFails, Fault, Typed
  <1>2. \A n \in DOMAIN archive' : archive'[n].version # Empty
    <2>1. CASE Unreserve(w)
      <3>1. \A n \in DOMAIN archive' :
              n \in DOMAIN archive /\ n # job[w].name /\ archive'[n] = archive[n]
        BY <2>1 DEF Unreserve, Drop
      <3> QED
        BY <3>1, HomewardOf DEF Reserved
    <2>2. CASE ~Unreserve(w)
      <3>1. job[w].pc \notin {"move", "unreserve"}
        BY <1>1, <2>2 DEF WriteText, RestoreMove, RestoreManifest, Expire, Shrink,
               PruneFails, At
      <3>2. archive' = archive \/ \E names : archive' = Drop(archive, names)
        BY <1>1, <2>2 DEF WriteText, RestoreMove, RestoreManifest, Expire, Shrink,
               PruneFails, Unlink
      <3>3. \A n \in DOMAIN archive' : n \in DOMAIN archive /\ archive'[n] = archive[n]
        BY <3>2 DEF Drop
      <3> QED
        BY <3>1, <3>3, HomewardOf DEF Reserved
    <2> QED
      BY <2>1, <2>2
  <1>3. \A p \in DOMAIN disk' : disk'[p].version # Empty
    <2>1. CASE WriteText(w)
      <3>1. disk' = Put(disk, job[w].path, Fresh(job[w].version))
        BY <2>1 DEF WriteText
      <3>2. Fresh(job[w].version).version # Empty
        BY <2>1 DEF Fresh, Undisturbed, Found, WriteText, At
      <3> HIDE DEF Fresh
      <3> QED
        BY <3>1, <3>2, HomewardOf DEF Put
    <2>2. CASE RestoreMove(w)
      <3> DEFINE file == [archive[job[w].name] EXCEPT !.from = NoPath]
      <3>1. disk' = Put(disk, job[w].path, file) /\ job[w].name \in DOMAIN archive
        BY <2>2 DEF RestoreMove
      <3>2. file.version = archive[job[w].name].version
        BY <3>1 DEF Typed, Directory, File
      <3>3. archive[job[w].name].version # Empty
        BY <2>2, <3>1, HomewardOf DEF Reserved, RestoreMove, At
      <3> HIDE DEF file
      <3> QED
        BY <3>1, <3>2, <3>3, HomewardOf DEF Put
    <2>3. CASE RestoreManifest(w)
      <3>1. PICK mtime : disk' = Put(disk, job[w].path,
                           [version |-> ManifestText, mtime |-> mtime, from |-> NoPath])
        BY <2>3 DEF RestoreManifest
      <3>2. ManifestText # Empty
        BY BoundsNatural DEF ManifestText, Empty
      <3> QED
        BY <3>1, <3>2, HomewardOf DEF Put
    <2>4. CASE ~WriteText(w) /\ ~RestoreMove(w) /\ ~RestoreManifest(w)
      <3>1. disk' = disk
        BY <1>1, <2>4 DEF Unreserve, Expire, Shrink, PruneFails
      <3> QED
        BY <3>1, HomewardOf
    <2> QED
      BY <2>1, <2>2, <2>3, <2>4
  <1>4. HeadsHome(job[w])'
    <2>1. job'[w].pc \in {"idle", "list", "shrink"}
      BY <1>1 DEF Unreserve, WriteText, RestoreMove, RestoreManifest, Expire, Shrink,
             PruneFails, Leave, Goto, NoJob, Typed, GoodJob, Job
    <2> QED
      BY <2>1 DEF HeadsHome
  <1> QED
    BY <1>2, <1>3, <1>4, HomewardBy

LEMMA StepHomeward ==
  Alone /\ Typed /\ Undisturbed /\ CoverInv /\ Unlisted /\ HomeInv /\ [Next]_vars =>
    HomeInv'
  <1> SUFFICES ASSUME Alone, Typed, Undisturbed, CoverInv, Unlisted, HomeInv,
                      [Next]_vars, faults' = 0
               PROVE  Homeward'
    BY DEF HomeInv
  <1>1. faults = 0 /\ Covered /\ Homeward
    BY FaultsStay DEF CoverInv, HomeInv
  <1>2. CASE UNCHANGED vars \/ Tick \/ Rest
    BY <1>1, <1>2 DEF vars, fsVars, Tick, Rest, Homeward, HeadsHome, Reserved
  <1>3. ASSUME NEW w \in Workers, Begin(w) \/ Continue(w) PROVE Homeward'
    BY <1>1, <1>3, BeginHomeward, ReserveHomeward, MoveHomeward, QuietHomeward,
       OtherHomeward DEF Continue
  <1> QED
    BY <1>2, <1>3 DEF Next

\* On the workspace of one worker, while no I/O error strikes, a restore by name
\* alone puts the file back where it was taken from, however often its path
\* and its archive name were used again.
THEOREM RestoresGoHome == Alone => (Spec => RestoreGoesHome)
  <1> SUFFICES ASSUME Alone PROVE Spec => RestoreGoesHome
    OBVIOUS
  <1>1. Init => CoverInv /\ Unlisted /\ HomeInv
    BY CoveredInit, UnlistedInit, HomewardInit DEF CoverInv, HomeInv
  <1>2. Typed /\ Undisturbed /\ CoverInv /\ Unlisted /\ HomeInv /\ [Next]_vars =>
          (CoverInv /\ Unlisted /\ HomeInv)'
    BY StepCovers, StepUnlisted, StepHomeward
  <1>3. HomeInv /\ [Next]_vars =>
          [\A w \in Workers :
             RestoreMove(w) /\ job[w].byName /\ faults = 0 =>
               job[w].path = archive[job[w].name].from]_vars
    BY DEF HomeInv, Homeward, HeadsHome, RestoreMove, At
  <1> QED
    BY <1>1, <1>2, <1>3, UndisturbedKept, PTL DEF Spec, RestoreGoesHome
=============================================================================
