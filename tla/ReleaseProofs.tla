---------------------------- MODULE ReleaseProofs ----------------------------
(***************************************************************************)
(* Proofs about Release, for any builders, publishers, commits, command    *)
(* lines and interference.                                                 *)
(***************************************************************************)
EXTENDS Release, TLAPS

-----------------------------------------------------------------------------
(* Types.                                                                  *)

LEMMA FreshTyped ==
  ASSUME NEW b \in Builders, NEW t \in Trees
  PROVE  Fresh(b, t) \in [Artifacts -> Bytes]
  BY DEF Fresh, Bytes

LEMMA IdleTyped ==
  /\ \A b \in Builders : IdleJob(b) \in Job
  /\ IdlePub \in Pub
  <1>1. AnyOrder(BuildOrders) \in BuildOrder /\ AnyOrder(PublishOrders) \in PublishOrder
    BY ObjectsAssumption DEF AnyOrder
  <1>2. TreeOf[AnyOrder(BuildOrders).commit] \in Trees
    BY <1>1, ObjectsAssumption DEF BuildOrder
  <1>3. \A b \in Builders : IdleJob(b) \in Job
    BY <1>1, <1>2, FreshTyped DEF IdleJob, Job, JobPhase
  <1>4. IdlePub \in Pub
    BY <1>1 DEF IdlePub, Pub, PubPhase
  <1> QED
    BY <1>3, <1>4

LEMMA InitTyped == Init => TypeOK
  BY IdleTyped, ObjectsAssumption, BudgetsAssumption DEF Init, TypeOK

LEMMA RefuseTyped ==
  ASSUME TypeOK, NEW b \in Builders
  PROVE  /\ Refuse(b) => job' \in [Builders -> Job]
         /\ \A ph \in JobPhase : Goto(b, ph) => job' \in [Builders -> Job]
  <1>1. [IdleJob(b) EXCEPT !.phase = "refused"] \in Job
    BY IdleTyped DEF Job, JobPhase
  <1>2. Refuse(b) => job' \in [Builders -> Job]
    BY <1>1 DEF Refuse, TypeOK
  <1>3. ASSUME NEW ph \in JobPhase, Goto(b, ph) PROVE job' \in [Builders -> Job]
    <2>1. [job[b] EXCEPT !.phase = ph] \in Job
      <3>1. job[b] \in Job
        BY DEF TypeOK
      <3> QED
        BY <3>1 DEF Job
    <2> QED
      BY <1>3, <2>1 DEF Goto, TypeOK
  <1> QED
    BY <1>2, <1>3

LEMMA EvidenceTyped ==
  ASSUME TypeOK, NEW b \in Builders
  PROVE  EvidenceOf(b) \in Record
  <1>1. job[b] \in Job
    BY DEF TypeOK
  <1> QED
    BY <1>1 DEF EvidenceOf, Record, Job, BuildOrder

\* Writing leaves a file of the directory, and a record or what is not one.
LEMMA WritingTyped ==
  ASSUME TypeOK, NEW b \in Builders
  PROVE  /\ \A a \in Artifacts : dir[a] # Absent =>
              Closed(dir[a].bytes, job[b].candidate[a]) \subseteq Content
         /\ Closed(record, EvidenceOf(b)) \subseteq Record \cup {Absent, Torn, Mixed}
         /\ \A f : Opened(f) \in {Torn, Mixed}
  BY EvidenceTyped DEF TypeOK, Closed, Opened, Content, File, Job, Names

\* What the tests leave of an artifact is bytes again.
LEMMA EditTyped ==
  ASSUME NEW x \in [Artifacts -> Bytes], NEW touched
  PROVE  [a \in Artifacts |-> [x[a] EXCEPT !.edited = a \in touched]]
           \in [Artifacts -> Bytes]
  <1>1. \A y \in Bytes, e \in BOOLEAN : [y EXCEPT !.edited = e] \in Bytes
    BY DEF Bytes
  <1>2. \A a \in Artifacts : (a \in touched) \in BOOLEAN
    OBVIOUS
  <1> QED
    BY <1>1, <1>2, Zenon

LEMMA JobTyped ==
  ASSUME TypeOK, NEW b \in Builders, JobStep(b)
  PROVE  TypeOK'
  <1>j. job[b] \in Job
    BY DEF TypeOK
  <1>1. CASE \E o \in BuildOrders : StartBuild(b, o)
    <2> PICK o \in BuildOrders : StartBuild(b, o)
      BY <1>1
    <2>1. job' \in [Builders -> Job]
      <3>1. o \in BuildOrder
        BY ObjectsAssumption
      <3>2. [job[b] EXCEPT !.order = o, !.phase = "head"] \in Job
        BY <3>1, <1>j DEF Job, JobPhase
      <3> QED
        BY <3>2, RefuseTyped DEF StartBuild, TypeOK
    <2> QED
      BY <2>1 DEF StartBuild, TypeOK
  <1>2. CASE InspectHead(b) \/ InspectStatus(b) \/ CheckOutput(b)
    BY <1>2, RefuseTyped DEF InspectHead, InspectStatus, CheckOutput, JobOnly, TypeOK, JobPhase
  <1>3. CASE InspectTree(b)
    <2>1. TreeOf[repo.head] \in Trees
      BY ObjectsAssumption DEF TypeOK, Checkout
    <2>2. [job[b] EXCEPT !.commit_tree = TreeOf[repo.head], !.phase = "index"] \in Job
      BY <2>1, <1>j DEF Job, JobPhase
    <2> QED
      BY <1>3, <2>2 DEF InspectTree, JobOnly, TypeOK
  <1>4. CASE InspectIndex(b)
    <2>1. [job[b] EXCEPT !.identity = job[b].commit_tree, !.phase = "copy",
                         !.at = "wheel"] \in Job
      BY <1>j DEF Job, JobPhase, Artifacts
    <2>2. [job[b] EXCEPT !.identity = job[b].commit_tree, !.phase = "output",
                         !.at = "none"] \in Job
      BY <1>j DEF Job, JobPhase, Artifacts
    <2>3. job' \in [Builders -> Job]
      <3>1. CASE job[b].final
        BY <1>4, <2>1, <3>1, RefuseTyped DEF InspectIndex, TypeOK
      <3>2. CASE ~job[b].final
        BY <1>4, <2>2, <3>2, RefuseTyped DEF InspectIndex, TypeOK
      <3> QED
        BY <3>1, <3>2
    <2> QED
      BY <1>4, <2>3 DEF InspectIndex, JobOnly, TypeOK
  <1>5. CASE Build(b)
    <2>1. Fresh(b, TreeOf[job[b].order.commit]) \in [Artifacts -> Bytes]
      BY <1>j, ObjectsAssumption, FreshTyped DEF Job, BuildOrder
    <2>2. [job[b] EXCEPT !.candidate = Fresh(b, TreeOf[job[b].order.commit]),
                         !.digests = Fresh(b, TreeOf[job[b].order.commit]),
                         !.phase = "gates"] \in Job
      BY <2>1, <1>j DEF Job, JobPhase
    <2> QED
      BY <1>5, <2>2 DEF Build, JobOnly, TypeOK
  <1>6. CASE RunGates(b)
    <2>1. job' \in [Builders -> Job]
      <3>1. CASE Refuse(b)
        BY <3>1, RefuseTyped
      <3>2. CASE ~Refuse(b)
        <4> PICK touched \in SUBSET Artifacts :
              job' = [job EXCEPT
                ![b].ran = Required(job[b].order),
                ![b].phase = "recheck",
                ![b].candidate = [a \in Artifacts |->
                   [@[a] EXCEPT !.edited = a \in touched]]]
          BY <1>6, <3>2 DEF RunGates
        <4> DEFINE left_by == [a \in Artifacts |->
                     [job[b].candidate[a] EXCEPT !.edited = a \in touched]]
        <4>1. left_by \in [Artifacts -> Bytes]
          <5>1. job[b].candidate \in [Artifacts -> Bytes]
            BY <1>j DEF Job
          <5> QED
            BY <5>1, EditTyped
        <4>2. Required(job[b].order) \subseteq GatesAndPack
          BY DEF Required, GatesAndPack
        <4>3. job' = [job EXCEPT ![b] = [job[b] EXCEPT
                 !.ran = Required(job[b].order), !.phase = "recheck",
                 !.candidate = left_by]]
          OBVIOUS
        <4> HIDE DEF left_by
        <4>4. [job[b] EXCEPT !.ran = Required(job[b].order), !.phase = "recheck",
                             !.candidate = left_by] \in Job
          BY <4>1, <4>2, <1>j DEF Job, JobPhase
        <4> QED
          BY <4>3, <4>4 DEF TypeOK
      <3> QED
        BY <3>1, <3>2
    <2> QED
      BY <1>6, <2>1 DEF RunGates, JobOnly, TypeOK
  <1>7. CASE CommandFails(b)
    BY <1>7, RefuseTyped DEF CommandFails, JobOnly, TypeOK
  <1>8. CASE Recheck(b)
    <2>1. [job[b] EXCEPT !.phase = "head", !.final = TRUE] \in Job
      BY <1>j DEF Job, JobPhase
    <2>2. job' \in [Builders -> Job]
      BY <1>8, <2>1, RefuseTyped DEF Recheck, TypeOK
    <2> QED
      BY <1>8, <2>2 DEF Recheck, JobOnly, TypeOK
  <1>9. CASE OpenCopy(b)
    <2>1. dir' \in [Names -> File \cup {Absent}]
      BY <1>9, WritingTyped DEF OpenCopy, TypeOK, File, Content
    <2>2. job' \in [Builders -> Job]
      BY <1>9, RefuseTyped DEF OpenCopy, JobPhase
    <2> QED
      BY <1>9, <2>1, <2>2 DEF OpenCopy, TypeOK, Exposed
  <1>10. CASE CloseCopy(b)
    <2> DEFINE a == job[b].at
    <2> PICK c \in Closed(dir[a].bytes, job[b].candidate[a]) :
          dir' = [dir EXCEPT ![a].bytes = c]
      BY <1>10 DEF CloseCopy
    <2>1. a \in Artifacts => dir' \in [Names -> File \cup {Absent}]
      <3> SUFFICES ASSUME a \in Artifacts PROVE dir' \in [Names -> File \cup {Absent}]
        OBVIOUS
      <3>1. a \in Names /\ dir[a] \in File
        BY <1>10 DEF CloseCopy, TypeOK, Names
      <3>2. c \in Content
        BY <1>10, WritingTyped DEF CloseCopy
      <3>3. [dir[a] EXCEPT !.bytes = c] \in File
        BY <3>1, <3>2 DEF File
      <3> QED
        BY <3>1, <3>3 DEF TypeOK
    <2>2. a \notin Artifacts => dir' = dir
      <3>1. a \in Artifacts \cup {"none"}
        BY <1>j DEF Job
      <3>2. a \notin Artifacts => a \notin Names
        BY <3>1, SpecialsAssumption DEF Names
      <3> QED
        BY <3>2 DEF TypeOK
    <2>3. job' \in [Builders -> Job]
      <3>1. After(a) \in Artifacts \cup {"none"}
        BY DEF After, Artifacts
      <3>2. [job[b] EXCEPT !.at = After(a),
               !.phase = IF After(a) = "none" THEN "record" ELSE "copy"] \in Job
        BY <3>1, <1>j DEF Job, JobPhase
      <3> QED
        BY <1>10, <3>2 DEF CloseCopy, TypeOK
    <2> QED
      BY <1>10, <2>1, <2>2, <2>3 DEF CloseCopy, TypeOK, Exposed
  <1>11. CASE OpenRecord(b)
    BY <1>11, RefuseTyped, WritingTyped DEF OpenRecord, TypeOK, JobPhase
  <1>12. CASE CloseRecord(b)
    BY <1>12, RefuseTyped, WritingTyped DEF CloseRecord, TypeOK, JobPhase
  <1> QED
    BY <1>1, <1>2, <1>3, <1>4, <1>5, <1>6, <1>7, <1>8, <1>9, <1>10, <1>11, <1>12
    DEF JobStep

LEMMA PubTyped ==
  ASSUME TypeOK, NEW p \in Publishers, PubStep(p)
  PROVE  TypeOK'
  <1>p. pub[p] \in Pub
    BY DEF TypeOK
  <1>r. PubRefuse(p) => pub' \in [Publishers -> Pub]
    <2>1. [IdlePub EXCEPT !.phase = "refused"] \in Pub
      BY IdleTyped DEF Pub, PubPhase
    <2> QED
      BY <2>1 DEF PubRefuse, TypeOK
  <1>g. ASSUME NEW ph \in PubPhase, PubGoto(p, ph)
        PROVE  pub' \in [Publishers -> Pub]
    <2>1. [pub[p] EXCEPT !.phase = ph] \in Pub
      BY <1>p DEF Pub
    <2> QED
      BY <1>g, <2>1 DEF PubGoto, TypeOK
  <1>1. CASE \E o \in PublishOrders : StartPublish(p, o)
    <2> PICK o \in PublishOrders : StartPublish(p, o)
      BY <1>1
    <2>1. [pub[p] EXCEPT !.order = o, !.phase = "load"] \in Pub
      BY <1>p, ObjectsAssumption DEF Pub, PubPhase
    <2> QED
      BY <2>1 DEF StartPublish, PubOnly, TypeOK
  <1>2. CASE LoadRecord(p)
    <2>1. record \in Record =>
            [pub[p] EXCEPT !.record = record, !.phase = "links"] \in Pub
      BY <1>p DEF Pub, PubPhase
    <2>2. pub' \in [Publishers -> Pub]
      BY <1>2, <2>1, <1>r DEF LoadRecord, TypeOK
    <2> QED
      BY <1>2, <2>2 DEF LoadRecord, PubOnly, TypeOK
  <1>3. CASE CheckLinks(p)
    <2>1. pub' \in [Publishers -> Pub]
      BY <1>3, <1>r, <1>g DEF CheckLinks, PubPhase
    <2> QED
      BY <1>3, <2>1 DEF CheckLinks, PubOnly, TypeOK
  <1>4. CASE CheckUnnamed(p)
    <2>1. [pub[p] EXCEPT !.phase = "verify", !.at = "wheel"] \in Pub
      BY <1>p DEF Pub, PubPhase, Artifacts
    <2>2. pub' \in [Publishers -> Pub]
      BY <1>4, <2>1, <1>r DEF CheckUnnamed, TypeOK
    <2> QED
      BY <1>4, <2>2 DEF CheckUnnamed, PubOnly, TypeOK
  <1>5. CASE VerifyFile(p)
    <2> DEFINE a == pub[p].at
               next == IF After(a) = "none" THEN "wheel" ELSE After(a)
               ph == IF After(a) # "none" THEN "verify"
                     ELSE IF pub[p].order.dry_run THEN "rehearsed" ELSE "upload"
    <2>1. a \in Artifacts /\ dir[a] # Absent =>
            [pub[p] EXCEPT !.checked[a] = dir[a].bytes, !.at = next, !.phase = ph] \in Pub
      <3> SUFFICES ASSUME a \in Artifacts, dir[a] # Absent
                   PROVE  [pub[p] EXCEPT !.checked[a] = dir[a].bytes,
                                         !.at = next, !.phase = ph] \in Pub
        OBVIOUS
      <3>1. dir[a].bytes \in Content
        BY DEF TypeOK, Names, File
      <3>2. [pub[p].checked EXCEPT ![a] = dir[a].bytes]
              \in [Artifacts -> Content \cup {Absent}]
        BY <3>1, <1>p DEF Pub
      <3>3. next \in Artifacts \cup {"none"}
        BY DEF After, Artifacts
      <3>4. ph \in PubPhase
        BY DEF PubPhase
      <3> HIDE DEF next, ph
      <3> QED
        BY <3>2, <3>3, <3>4, <1>p DEF Pub
    <2>2. a \notin Artifacts =>
            [pub[p] EXCEPT !.checked[a] = dir[a].bytes, !.at = next, !.phase = ph] \in Pub
      <3> SUFFICES ASSUME a \notin Artifacts
                   PROVE  [pub[p] EXCEPT !.checked[a] = dir[a].bytes,
                                         !.at = next, !.phase = ph] \in Pub
        OBVIOUS
      <3>2. [pub[p].checked EXCEPT ![a] = dir[a].bytes]
              \in [Artifacts -> Content \cup {Absent}]
        BY <1>p DEF Pub
      <3>3. next \in Artifacts \cup {"none"}
        BY DEF After, Artifacts
      <3>4. ph \in PubPhase
        BY DEF PubPhase
      <3> HIDE DEF next, ph
      <3> QED
        BY <3>2, <3>3, <3>4, <1>p DEF Pub
    <2>3. Matches(p, a) => pub' = [pub EXCEPT ![p] =
            [pub[p] EXCEPT !.checked[a] = dir[a].bytes, !.at = next, !.phase = ph]]
      BY <1>5 DEF VerifyFile
    <2>4. ~Matches(p, a) => PubRefuse(p)
      BY <1>5 DEF VerifyFile
    <2> HIDE DEF next, ph
    <2>5. pub' \in [Publishers -> Pub]
      BY <2>1, <2>2, <2>3, <2>4, <1>r DEF Matches, TypeOK
    <2> QED
      BY <1>5, <2>5 DEF VerifyFile, PubOnly, TypeOK
  <1>6. CASE UploadFile(p)
    <2> DEFINE a == pub[p].at
    <2>1. [pub[p] EXCEPT !.at = After(a),
             !.phase = IF After(a) = "none" THEN "published" ELSE "upload"] \in Pub
      BY <1>p DEF Pub, PubPhase, After, Artifacts
    <2>2. pub' \in [Publishers -> Pub]
      BY <1>6, <2>1 DEF UploadFile, TypeOK
    <2>3. index' \in [Artifacts -> Entry \cup {Absent}]
      BY <1>6, <1>p DEF UploadFile, Sendable, Arrive, TypeOK, Entry, Names, File, Pub
    <2> QED
      BY <1>6, <2>2, <2>3 DEF UploadFile, TypeOK
  <1>7. CASE UploadFails(p)
    BY <1>7, <1>g DEF UploadFails, PubOnly, TypeOK, PubPhase
  <1>8. CASE AnswerLost(p)
    <2>1. index' \in [Artifacts -> Entry \cup {Absent}]
      BY <1>8, <1>p DEF AnswerLost, Sendable, Arrive, TypeOK, Entry, Names, File, Pub
    <2>2. pub' \in [Publishers -> Pub]
      BY <1>8, <1>g DEF AnswerLost, PubPhase
    <2> QED
      BY <1>8, <2>1, <2>2 DEF AnswerLost, TypeOK
  <1> QED
    BY <1>1, <1>2, <1>3, <1>4, <1>5, <1>6, <1>7, <1>8 DEF PubStep

LEMMA EnvironmentTyped == TypeOK /\ Environment => TypeOK'
  <1> SUFFICES ASSUME TypeOK, Environment PROVE TypeOK'
    OBVIOUS
  <1>1. CASE \E c \in Checkouts : Move(c)
    BY <1>1, ObjectsAssumption DEF Move, TypeOK
  <1>2. \A names : Disturbed(names) =>
          /\ left' \in [moves : Nat, writes : Nat]
          /\ overtaken' \subseteq Publishers
          /\ UNCHANGED <<repo, job, pub, index>>
    BY DEF Disturbed, TypeOK, Exposed
  <1>3. CASE \E n \in Names : Remove(n) \/ Link(n)
    <2> PICK n \in Names : Remove(n) \/ Link(n)
      BY <1>3
    <2>1. dir' \in [Names -> File \cup {Absent}]
      <3>1. dir[n] # Absent => [dir[n] EXCEPT !.kind = "hardlink"] \in File
        BY DEF TypeOK, File
      <3> QED
        BY <3>1 DEF Remove, Link, TypeOK
    <2> QED
      BY <2>1, <1>2 DEF Remove, Link, TypeOK
  <1>4. CASE \E n \in Names, kind \in {"plain", "symlink"} : Drop(n, kind)
    <2> PICK n \in Names, kind \in {"plain", "symlink"} : Drop(n, kind)
      BY <1>4
    <2>1. dir' \in [Names -> File \cup {Absent}]
      BY DEF Drop, TypeOK, File, Content
    <2> QED
      BY <2>1, <1>2 DEF Drop, TypeOK
  <1>5. CASE Empty
    BY <1>5, <1>2 DEF Empty, TypeOK
  <1> QED
    BY <1>1, <1>3, <1>4, <1>5 DEF Environment

LEMMA StepTyped == TypeOK /\ [Next]_vars => TypeOK'
  BY JobTyped, PubTyped, EnvironmentTyped DEF Next, vars, TypeOK

\* Every variable keeps its type.
THEOREM TypeCorrect == Spec => []TypeOK
  BY InitTyped, StepTyped, PTL DEF Spec

-----------------------------------------------------------------------------
(* What a builder has established at each phase.                           *)

Writing == {"copy", "copying", "record", "recording", "done"}

JobOk(b, j) ==
  /\ j.phase \notin {"off", "refused"} /\ j.order.candidate => j.order.ref # "pull"
  /\ j.phase \in {"off", "output", "build", "gates", "recheck", "refused"} => ~j.final
  /\ j.phase \in Writing => j.final
  /\ j.phase \in {"gates", "recheck"} \/ j.final =>
       j.digests = Fresh(b, TreeOf[j.order.commit])
  /\ j.phase = "recheck" \/ j.final => j.ran = Required(j.order)
  /\ j.final => j.candidate = j.digests

JobsInv == \A b \in Builders : JobOk(b, job[b])

LEMMA RefusedOk ==
  ASSUME NEW b \in Builders
  PROVE  /\ JobOk(b, IdleJob(b))
         /\ JobOk(b, [IdleJob(b) EXCEPT !.phase = "refused"])
  BY DEF JobOk, IdleJob, Writing

\* A step of one builder leaves the others alone, and a finished builder
\* takes none.
LEMMA OneBuilder ==
  ASSUME TypeOK, NEW b \in Builders, JobStep(b)
  PROVE  /\ \A w \in Builders \ {b} : job'[w] = job[w]
         /\ job[b].phase # "done"
         /\ UNCHANGED <<pub, index>>
  BY DEF JobStep, StartBuild, InspectHead, InspectStatus, InspectTree,
     InspectIndex, CheckOutput, Build, RunGates, CommandFails, Recheck,
     OpenCopy, CloseCopy, OpenRecord, CloseRecord, JobOnly, JobAt, Goto,
     Refuse, TypeOK

LEMMA JobStepOk ==
  ASSUME TypeOK, NEW b \in Builders, JobOk(b, job[b]), JobStep(b)
  PROVE  JobOk(b, job'[b])
  <1>j. job[b] \in Job
    BY DEF TypeOK
  <1>r. Refuse(b) => JobOk(b, job'[b])
    BY RefusedOk DEF Refuse, TypeOK
  <1>g. ASSUME NEW ph, Goto(b, ph)
        PROVE  /\ job'[b].phase = ph /\ job'[b].final = job[b].final
               /\ job'[b].order = job[b].order /\ job'[b].ran = job[b].ran
               /\ job'[b].candidate = job[b].candidate
               /\ job'[b].digests = job[b].digests
    <2>1. job'[b] = [job[b] EXCEPT !.phase = ph]
      BY <1>g DEF Goto, TypeOK
    <2> QED
      BY <2>1, <1>j DEF Job
  <1>1. CASE \E o \in BuildOrders : StartBuild(b, o)
    <2> PICK o \in BuildOrders : StartBuild(b, o)
      BY <1>1
    <2>1. CASE ~(o.candidate /\ o.ref = "pull")
      <3>1. job'[b] = [job[b] EXCEPT !.order = o, !.phase = "head"]
        BY <2>1 DEF StartBuild, TypeOK
      <3> QED
        BY <3>1, <2>1, <1>j DEF StartBuild, JobAt, JobOk, Job, Writing
    <2> QED
      BY <2>1, <1>r DEF StartBuild
  <1>2. CASE InspectHead(b) \/ InspectStatus(b) \/ CheckOutput(b)
    <2>1. CASE Refuse(b)
      BY <2>1, <1>r
    <2>2. CASE Goto(b, "status") /\ job[b].phase = "head"
      BY <2>2, <1>g DEF JobOk, Writing
    <2>3. CASE Goto(b, "tree") /\ job[b].phase = "status"
      BY <2>3, <1>g DEF JobOk, Writing
    <2>4. CASE Goto(b, "build") /\ job[b].phase = "output"
      BY <2>4, <1>g DEF JobOk, Writing
    <2> QED
      BY <1>2, <2>1, <2>2, <2>3, <2>4 DEF InspectHead, InspectStatus, CheckOutput, JobAt
  <1>3. CASE InspectTree(b)
    <2>1. job'[b] = [job[b] EXCEPT !.commit_tree = TreeOf[repo.head], !.phase = "index"]
      BY <1>3 DEF InspectTree, TypeOK
    <2> QED
      BY <2>1, <1>3, <1>j DEF InspectTree, JobAt, JobOk, Job, Writing
  <1>4. CASE InspectIndex(b)
    <2>1. CASE Refuse(b)
      BY <2>1, <1>r
    <2>2. CASE ~Refuse(b)
      <3>1. job'[b] = [job[b] EXCEPT
              !.identity = job[b].commit_tree,
              !.phase = IF job[b].final THEN "copy" ELSE "output",
              !.at = IF job[b].final THEN "wheel" ELSE "none"]
        BY <1>4, <2>2 DEF InspectIndex, TypeOK
      <3> QED
        BY <3>1, <1>4, <1>j DEF InspectIndex, JobAt, JobOk, Job, Writing
    <2> QED
      BY <2>1, <2>2
  <1>5. CASE Build(b)
    <2> DEFINE made == Fresh(b, TreeOf[job[b].order.commit])
    <2>1. job'[b] = [job[b] EXCEPT !.candidate = made, !.digests = made,
                                   !.phase = "gates"]
      BY <1>5 DEF Build, TypeOK
    <2> QED
      BY <2>1, <1>5, <1>j DEF Build, JobAt, JobOk, Job, Writing
  <1>6. CASE RunGates(b)
    <2>1. CASE Refuse(b)
      BY <2>1, <1>r
    <2>2. CASE ~Refuse(b)
      <3>p. PICK touched \in SUBSET Artifacts :
            job' = [job EXCEPT
              ![b].ran = Required(job[b].order),
              ![b].phase = "recheck",
              ![b].candidate = [a \in Artifacts |->
                 [@[a] EXCEPT !.edited = a \in touched]]]
        BY <1>6, <2>2 DEF RunGates
      <3> DEFINE left_by == [a \in Artifacts |->
                   [job[b].candidate[a] EXCEPT !.edited = a \in touched]]
      <3>1. job'[b] = [job[b] EXCEPT !.ran = Required(job[b].order),
                         !.phase = "recheck", !.candidate = left_by]
        BY <3>p DEF TypeOK
      <3> HIDE DEF left_by
      <3>2. /\ job'[b].phase = "recheck" /\ job'[b].final = job[b].final
            /\ job'[b].order = job[b].order
            /\ job'[b].ran = Required(job[b].order)
            /\ job'[b].digests = job[b].digests
        BY <3>1, <1>j DEF Job
      <3> QED
        BY <3>2, <1>6 DEF RunGates, JobAt, JobOk, Writing
    <2> QED
      BY <2>1, <2>2
  <1>7. CASE CommandFails(b)
    BY <1>7, <1>r DEF CommandFails
  <1>8. CASE Recheck(b)
    <2>1. CASE job[b].candidate = job[b].digests
      <3>1. job'[b] = [job[b] EXCEPT !.phase = "head", !.final = TRUE]
        BY <1>8, <2>1 DEF Recheck, TypeOK
      <3>2. /\ job'[b].phase = "head" /\ job'[b].final
            /\ job'[b].order = job[b].order /\ job'[b].ran = job[b].ran
            /\ job'[b].candidate = job[b].candidate
            /\ job'[b].digests = job[b].digests
        BY <3>1, <1>j DEF Job
      <3> QED
        BY <3>2, <2>1, <1>8 DEF Recheck, JobAt, JobOk, Writing
    <2> QED
      BY <2>1, <1>8, <1>r DEF Recheck
  <1>9. CASE OpenCopy(b) \/ OpenRecord(b) \/ CloseRecord(b)
    <2>1. CASE Goto(b, "copying") /\ job[b].phase = "copy"
      BY <2>1, <1>g DEF JobOk, Writing
    <2>2. CASE Goto(b, "recording") /\ job[b].phase = "record"
      BY <2>2, <1>g DEF JobOk, Writing
    <2>3. CASE Goto(b, "done") /\ job[b].phase = "recording"
      BY <2>3, <1>g DEF JobOk, Writing
    <2> QED
      BY <1>9, <2>1, <2>2, <2>3 DEF OpenCopy, OpenRecord, CloseRecord, JobAt
  <1>10. CASE CloseCopy(b)
    <2>1. job'[b] = [job[b] EXCEPT !.at = After(job[b].at),
            !.phase = IF After(job[b].at) = "none" THEN "record" ELSE "copy"]
      BY <1>10 DEF CloseCopy, TypeOK
    <2> QED
      BY <2>1, <1>10, <1>j DEF CloseCopy, JobAt, JobOk, Job, Writing
  <1> QED
    BY <1>1, <1>2, <1>3, <1>4, <1>5, <1>6, <1>7, <1>8, <1>9, <1>10 DEF JobStep

\* Steps of publishers and of the environment are none of the builders.
LEMMA OtherStepsKeepJobs ==
  ASSUME (\E p \in Publishers : PubStep(p)) \/ Environment \/ UNCHANGED vars
  PROVE  UNCHANGED job
  BY DEF PubStep, StartPublish, LoadRecord, CheckLinks, CheckUnnamed,
     VerifyFile, UploadFile, UploadFails, AnswerLost, PubOnly, Environment,
     Move, Drop, Remove, Link, Empty, Disturbed, vars

LEMMA JobsKept == TypeOK /\ JobsInv /\ [Next]_vars => JobsInv'
  <1> SUFFICES ASSUME TypeOK, JobsInv, [Next]_vars, NEW w \in Builders
               PROVE  JobOk(w, job'[w])
    BY DEF JobsInv, JobOk
  <1>1. ASSUME NEW b \in Builders, JobStep(b) PROVE JobOk(w, job'[w])
    BY <1>1, JobStepOk, OneBuilder DEF JobsInv
  <1>2. CASE UNCHANGED job
    BY <1>2 DEF JobsInv
  <1> QED
    BY <1>1, <1>2, OtherStepsKeepJobs DEF Next

LEMMA DoneStays ==
  ASSUME TypeOK, [Next]_vars, NEW b \in Builders, job[b].phase = "done"
  PROVE  job'[b] = job[b]
  BY OneBuilder, OtherStepsKeepJobs DEF Next

-----------------------------------------------------------------------------
(* The record: whoever reads it whole reads what a finished builder wrote. *)

Honest(r) == r.build \in Builders /\ job[r.build].phase = "done"
             /\ r = EvidenceOf(r.build)

LEMMA HonestTested ==
  ASSUME TypeOK, JobsInv, NEW r \in Record, Honest(r)
  PROVE  /\ r.release_complete
         /\ r.candidate = job[r.build].order.candidate
         /\ r.candidate => job[r.build].order.ref # "pull"
         /\ \A a \in Artifacts : TestedBy(r.artifacts[a], a, r.build, r.commit)
  <1> DEFINE b == r.build
  <1>1. b \in Builders /\ job[b] \in Job /\ job[b].phase = "done" /\ JobOk(b, job[b])
    BY DEF Honest, TypeOK, JobsInv
  <1>2. job[b].final /\ job[b].order.candidate => job[b].order.ref # "pull"
    BY <1>1 DEF JobOk
  <1>3. /\ job[b].digests = Fresh(b, TreeOf[job[b].order.commit])
        /\ job[b].candidate = job[b].digests
        /\ job[b].ran = Required(job[b].order)
        /\ job[b].order.candidate => job[b].order.ref # "pull"
    BY <1>1 DEF JobOk, Writing
  <1>4. /\ r.commit = job[b].order.commit
        /\ r.artifacts = job[b].digests
        /\ r.candidate = job[b].order.candidate
        /\ r.release_complete =
             ({"distribution_matrix", "full_suite"} \subseteq job[b].ran)
    BY DEF Honest, EvidenceOf
  <1>5. {"distribution_matrix", "full_suite"} \subseteq Required(job[b].order)
    BY DEF Required, Gates, GatesAndPack
  <1>6. \A a \in Artifacts : TestedBy(r.artifacts[a], a, b, r.commit)
    BY <1>3, <1>4 DEF TestedBy
  <1> QED
    BY <1>3, <1>4, <1>5, <1>6

LEMMA HonestStays ==
  ASSUME TypeOK, [Next]_vars, NEW r, Honest(r)
  PROVE  Honest(r)'
  <1>1. job'[r.build] = job[r.build]
    BY DoneStays DEF Honest
  <1>2. EvidenceOf(r.build)' = EvidenceOf(r.build)
    BY <1>1 DEF EvidenceOf
  <1> QED
    BY <1>1, <1>2 DEF Honest

RecordInv == record \in Record => Honest(record)

\* Only CloseRecord puts a whole record in place.
LEMMA RecordWriters ==
  ASSUME TypeOK, [Next]_vars
  PROVE  \/ record' = record
         \/ record' \in {Absent, Torn, Mixed}
         \/ \E b \in Builders : CloseRecord(b) /\ record' = EvidenceOf(b)
  <1>1. CASE \E b \in Builders : JobStep(b)
    <2> PICK b \in Builders : JobStep(b)
      BY <1>1
    <2>1. CASE OpenRecord(b) \/ CloseRecord(b)
      BY <2>1 DEF OpenRecord, CloseRecord, Opened, Closed
    <2>2. CASE ~(OpenRecord(b) \/ CloseRecord(b))
      BY <2>2 DEF JobStep, StartBuild, InspectHead, InspectStatus, InspectTree,
         InspectIndex, CheckOutput, Build, RunGates, CommandFails, Recheck,
         OpenCopy, CloseCopy, JobOnly
    <2> QED
      BY <2>1, <2>2
  <1>2. CASE \E p \in Publishers : PubStep(p)
    BY <1>2 DEF PubStep, StartPublish, LoadRecord, CheckLinks, CheckUnnamed,
       VerifyFile, UploadFile, UploadFails, AnswerLost, PubOnly
  <1>3. CASE Environment
    BY <1>3 DEF Environment, Move, Drop, Remove, Link, Empty, Disturbed
  <1> QED
    BY <1>1, <1>2, <1>3 DEF Next, vars

LEMMA RecordKept == TypeOK /\ RecordInv /\ [Next]_vars => RecordInv'
  <1> SUFFICES ASSUME TypeOK, RecordInv, [Next]_vars, record' \in Record
               PROVE  Honest(record)'
    BY DEF RecordInv
  <1>1. CASE record' = record
    BY <1>1, HonestStays DEF RecordInv, Honest, EvidenceOf
  <1>2. CASE \E b \in Builders : CloseRecord(b) /\ record' = EvidenceOf(b)
    <2> PICK b \in Builders : CloseRecord(b) /\ record' = EvidenceOf(b)
      BY <1>2
    <2>1. job'[b] = [job[b] EXCEPT !.phase = "done"] /\ job[b] \in Job
      BY DEF CloseRecord, Goto, TypeOK
    <2>2. /\ job'[b].phase = "done" /\ job'[b].order = job[b].order
          /\ job'[b].identity = job[b].identity /\ job'[b].ran = job[b].ran
          /\ job'[b].digests = job[b].digests
      BY <2>1 DEF Job
    <2>3. record'.build = b
      BY DEF EvidenceOf
    <2>4. EvidenceOf(b)' = EvidenceOf(b)
      BY <2>2 DEF EvidenceOf
    <2> QED
      BY <2>2, <2>3, <2>4 DEF Honest
  <1>3. record' \notin {Absent, Torn, Mixed}
    BY SpecialsAssumption
  <1> QED
    BY <1>1, <1>2, <1>3, RecordWriters

-----------------------------------------------------------------------------
(* What a publisher has established at each phase.                         *)

Cleared == {"rehearsed", "upload", "published", "failed"}
Loaded == {"links", "unnamed", "verify"} \cup Cleared

\* Of one publisher's state q, apart from the honesty of its record.
PubOk(q) ==
  /\ q.phase \in Loaded => q.record \in Record /\ Permits(q.record, q.order)
  /\ q.phase \in {"off", "load", "links", "unnamed"} =>
       \A a \in Artifacts : q.checked[a] = Absent
  /\ q.phase = "verify" =>
       /\ q.at \in Artifacts
       /\ q.at = "sdist" => q.checked["wheel"] = q.record.artifacts["wheel"]
       /\ q.at = "wheel" => q.checked["wheel"] = Absent
       /\ q.checked["sdist"] = Absent
  /\ q.phase \in Cleared =>
       \A a \in Artifacts : q.checked[a] = q.record.artifacts[a]
  /\ q.phase = "upload" => q.at \in Artifacts

PubsInv ==
  \A p \in Publishers :
    /\ PubOk(pub[p])
    /\ pub[p].phase \in Loaded => Honest(pub[p].record)

LEMMA OnePublisher ==
  ASSUME TypeOK, NEW p \in Publishers, PubStep(p)
  PROVE  /\ \A w \in Publishers \ {p} : pub'[w] = pub[w]
         /\ UNCHANGED <<dir, record, job, overtaken>>
  BY DEF PubStep, StartPublish, LoadRecord, CheckLinks, CheckUnnamed,
     VerifyFile, UploadFile, UploadFails, AnswerLost, PubOnly, PubGoto,
     PubRefuse, TypeOK

LEMMA OtherStepsKeepPubs ==
  ASSUME (\E b \in Builders : JobStep(b)) \/ Environment \/ UNCHANGED vars
  PROVE  UNCHANGED <<pub, index>>
  BY DEF JobStep, StartBuild, InspectHead, InspectStatus, InspectTree,
     InspectIndex, CheckOutput, Build, RunGates, CommandFails, Recheck,
     OpenCopy, CloseCopy, OpenRecord, CloseRecord, JobOnly, Environment,
     Move, Drop, Remove, Link, Empty, Disturbed, vars

LEMMA PubStepOk ==
  ASSUME TypeOK, RecordInv, NEW p \in Publishers, PubStep(p),
         PubOk(pub[p]), pub[p].phase \in Loaded => Honest(pub[p].record)
  PROVE  /\ PubOk(pub'[p])
         /\ pub'[p].phase \in Loaded => Honest(pub'[p].record)
  <1>p. pub[p] \in Pub
    BY DEF TypeOK
  <1>r. ASSUME PubRefuse(p)
        PROVE  PubOk(pub'[p]) /\ pub'[p].phase \notin Loaded
    <2>1. pub'[p] = [IdlePub EXCEPT !.phase = "refused"]
      BY <1>r DEF PubRefuse, TypeOK
    <2>2. pub'[p].phase = "refused"
      BY <2>1 DEF IdlePub
    <2> QED
      BY <2>2 DEF PubOk, Loaded, Cleared
  <1>g. ASSUME NEW ph, PubGoto(p, ph)
        PROVE  /\ pub'[p].phase = ph /\ pub'[p].order = pub[p].order
               /\ pub'[p].record = pub[p].record /\ pub'[p].at = pub[p].at
               /\ pub'[p].checked = pub[p].checked
    <2>1. pub'[p] = [pub[p] EXCEPT !.phase = ph]
      BY <1>g DEF PubGoto, TypeOK
    <2> QED
      BY <2>1, <1>p DEF Pub
  <1>1. CASE \E o \in PublishOrders : StartPublish(p, o)
    <2>p. PICK o \in PublishOrders : StartPublish(p, o)
      BY <1>1
    <2>1. pub'[p] = [pub[p] EXCEPT !.order = o, !.phase = "load"]
      BY <2>p DEF StartPublish, TypeOK
    <2>2. pub'[p].phase = "load" /\ pub'[p].checked = pub[p].checked
      BY <2>1, <1>p DEF Pub
    <2> QED
      BY <2>p, <2>2 DEF StartPublish, PubAt, PubOk, Loaded, Cleared
  <1>2. CASE LoadRecord(p)
    <2>1. CASE record \in Record /\ Permits(record, pub[p].order)
      <3>1. pub'[p] = [pub[p] EXCEPT !.record = record, !.phase = "links"]
        BY <1>2, <2>1 DEF LoadRecord, TypeOK
      <3>2. /\ pub'[p].record = record /\ pub'[p].phase = "links"
            /\ pub'[p].order = pub[p].order
            /\ pub'[p].checked = pub[p].checked
        BY <3>1, <1>p DEF Pub
      <3> QED
        BY <3>2, <2>1, <1>2 DEF LoadRecord, PubAt, PubOk, Loaded, Cleared, RecordInv
    <2> QED
      BY <2>1, <1>2, <1>r DEF LoadRecord
  <1>3. CASE CheckLinks(p)
    <2>1. CASE PubGoto(p, "unnamed")
      BY <2>1, <1>3, <1>g DEF CheckLinks, PubAt, PubOk, Loaded, Cleared
    <2> QED
      BY <2>1, <1>3, <1>r DEF CheckLinks
  <1>4. CASE CheckUnnamed(p)
    <2>1. CASE {n \in Names : dir[n] # Absent} \subseteq Artifacts
      <3>1. pub'[p] = [pub[p] EXCEPT !.phase = "verify", !.at = "wheel"]
        BY <1>4, <2>1 DEF CheckUnnamed, TypeOK
      <3>2. /\ pub'[p].phase = "verify" /\ pub'[p].at = "wheel"
            /\ pub'[p].record = pub[p].record /\ pub'[p].order = pub[p].order
            /\ pub'[p].checked = pub[p].checked
        BY <3>1, <1>p DEF Pub
      <3> QED
        BY <3>2, <1>4 DEF CheckUnnamed, PubAt, PubOk, Loaded, Cleared, Artifacts
    <2> QED
      BY <2>1, <1>4, <1>r DEF CheckUnnamed
  <1>5. CASE VerifyFile(p)
    <2> DEFINE a == pub[p].at
               next == IF After(a) = "none" THEN "wheel" ELSE After(a)
               ph == IF After(a) # "none" THEN "verify"
                     ELSE IF pub[p].order.dry_run THEN "rehearsed" ELSE "upload"
    <2>1. CASE Matches(p, a)
      <3>1. pub'[p] = [pub[p] EXCEPT !.checked[a] = dir[a].bytes, !.at = next,
                                     !.phase = ph]
        BY <1>5, <2>1 DEF VerifyFile, TypeOK
      <3>2. /\ a \in Artifacts /\ pub[p].phase = "verify"
            /\ dir[a].bytes = pub[p].record.artifacts[a]
            /\ pub[p].record \in Record /\ Permits(pub[p].record, pub[p].order)
            /\ Honest(pub[p].record)
        BY <1>5, <2>1 DEF VerifyFile, Matches, PubAt, PubOk, Loaded
      <3> HIDE DEF next, ph
      <3>3. /\ pub'[p].phase = ph /\ pub'[p].at = next
            /\ pub'[p].record = pub[p].record /\ pub'[p].order = pub[p].order
            /\ pub'[p].checked = [pub[p].checked EXCEPT ![a] = dir[a].bytes]
        BY <3>1, <1>p DEF Pub
      <3>4. pub[p].checked \in [Artifacts -> Content \cup {Absent}]
        BY <1>p DEF Pub
      <3>5. CASE a = "wheel"
        <4>1. ph = "verify" /\ next = "sdist"
          BY <3>5 DEF ph, next, After
        <4>2. /\ pub'[p].checked["wheel"] = pub[p].record.artifacts["wheel"]
              /\ pub'[p].checked["sdist"] = Absent
          BY <3>2, <3>3, <3>4, <3>5 DEF Artifacts, PubOk
        <4> QED
          BY <3>2, <3>3, <4>1, <4>2 DEF PubOk, Loaded, Cleared, Artifacts
      <3>6. CASE a = "sdist"
        <4>1. ph \in {"rehearsed", "upload"} /\ next = "wheel"
          BY <3>6 DEF ph, next, After
        <4>2. \A c \in Artifacts : pub'[p].checked[c] = pub[p].record.artifacts[c]
          BY <3>2, <3>3, <3>4, <3>6 DEF Artifacts, PubOk
        <4> QED
          BY <3>2, <3>3, <4>1, <4>2 DEF PubOk, Loaded, Cleared, Artifacts
      <3> QED
        BY <3>2, <3>5, <3>6 DEF Artifacts
    <2> QED
      BY <2>1, <1>5, <1>r DEF VerifyFile
  <1>6. CASE UploadFile(p)
    <2> DEFINE next == After(pub[p].at)
    <2>1. pub'[p] = [pub[p] EXCEPT !.at = next,
                       !.phase = IF next = "none" THEN "published" ELSE "upload"]
      BY <1>6 DEF UploadFile, TypeOK
    <2>2. next = "none" \/ next \in Artifacts
      BY DEF After, Artifacts
    <2> HIDE DEF next
    <2>3. /\ pub'[p].phase = IF next = "none" THEN "published" ELSE "upload"
          /\ pub'[p].at = next
          /\ pub'[p].record = pub[p].record /\ pub'[p].order = pub[p].order
          /\ pub'[p].checked = pub[p].checked
      BY <2>1, <1>p DEF Pub
    <2> QED
      BY <2>2, <2>3, <1>6 DEF UploadFile, PubAt, PubOk, Loaded, Cleared
  <1>7. CASE UploadFails(p) \/ AnswerLost(p)
    <2>1. PubGoto(p, "failed") /\ pub[p].phase = "upload"
      BY <1>7 DEF UploadFails, AnswerLost, PubAt
    <2> QED
      BY <2>1, <1>g DEF PubOk, Loaded, Cleared
  <1> QED
    BY <1>1, <1>2, <1>3, <1>4, <1>5, <1>6, <1>7 DEF PubStep

LEMMA PubsKept == TypeOK /\ RecordInv /\ PubsInv /\ [Next]_vars => PubsInv'
  <1> SUFFICES ASSUME TypeOK, RecordInv, PubsInv, [Next]_vars, NEW w \in Publishers
               PROVE  /\ PubOk(pub'[w])
                      /\ pub'[w].phase \in Loaded =>
                           /\ pub'[w].record.build \in Builders
                           /\ job'[pub'[w].record.build].phase = "done"
                           /\ pub'[w].record = EvidenceOf(pub[w].record.build)'
    BY DEF PubsInv, PubOk, Loaded, Cleared, Permits, Honest
  <1>1. /\ PubOk(pub'[w])
        /\ pub'[w].phase \in Loaded => Honest(pub'[w].record)
    <2>1. ASSUME NEW p \in Publishers, PubStep(p)
          PROVE  /\ PubOk(pub'[w])
                 /\ pub'[w].phase \in Loaded => Honest(pub'[w].record)
      BY <2>1, PubStepOk, OnePublisher DEF PubsInv
    <2> QED
      BY <2>1, OtherStepsKeepPubs DEF Next, PubsInv
  <1>2. ASSUME NEW r, Honest(r), r = pub'[w].record
        PROVE  /\ r.build \in Builders /\ job'[r.build].phase = "done"
               /\ r = EvidenceOf(r.build)'
    BY <1>2, HonestStays DEF Honest
  <1> QED
    BY <1>1, <1>2 DEF EvidenceOf

-----------------------------------------------------------------------------
(* From the check to the upload: a checked file is still what was checked, *)
(* or its publisher is in overtaken.                                       *)

\* Of a publisher's state q: what Pending makes of it.
PendingIn(q) ==
  {a \in Artifacts :
     /\ q.checked[a] # Absent
     /\ \/ q.phase = "verify"
        \/ q.phase = "upload" /\ a \in {q.at, After(q.at)}}

WindowInv ==
  \A p \in Publishers \ overtaken : \A a \in PendingIn(pub[p]) :
    dir[a] # Absent /\ dir[a].bytes = pub[p].checked[a]

\* Whoever writes to the directory writes to some names, and every publisher
\* with such a file pending is marked.
LEMMA WritersAreSeen ==
  ASSUME TypeOK, [Next]_vars
  PROVE  \E names \in SUBSET Names :
           /\ \A n \in Names \ names : dir'[n] = dir[n]
           /\ overtaken' = overtaken \cup Exposed(names)
  <1>0. Exposed({}) = {}
    BY DEF Exposed
  <1>1. ASSUME UNCHANGED <<dir, overtaken>>
        PROVE  /\ \A n \in Names \ {} : dir'[n] = dir[n]
               /\ overtaken' = overtaken \cup Exposed({})
    BY <1>0, <1>1
  <1>2. CASE \E b \in Builders : JobStep(b)
    <2> PICK b \in Builders : JobStep(b)
      BY <1>2
    <2>1. CASE OpenCopy(b) \/ CloseCopy(b)
      <3> DEFINE names == {job[b].at} \cap Names
      <3>1. Exposed({job[b].at}) = Exposed(names)
        BY DEF Exposed, Pending, Names
      <3>2. /\ \A n \in Names \ names : dir'[n] = dir[n]
            /\ overtaken' = overtaken \cup Exposed(names)
        BY <2>1, <3>1 DEF OpenCopy, CloseCopy, TypeOK
      <3> QED
        BY <3>2
    <2>2. CASE ~(OpenCopy(b) \/ CloseCopy(b))
      <3>1. UNCHANGED <<dir, overtaken>>
        BY <2>2 DEF JobStep, StartBuild, InspectHead, InspectStatus, InspectTree,
           InspectIndex, CheckOutput, Build, RunGates, CommandFails, Recheck,
           OpenRecord, CloseRecord, JobOnly
      <3> QED
        BY <3>1, <1>1
    <2> QED
      BY <2>1, <2>2
  <1>3. CASE (\E p \in Publishers : PubStep(p)) \/ UNCHANGED vars
    <2>1. UNCHANGED <<dir, overtaken>>
      BY <1>3, OnePublisher DEF vars
    <2> QED
      BY <2>1, <1>1
  <1>4. CASE Environment
    <2>1. CASE \E c \in Checkouts : Move(c)
      <3>1. UNCHANGED <<dir, overtaken>>
        BY <2>1 DEF Move
      <3> QED
        BY <3>1, <1>1
    <2>2. CASE \E n \in Names : Remove(n) \/ Link(n)
      <3> PICK n \in Names : Remove(n) \/ Link(n)
        BY <2>2
      <3>1. /\ \A m \in Names \ {n} : dir'[m] = dir[m]
            /\ overtaken' = overtaken \cup Exposed({n})
        BY DEF Remove, Link, Disturbed, TypeOK
      <3> QED
        BY <3>1
    <2>3. CASE \E n \in Names, kind \in {"plain", "symlink"} : Drop(n, kind)
      <3> PICK n \in Names, kind \in {"plain", "symlink"} : Drop(n, kind)
        BY <2>3
      <3>1. /\ \A m \in Names \ {n} : dir'[m] = dir[m]
            /\ overtaken' = overtaken \cup Exposed({n})
        BY DEF Drop, Disturbed, TypeOK
      <3> QED
        BY <3>1
    <2>4. CASE Empty
      BY <2>4 DEF Empty, Disturbed
    <2> QED
      BY <1>4, <2>1, <2>2, <2>3, <2>4 DEF Environment
  <1> QED
    BY <1>2, <1>3, <1>4 DEF Next

\* The ways into verification and upload.
LEMMA IntoTheWindow ==
  ASSUME TypeOK, NEW p \in Publishers, PubStep(p), ~UploadFile(p),
         pub'[p].phase \in {"verify", "upload"}
  PROVE  /\ ~PubRefuse(p)
         /\ \/ /\ CheckUnnamed(p)
               /\ pub'[p] = [pub[p] EXCEPT !.phase = "verify", !.at = "wheel"]
            \/ VerifyFile(p)
  <1>p. pub[p] \in Pub
    BY DEF TypeOK
  <1>r. ~PubRefuse(p)
    BY DEF PubRefuse, IdlePub, TypeOK
  <1>1. ASSUME NEW ph, PubGoto(p, ph) PROVE pub'[p].phase = ph
    <2>1. pub'[p] = [pub[p] EXCEPT !.phase = ph]
      BY <1>1 DEF PubGoto, TypeOK
    <2> QED
      BY <2>1, <1>p DEF Pub
  <1>2. ~LoadRecord(p)
    <2> SUFFICES ASSUME LoadRecord(p) PROVE FALSE
      OBVIOUS
    <2>1. pub'[p] = [pub[p] EXCEPT !.record = record, !.phase = "links"]
      BY <1>r DEF LoadRecord, TypeOK
    <2> QED
      BY <2>1, <1>p DEF Pub
  <1>3. ~\E o \in PublishOrders : StartPublish(p, o)
    <2> SUFFICES ASSUME NEW o \in PublishOrders, StartPublish(p, o) PROVE FALSE
      OBVIOUS
    <2>1. pub'[p] = [pub[p] EXCEPT !.order = o, !.phase = "load"]
      BY DEF StartPublish, TypeOK
    <2> QED
      BY <2>1, <1>p DEF Pub
  <1>4. ~CheckLinks(p) /\ ~UploadFails(p) /\ ~AnswerLost(p)
    BY <1>1, <1>r DEF CheckLinks, UploadFails, AnswerLost
  <1>5. CheckUnnamed(p) =>
          pub'[p] = [pub[p] EXCEPT !.phase = "verify", !.at = "wheel"]
    BY <1>r DEF CheckUnnamed, TypeOK
  <1> QED
    BY <1>r, <1>2, <1>3, <1>4, <1>5 DEF PubStep

LEMMA WindowKeptByPublisher ==
  ASSUME TypeOK, PubsInv, WindowInv, NEW p \in Publishers, PubStep(p),
         p \notin overtaken, NEW c \in PendingIn(pub'[p])
  PROVE  dir[c] # Absent /\ dir[c].bytes = pub'[p].checked[c]
  <1>p. pub[p] \in Pub /\ PubOk(pub[p])
    BY DEF TypeOK, PubsInv
  <1>c. c \in Artifacts /\ pub'[p].checked[c] # Absent /\ pub'[p].phase \in {"verify", "upload"}
    BY DEF PendingIn
  <1>r. ~PubRefuse(p)
    <2>1. PubRefuse(p) => pub'[p].phase = "refused"
      BY DEF PubRefuse, IdlePub, TypeOK
    <2> QED
      BY <2>1, <1>c
  <1>w. c \in PendingIn(pub[p]) => dir[c] # Absent /\ dir[c].bytes = pub[p].checked[c]
    BY DEF WindowInv
  <1>1. CASE ~VerifyFile(p) /\ ~UploadFile(p)
    <2>1. pub'[p].phase = "verify" /\ pub'[p].checked = pub[p].checked
          /\ pub[p].phase = "unnamed"
      <3>1. /\ CheckUnnamed(p)
            /\ pub'[p] = [pub[p] EXCEPT !.phase = "verify", !.at = "wheel"]
        BY <1>1, <1>c, IntoTheWindow
      <3> QED
        BY <3>1, <1>p DEF Pub, CheckUnnamed, PubAt
    <2> QED
      BY <2>1, <1>c, <1>p DEF PubOk
  <1>2. CASE UploadFile(p)
    <2>1. pub'[p] = [pub[p] EXCEPT !.at = After(pub[p].at),
             !.phase = IF After(pub[p].at) = "none" THEN "published" ELSE "upload"]
      BY <1>2 DEF UploadFile, TypeOK
    <2>2. /\ pub'[p].at = After(pub[p].at) /\ pub'[p].checked = pub[p].checked
          /\ pub[p].phase = "upload" /\ pub'[p].phase # "verify"
      BY <2>1, <1>2, <1>p DEF Pub, UploadFile, PubAt
    <2>3. c \in {After(pub[p].at), After(After(pub[p].at))}
      BY <2>2, <1>c DEF PendingIn
    <2>4. c = After(pub[p].at)
      BY <2>3, <1>c DEF After, Artifacts
    <2> QED
      BY <2>2, <2>4, <1>c, <1>w DEF PendingIn
  <1>3. CASE VerifyFile(p)
    <2> DEFINE a == pub[p].at
               next == IF After(a) = "none" THEN "wheel" ELSE After(a)
               ph == IF After(a) # "none" THEN "verify"
                     ELSE IF pub[p].order.dry_run THEN "rehearsed" ELSE "upload"
    <2>1. /\ pub[p].phase = "verify" /\ dir[a] # Absent
          /\ pub'[p] = [pub[p] EXCEPT !.checked[a] = dir[a].bytes, !.at = next,
                                      !.phase = ph]
      BY <1>3, <1>r DEF VerifyFile, PubAt, Matches, TypeOK
    <2> HIDE DEF next, ph
    <2>2. pub'[p].checked = [pub[p].checked EXCEPT ![a] = dir[a].bytes]
          /\ pub[p].checked \in [Artifacts -> Content \cup {Absent}]
      BY <2>1, <1>p DEF Pub
    <2>3. CASE c = a
      BY <2>1, <2>2, <2>3, <1>c
    <2>4. CASE c # a
      <3>1. pub'[p].checked[c] = pub[p].checked[c]
        BY <2>2, <2>4, <1>c
      <3>2. c \in PendingIn(pub[p])
        BY <3>1, <2>1, <1>c DEF PendingIn
      <3> QED
        BY <3>1, <3>2, <1>w
    <2> QED
      BY <2>3, <2>4
  <1> QED
    BY <1>1, <1>2, <1>3

LEMMA WindowKept == TypeOK /\ PubsInv /\ WindowInv /\ [Next]_vars => WindowInv'
  <1> SUFFICES ASSUME TypeOK, PubsInv, WindowInv, [Next]_vars,
                      NEW p \in Publishers, p \notin overtaken',
                      NEW c \in PendingIn(pub'[p])
               PROVE  dir'[c] # Absent /\ dir'[c].bytes = pub'[p].checked[c]
    BY DEF WindowInv, PendingIn, After
  <1>n. PICK names \in SUBSET Names :
           /\ \A n \in Names \ names : dir'[n] = dir[n]
           /\ overtaken' = overtaken \cup Exposed(names)
    BY WritersAreSeen
  <1>o. p \notin overtaken /\ c \in Names
    BY <1>n DEF PendingIn, Names
  <1>1. CASE PubStep(p)
    BY <1>1, <1>o, OnePublisher, WindowKeptByPublisher
  <1>2. CASE ~PubStep(p)
    <2>1. pub'[p] = pub[p]
      BY <1>2, OnePublisher, OtherStepsKeepPubs DEF Next
    <2>2. c \in Pending(p)
      BY <2>1 DEF Pending, PendingIn
    <2>3. c \notin names
      BY <1>n, <2>2 DEF Exposed
    <2> QED
      BY <1>n, <1>o, <2>1, <2>3 DEF WindowInv
  <1> QED
    BY <1>1, <1>2

-----------------------------------------------------------------------------
(* The index.                                                              *)

\* index and pub change only so when a file arrives.
LEMMA Arrival ==
  ASSUME TypeOK, PubsInv, WindowInv, NEW p \in Publishers,
         UploadFile(p) \/ AnswerLost(p)
  PROVE  /\ pub[p].phase = "upload" /\ pub[p].at \in Artifacts
         /\ pub'[p].phase = "upload" =>
              pub[p].at = "wheel" /\ pub'[p].at = "sdist"
         /\ index' = [index EXCEPT ![pub[p].at] =
              IF @ = Absent THEN [bytes |-> dir[pub[p].at].bytes, by |-> p] ELSE @]
         /\ index[pub[p].at] # Absent =>
              index[pub[p].at].bytes = dir[pub[p].at].bytes
         /\ p \notin overtaken =>
              dir[pub[p].at].bytes = pub[p].checked[pub[p].at]
  <1> DEFINE a == pub[p].at
  <1>p. pub[p] \in Pub /\ PubOk(pub[p])
    BY DEF TypeOK, PubsInv
  <1>1. pub[p].phase = "upload" /\ a \in Artifacts
    BY <1>p DEF UploadFile, AnswerLost, PubAt, PubOk
  <1>2. Sendable(a) /\ Arrive(p, a)
    BY DEF UploadFile, AnswerLost
  <1>3. pub'[p].phase = "upload" => a = "wheel" /\ pub'[p].at = "sdist"
    <2>1. CASE UploadFile(p)
      <3>1. pub'[p] = [pub[p] EXCEPT !.at = After(a),
                         !.phase = IF After(a) = "none" THEN "published" ELSE "upload"]
        BY <2>1 DEF UploadFile, TypeOK
      <3>2. /\ pub'[p].at = After(a)
            /\ pub'[p].phase = IF After(a) = "none" THEN "published" ELSE "upload"
        BY <3>1, <1>p DEF Pub
      <3> QED
        BY <3>2, <1>1 DEF After, Artifacts
    <2>2. CASE AnswerLost(p)
      <3>1. pub'[p] = [pub[p] EXCEPT !.phase = "failed"]
        BY <2>2 DEF AnswerLost, PubGoto, TypeOK
      <3> QED
        BY <3>1, <1>p DEF Pub
    <2> QED
      BY <2>1, <2>2
  <1>4. p \notin overtaken => dir[a].bytes = pub[p].checked[a]
    <2>1. \A c \in Artifacts : pub[p].checked[c] = pub[p].record.artifacts[c]
          /\ pub[p].record \in Record
      BY <1>p, <1>1 DEF PubOk, Cleared, Loaded
    <2>2. pub[p].checked[a] # Absent
      BY <2>1, <1>1, SpecialsAssumption DEF Record
    <2>3. a \in PendingIn(pub[p])
      BY <2>2, <1>1 DEF PendingIn
    <2> QED
      BY <2>3 DEF WindowInv
  <1> QED
    BY <1>1, <1>2, <1>3, <1>4 DEF Sendable, Arrive

LEMMA IndexWriters ==
  ASSUME TypeOK, [Next]_vars
  PROVE  index' = index \/ \E p \in Publishers : UploadFile(p) \/ AnswerLost(p)
  <1>1. CASE \E p \in Publishers : PubStep(p)
    BY <1>1 DEF PubStep, StartPublish, LoadRecord, CheckLinks, CheckUnnamed,
       VerifyFile, UploadFails, PubOnly
  <1> QED
    BY <1>1, OtherStepsKeepPubs DEF Next

\* What a publisher was cleared with does not change any more.
LEMMA ClearedStays ==
  ASSUME TypeOK, PubsInv, [Next]_vars, NEW p \in Publishers, pub[p].phase \in Cleared
  PROVE  /\ pub'[p].phase \in Cleared
         /\ pub'[p].checked = pub[p].checked
         /\ pub'[p].record = pub[p].record
         /\ pub'[p].phase = "upload" => pub[p].phase = "upload"
  <1>p. pub[p] \in Pub
    BY DEF TypeOK
  <1>1. CASE UploadFile(p)
    <2>1. pub'[p] = [pub[p] EXCEPT !.at = After(pub[p].at),
             !.phase = IF After(pub[p].at) = "none" THEN "published" ELSE "upload"]
      BY <1>1 DEF UploadFile, TypeOK
    <2> QED
      BY <2>1, <1>1, <1>p DEF Pub, Cleared, UploadFile, PubAt
  <1>2. CASE UploadFails(p) \/ AnswerLost(p)
    <2>1. pub'[p] = [pub[p] EXCEPT !.phase = "failed"]
      BY <1>2 DEF UploadFails, AnswerLost, PubGoto, TypeOK
    <2> QED
      BY <2>1, <1>p DEF Pub, Cleared
  <1>3. CASE PubStep(p) /\ ~UploadFile(p) /\ ~UploadFails(p) /\ ~AnswerLost(p)
    BY <1>3 DEF Cleared, PubStep, StartPublish, LoadRecord, CheckLinks,
       CheckUnnamed, VerifyFile, PubAt
  <1>4. CASE ~PubStep(p)
    BY <1>4, OnePublisher, OtherStepsKeepPubs DEF Next
  <1> QED
    BY <1>1, <1>2, <1>3, <1>4

\* An entry is what its publisher had checked, unless it was overtaken; the
\* wheel comes first.
EntriesInv ==
  /\ \A a \in Artifacts : index[a] # Absent =>
       /\ pub[index[a].by].phase \in Cleared
       /\ index[a].by \notin overtaken =>
            index[a].bytes = pub[index[a].by].checked[a]
  /\ index["sdist"] # Absent => index["wheel"] # Absent
  /\ \A p \in Publishers : pub[p].phase = "upload" /\ pub[p].at = "sdist" =>
       /\ index["wheel"] # Absent
       /\ p \notin overtaken => index["wheel"].bytes = pub[p].checked["wheel"]

IndexInv == EntriesInv /\ ReleaseIsOneBuild

LEMMA OvertakenGrows == TypeOK /\ [Next]_vars => overtaken \subseteq overtaken'
  BY WritersAreSeen

LEMMA EntriesKeptWithoutArrival ==
  ASSUME TypeOK, PubsInv, EntriesInv, [Next]_vars, index' = index,
         ~\E p \in Publishers : UploadFile(p) \/ AnswerLost(p)
  PROVE  EntriesInv'
  <1>1. ASSUME NEW a \in Artifacts, index'[a] # Absent
        PROVE  /\ pub'[index'[a].by].phase \in Cleared
               /\ index'[a].by \notin overtaken' =>
                    index'[a].bytes = pub'[index'[a].by].checked[a]
    <2>1. index[a].by \in Publishers
      BY <1>1 DEF TypeOK, Entry
    <2> QED
      BY <1>1, <2>1, ClearedStays, OvertakenGrows DEF EntriesInv
  <1>2. ASSUME NEW p \in Publishers, pub'[p].phase = "upload", pub'[p].at = "sdist"
        PROVE  /\ index'["wheel"] # Absent
               /\ p \notin overtaken' => index'["wheel"].bytes = pub'[p].checked["wheel"]
    <2>1. CASE PubStep(p)
      <3>p. pub[p] \in Pub
        BY DEF TypeOK
      <3>r. ~PubRefuse(p) /\ VerifyFile(p)
        <4>1. pub'[p] = [pub[p] EXCEPT !.phase = "verify", !.at = "wheel"] =>
                pub'[p].phase = "verify"
          BY <3>p DEF Pub
        <4> QED
          BY <2>1, <4>1, <1>2, IntoTheWindow
      <3> DEFINE a == pub[p].at
                 next == IF After(a) = "none" THEN "wheel" ELSE After(a)
                 ph == IF After(a) # "none" THEN "verify"
                       ELSE IF pub[p].order.dry_run THEN "rehearsed" ELSE "upload"
      <3>2. pub'[p] = [pub[p] EXCEPT !.checked[a] = dir[a].bytes, !.at = next,
                                     !.phase = ph]
        BY <3>r DEF VerifyFile, TypeOK
      <3>3. After(a) = "none" <=> next = "wheel"
        BY DEF After
      <3> HIDE DEF next
      <3>4. pub'[p].phase = ph /\ pub'[p].at = next
        BY <3>2, <3>p DEF Pub
      <3> QED
        BY <3>3, <3>4, <1>2
    <2>2. CASE ~PubStep(p)
      <3>1. pub'[p] = pub[p]
        BY <2>2, OnePublisher, OtherStepsKeepPubs DEF Next
      <3> QED
        BY <3>1, <1>2, OvertakenGrows DEF EntriesInv
    <2> QED
      BY <2>1, <2>2
  <1> QED
    BY <1>1, <1>2 DEF EntriesInv, Cleared

LEMMA EntriesKeptByArrival ==
  ASSUME TypeOK, PubsInv, WindowInv, EntriesInv, [Next]_vars,
         NEW p \in Publishers, UploadFile(p) \/ AnswerLost(p)
  PROVE  EntriesInv'
  <1> DEFINE a == pub[p].at
  <1>p. PubStep(p) /\ pub[p].phase = "upload" /\ a \in Artifacts
    BY Arrival DEF PubStep
  <1>u. overtaken' = overtaken
    BY <1>p, OnePublisher
  <1>i. index' = [index EXCEPT ![a] =
          IF @ = Absent THEN [bytes |-> dir[a].bytes, by |-> p] ELSE @]
        /\ index \in [Artifacts -> Entry \cup {Absent}]
    BY Arrival DEF TypeOK
  <1>e. dir[a] # Absent /\ [bytes |-> dir[a].bytes, by |-> p] # Absent
    <2>1. dir[a] # Absent
      BY DEF UploadFile, AnswerLost, Sendable
    <2>2. [bytes |-> dir[a].bytes, by |-> p] \in Entry
      BY <2>1, <1>p DEF TypeOK, Names, File, Entry
    <2> QED
      BY <2>1, <2>2, SpecialsAssumption
  <1>1. \A c \in Artifacts : index[c] # Absent => index'[c] = index[c]
    BY <1>i
  <1>2. index'[a] # Absent
    BY <1>i, <1>e, <1>p
  <1>3. ASSUME NEW c \in Artifacts, index'[c] # Absent
        PROVE  /\ pub'[index'[c].by].phase \in Cleared
               /\ index'[c].by \notin overtaken' =>
                    index'[c].bytes = pub'[index'[c].by].checked[c]
    <2>1. CASE index[c] # Absent
      <3>1. index[c].by \in Publishers
        BY <2>1 DEF TypeOK, Entry
      <3> QED
        BY <2>1, <3>1, <1>1, <1>u, ClearedStays DEF EntriesInv
    <2>2. CASE index[c] = Absent
      <3>1. c = a /\ index'[c] = [bytes |-> dir[a].bytes, by |-> p]
        BY <2>2, <1>3, <1>i
      <3>2. p \notin overtaken => dir[a].bytes = pub[p].checked[a]
        BY Arrival
      <3>3. pub'[p].phase \in Cleared /\ pub'[p].checked = pub[p].checked
        BY <1>p, ClearedStays DEF Cleared
      <3> QED
        BY <3>1, <3>2, <3>3, <1>u
    <2> QED
      BY <2>1, <2>2
  <1>4. index'["sdist"] # Absent => index'["wheel"] # Absent
    <2>1. CASE a = "wheel"
      BY <2>1, <1>2
    <2>2. CASE a = "sdist"
      <3>1. index["wheel"] # Absent
        BY <2>2, <1>p DEF EntriesInv
      <3> QED
        BY <3>1, <1>1 DEF Artifacts
    <2> QED
      BY <2>1, <2>2, <1>p DEF Artifacts
  <1>5. ASSUME NEW w \in Publishers, pub'[w].phase = "upload", pub'[w].at = "sdist"
        PROVE  /\ index'["wheel"] # Absent
               /\ w \notin overtaken' => index'["wheel"].bytes = pub'[w].checked["wheel"]
    <2>1. CASE w = p
      <3>1. a = "wheel"
        BY <2>1, <1>5, Arrival
      <3>2. index'["wheel"].bytes = dir["wheel"].bytes
        <4>1. CASE index["wheel"] = Absent
          BY <3>1, <4>1, <1>i, <1>p
        <4>2. CASE index["wheel"] # Absent
          <5>1. index["wheel"].bytes = dir["wheel"].bytes
            BY <3>1, <4>2, Arrival
          <5> QED
            BY <3>1, <4>2, <5>1, <1>1, <1>p
        <4> QED
          BY <4>1, <4>2
      <3>3. p \notin overtaken => dir["wheel"].bytes = pub[p].checked["wheel"]
        BY <3>1, Arrival
      <3>4. pub'[p].checked = pub[p].checked
        BY <1>p, ClearedStays DEF Cleared
      <3> QED
        BY <2>1, <3>1, <3>2, <3>3, <3>4, <1>2, <1>u
    <2>2. CASE w # p
      <3>1. pub'[w] = pub[w]
        BY <2>2, <1>p, OnePublisher
      <3> QED
        BY <3>1, <1>5, <1>1, <1>u DEF EntriesInv, Artifacts
    <2> QED
      BY <2>1, <2>2
  <1> QED
    BY <1>3, <1>4, <1>5 DEF EntriesInv, Cleared

\* What a cleared publisher checked came from one build.
LEMMA CheckedIsTested ==
  ASSUME TypeOK, JobsInv, PubsInv, NEW p \in Publishers, pub[p].phase \in Cleared
  PROVE  LET b == pub[p].record.build
         IN  /\ b \in Builders
             /\ job[b].order.candidate /\ job[b].order.ref # "pull"
             /\ \A a \in Artifacts :
                  /\ TestedBy(pub[p].checked[a], a, b, pub[p].order.commit)
                  /\ pub[p].checked[a].build = b
  <1> DEFINE r == pub[p].record
  <1>1. /\ r \in Record /\ Permits(r, pub[p].order) /\ Honest(r)
        /\ \A a \in Artifacts : pub[p].checked[a] = r.artifacts[a]
    BY DEF PubsInv, PubOk, Loaded
  <1>2. /\ r.candidate = job[r.build].order.candidate
        /\ r.candidate => job[r.build].order.ref # "pull"
        /\ \A a \in Artifacts : TestedBy(r.artifacts[a], a, r.build, r.commit)
    BY <1>1, HonestTested
  <1>3. r.candidate /\ r.commit = pub[p].order.commit
    BY <1>1 DEF Permits
  <1>4. \A a \in Artifacts : r.artifacts[a].build = r.build
    <2>1. \A a \in Artifacts : Fresh(r.build, TreeOf[r.commit])[a].build = r.build
      BY DEF Fresh
    <2> QED
      BY <1>2, <2>1 DEF TestedBy
  <1> QED
    BY <1>1, <1>2, <1>3, <1>4 DEF Honest

\* Entries of publishers nobody overtook are from one build: the second is
\* sent only where the first is what its publisher checked.
LEMMA OneBuildKept ==
  ASSUME TypeOK, JobsInv, PubsInv, WindowInv, IndexInv, [Next]_vars
  PROVE  ReleaseIsOneBuild'
  <1>1. CASE index' = index
    BY <1>1, OvertakenGrows DEF IndexInv, ReleaseIsOneBuild
  <1>2. CASE \E p \in Publishers : UploadFile(p) \/ AnswerLost(p)
    <2> PICK p \in Publishers : UploadFile(p) \/ AnswerLost(p)
      BY <1>2
    <2> DEFINE a == pub[p].at
    <2>1. /\ a \in Artifacts /\ pub[p].phase \in Cleared
          /\ index' = [index EXCEPT ![a] =
               IF @ = Absent THEN [bytes |-> dir[a].bytes, by |-> p] ELSE @]
          /\ index \in [Artifacts -> Entry \cup {Absent}]
      BY Arrival DEF TypeOK, Cleared
    <2>2. CASE index[a] # Absent
      BY <2>1, <2>2, OvertakenGrows DEF IndexInv, ReleaseIsOneBuild
    <2>3. CASE index[a] = Absent /\ a = "wheel"
      <3>1. \A c \in Artifacts : index'[c] # Absent => c = "wheel"
        BY <2>1, <2>3 DEF IndexInv, EntriesInv, Artifacts
      <3> QED
        BY <3>1 DEF ReleaseIsOneBuild
    <2>4. CASE index[a] = Absent /\ a = "sdist" /\ overtaken = {}
      <3>1. index'["sdist"].bytes = pub[p].checked["sdist"]
        BY <2>1, <2>4, Arrival
      <3>2. index'["wheel"].bytes = pub[p].checked["wheel"]
        BY <2>1, <2>4, Arrival DEF IndexInv, EntriesInv, Artifacts
      <3>3. index'["sdist"].bytes.build = index'["wheel"].bytes.build
        BY <2>1, <3>1, <3>2, CheckedIsTested DEF Artifacts
      <3> QED
        BY <3>3 DEF ReleaseIsOneBuild, Artifacts
    <2>5. CASE overtaken # {}
      BY <2>5, OvertakenGrows DEF ReleaseIsOneBuild
    <2> QED
      BY <2>1, <2>2, <2>3, <2>4, <2>5 DEF Artifacts
  <1> QED
    BY <1>1, <1>2, IndexWriters

-----------------------------------------------------------------------------
(* The inductive invariant, and what it gives.                             *)

Inv == TypeOK /\ JobsInv /\ RecordInv /\ PubsInv /\ WindowInv /\ IndexInv

LEMMA InitInv == Init => Inv
  <1> SUFFICES ASSUME Init PROVE Inv
    OBVIOUS
  <1>1. JobsInv
    BY RefusedOk DEF Init, JobsInv
  <1>2. RecordInv
    BY SpecialsAssumption DEF Init, RecordInv
  <1>3. \A p \in Publishers : pub[p] = IdlePub
    BY DEF Init
  <1>4. PubsInv
    BY <1>3 DEF PubsInv, PubOk, IdlePub, Loaded, Cleared
  <1>5. WindowInv
    BY <1>3 DEF WindowInv, PendingIn, IdlePub
  <1>6. IndexInv
    BY <1>3 DEF Init, IndexInv, EntriesInv, ReleaseIsOneBuild, IdlePub, Artifacts
  <1> QED
    BY <1>1, <1>2, <1>4, <1>5, <1>6, InitTyped DEF Inv

LEMMA StepInv == Inv /\ [Next]_vars => Inv'
  <1> SUFFICES ASSUME Inv, [Next]_vars PROVE Inv'
    OBVIOUS
  <1>1. EntriesInv'
    BY EntriesKeptWithoutArrival, EntriesKeptByArrival, IndexWriters DEF Inv, IndexInv
  <1>2. ReleaseIsOneBuild'
    BY OneBuildKept DEF Inv
  <1> QED
    BY <1>1, <1>2, StepTyped, JobsKept, RecordKept, PubsKept, WindowKept
    DEF Inv, IndexInv

LEMMA InvImplies ==
  Inv => RecordIsEarned /\ VerifiedIsTested /\ PublishedWasTested /\ ReleaseIsOneBuild
  <1> SUFFICES ASSUME Inv
               PROVE  RecordIsEarned /\ VerifiedIsTested /\ PublishedWasTested
                      /\ ReleaseIsOneBuild
    OBVIOUS
  <1>1. RecordIsEarned
    BY HonestTested DEF Inv, RecordInv, RecordIsEarned
  <1>2. VerifiedIsTested
    BY CheckedIsTested DEF Inv, VerifiedIsTested, PubAt, Cleared
  <1>3. PublishedWasTested
    <2> SUFFICES ASSUME NEW a \in Artifacts, index[a] # Absent,
                        index[a].by \notin overtaken
                 PROVE  \E b \in Builders :
                          TestedBy(index[a].bytes, a, b, pub[index[a].by].order.commit)
      BY DEF PublishedWasTested
    <2>1. index[a].by \in Publishers
      BY DEF Inv, TypeOK, Entry
    <2>2. pub[index[a].by].phase \in Cleared
          /\ index[a].bytes = pub[index[a].by].checked[a]
      BY DEF Inv, IndexInv, EntriesInv
    <2> QED
      BY <2>1, <2>2, CheckedIsTested DEF Inv
  <1> QED
    BY <1>1, <1>2, <1>3 DEF Inv, IndexInv

THEOREM InvHolds == Spec => []Inv
  BY InitInv, StepInv, PTL DEF Spec

\* Every whole record vouches for one tested build of the commit it names.
THEOREM RecordEarned == Spec => []RecordIsEarned
  BY InvHolds, InvImplies, PTL

\* What a publisher found in order is what one publishable build tested.
THEOREM VerifiedTested == Spec => []VerifiedIsTested
  BY InvHolds, InvImplies, PTL

\* What is on the index was tested, unless its publisher was overtaken.
THEOREM PublishedTested == Spec => []PublishedWasTested
  BY InvHolds, InvImplies, PTL

\* The index does not pair the wheel of one build with the sdist of another.
THEOREM OneBuildReleased == Spec => []ReleaseIsOneBuild
  BY InvHolds, InvImplies, PTL
=============================================================================
