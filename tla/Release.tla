------------------------------ MODULE Release -------------------------------
(***************************************************************************)
(* release_evidence.py and publish_release.py: builders turn one commit    *)
(* into a wheel, an sdist and a record that vouches for them, publishers   *)
(* check a directory against its record and hand the files to twine.  Both *)
(* are operator commands, so several may run at once on one checkout and   *)
(* one output directory while a developer moves HEAD and other programs    *)
(* write files.  A command that is killed or dies of an OSError is one     *)
(* that takes no further step.                                             *)
(***************************************************************************)
EXTENDS Naturals, FiniteSets

CONSTANTS
  Builders, Publishers,         \* invocations of the two commands
  Commits, Trees, TreeOf,       \* the repository's objects
  Checkouts,                    \* states the working copy may be put in
  BuildOrders, PublishOrders,   \* command lines
  Stray,                        \* a file name no record names
  Absent,                       \* no file, no record
  Torn,                         \* half of a file: opened, not yet written
  Mixed,                        \* what two writers of one file can leave
  Foreign,                      \* bytes no gate has seen
  Budgets                       \* bounds on the environment's steps

Artifacts == {"wheel", "sdist"}
Names == Artifacts \cup {Stray}

\* sorted() puts "...-py3-none-any.whl" before "....tar.gz".
\* Mutant: whatever lies beside the artifacts is taken too.
AfterAndBeside(a) ==
  CASE a = "wheel" -> "sdist" [] a = "sdist" -> Stray [] OTHER -> "none"

After(a) == IF a = "wheel" THEN "sdist" ELSE "none"

\* The working copy: HEAD, the tree of the index, the tree of the files.
Checkout == [head : Commits, index : Trees, work : Trees]

BuildOrder == [commit : Commits, ref : {"branch", "pull"},
               candidate : BOOLEAN, pack : BOOLEAN]
PublishOrder == [commit : Commits, dry_run : BOOLEAN]

\* What a build produced, named by the run it came from: two builds of one
\* commit differ.  edited: changed by the tests that had it in hand.
Bytes == [build : Builders, artifact : Artifacts, tree : Trees,
          edited : BOOLEAN]
Content == Bytes \cup {Torn, Mixed, Foreign}
File == [bytes : Content, kind : {"plain", "hardlink", "symlink"}]

\* What the index holds under a name, and who sent it.
Entry == [bytes : Content, by : Publishers]

\* release-evidence.json; digests stand for the bytes they were taken of.
Record == [build : Builders, commit : Commits, commit_tree : Trees,
           candidate : BOOLEAN, release_complete : BOOLEAN,
           artifacts : [Artifacts -> Bytes]]

ASSUME ObjectsAssumption ==
  /\ TreeOf \in [Commits -> Trees]
  /\ Checkouts \subseteq Checkout
  /\ BuildOrders \subseteq BuildOrder /\ BuildOrders # {}
  /\ PublishOrders \subseteq PublishOrder /\ PublishOrders # {}
ASSUME SpecialsAssumption ==
  /\ Stray \notin Artifacts \cup {"none"}
  /\ {Absent, Torn, Mixed, Foreign} \cap Bytes = {}
  /\ {Absent, Torn, Mixed} \cap Record = {}
  /\ Absent \notin File \cup Entry
ASSUME BudgetsAssumption == Budgets \subseteq [moves : Nat, writes : Nat]

VARIABLES
  repo,          \* the working copy
  dir,           \* the files of the output directory
  record,        \* its release-evidence.json
  job,           \* the builders
  pub,           \* the publishers
  index,         \* the package index, for the one version being released
  overtaken,     \* history: publishers a checked file of which was written to
                 \* before it was uploaded
  left           \* steps the environment still has

vars == <<repo, dir, record, job, pub, index, overtaken, left>>

\* The mandatory gates; the private pack is one if it was asked for.
Gates == {"twine_check", "distribution_matrix", "full_suite"}
GatesAndPack == Gates \cup {"private_pack"}
Required(o) == IF o.pack THEN GatesAndPack ELSE Gates

JobPhase ==
  {"off", "head", "status", "tree", "index", "output", "build", "gates",
   "recheck", "copy", "copying", "record", "recording", "done", "refused"}
PubPhase ==
  {"off", "load", "links", "unnamed", "verify", "upload",
   "rehearsed", "published", "refused", "failed"}

\* final: the second inspection.  at: the artifact being copied.
Job == [phase : JobPhase, order : BuildOrder, final : BOOLEAN,
        commit_tree : Trees, identity : Trees,
        candidate : [Artifacts -> Bytes], digests : [Artifacts -> Bytes],
        ran : SUBSET GatesAndPack, at : Artifacts \cup {"none"}]
Pub == [phase : PubPhase, order : PublishOrder, record : Record \cup {Absent},
        checked : [Artifacts -> Content \cup {Absent}],
        at : Artifacts \cup {"none"}]

TypeOK ==
  /\ repo \in Checkout
  /\ dir \in [Names -> File \cup {Absent}]
  /\ record \in Record \cup {Absent, Torn, Mixed}
  /\ job \in [Builders -> Job]
  /\ pub \in [Publishers -> Pub]
  /\ index \in [Artifacts -> Entry \cup {Absent}]
  /\ overtaken \subseteq Publishers
  /\ left \in [moves : Nat, writes : Nat]

Fresh(b, t) ==
  [a \in Artifacts |-> [build |-> b, artifact |-> a, tree |-> t,
                        edited |-> FALSE]]

\* Before a command is started its line means nothing.
AnyOrder(orders) == CHOOSE o \in orders : TRUE
IdleJob(b) ==
  LET t == TreeOf[AnyOrder(BuildOrders).commit]
  IN  [phase |-> "off", order |-> AnyOrder(BuildOrders), final |-> FALSE,
       commit_tree |-> t, identity |-> t, candidate |-> Fresh(b, t),
       digests |-> Fresh(b, t), ran |-> {}, at |-> "none"]
IdlePub ==
  [phase |-> "off", order |-> AnyOrder(PublishOrders), record |-> Absent,
   checked |-> [a \in Artifacts |-> Absent], at |-> "none"]

Init ==
  /\ repo \in Checkouts
  /\ dir = [n \in Names |-> Absent]
  /\ record = Absent
  /\ job = [b \in Builders |-> IdleJob(b)]
  /\ pub = [p \in Publishers |-> IdlePub]
  /\ index = [a \in Artifacts |-> Absent]
  /\ overtaken = {}
  /\ left \in Budgets

-----------------------------------------------------------------------------
(* The builder, build_release_evidence().                                  *)

JobAt(b, phases) == job[b].phase \in phases
Goto(b, ph) == job' = [job EXCEPT ![b].phase = ph]
\* ReleaseEvidenceError: the temporary directory goes, no record is written.
Refuse(b) == job' = [job EXCEPT ![b] = [IdleJob(b) EXCEPT !.phase = "refused"]]

\* A pull-request ref cannot be asserted to be publishable.
StartBuild(b, o) ==
  /\ JobAt(b, {"off"})
  /\ IF o.candidate /\ o.ref = "pull"
     THEN Refuse(b)
     ELSE job' = [job EXCEPT ![b].order = o, ![b].phase = "head"]
  /\ UNCHANGED <<repo, dir, record, pub, index, overtaken, left>>

JobOnly == UNCHANGED <<repo, dir, record, pub, index, overtaken, left>>

\* inspect_source_identity() asks git four questions, one at a time.
InspectHead(b) ==
  /\ JobAt(b, {"head"})
  /\ IF repo.head = job[b].order.commit THEN Goto(b, "status") ELSE Refuse(b)
  /\ JobOnly

InspectStatus(b) ==
  /\ JobAt(b, {"status"})
  /\ IF repo.index = TreeOf[repo.head] /\ repo.work = repo.index
     THEN Goto(b, "tree")
     ELSE Refuse(b)
  /\ JobOnly

InspectTree(b) ==
  /\ JobAt(b, {"tree"})
  /\ job' = [job EXCEPT ![b].commit_tree = TreeOf[repo.head],
                        ![b].phase = "index"]
  /\ JobOnly

\* The first time the identity is kept, the second time compared with it.
InspectIndex(b) ==
  /\ JobAt(b, {"index"})
  /\ IF repo.index # job[b].commit_tree
       \/ (job[b].final /\ job[b].commit_tree # job[b].identity)
     THEN Refuse(b)
     ELSE job' = [job EXCEPT
            ![b].identity = job[b].commit_tree,
            ![b].phase = IF job[b].final THEN "copy" ELSE "output",
            ![b].at = IF job[b].final THEN "wheel" ELSE "none"]
  /\ JobOnly

DirectoryEmpty == record = Absent /\ \A n \in Names : dir[n] = Absent

CheckOutput(b) ==
  /\ JobAt(b, {"output"})
  /\ IF DirectoryEmpty THEN Goto(b, "build") ELSE Refuse(b)
  /\ JobOnly

\* git archive of the commit id, `python -m build`, _artifact_records().
Build(b) ==
  /\ JobAt(b, {"build"})
  /\ LET made == Fresh(b, TreeOf[job[b].order.commit])
     IN  job' = [job EXCEPT ![b].candidate = made, ![b].digests = made,
                            ![b].phase = "gates"]
  /\ JobOnly

\* The gates run one after another and touch nothing shared; the first that
\* fails ends the build.  The matrix has the candidate directory in its
\* environment and may change what it finds there.
RunGates(b) ==
  /\ JobAt(b, {"gates"})
  /\ \E passed \in {Gates, GatesAndPack} :
       IF Required(job[b].order) \subseteq passed
       THEN \E touched \in SUBSET Artifacts :
              job' = [job EXCEPT
                ![b].ran = Required(job[b].order),
                ![b].phase = "recheck",
                ![b].candidate = [a \in Artifacts |->
                   [@[a] EXCEPT !.edited = a \in touched]]]
       ELSE Refuse(b)
  /\ JobOnly

\* A command that fails, times out or, if it is a gate, reports no passed test.
CommandFails(b) ==
  /\ JobAt(b, {"head", "status", "tree", "index", "build", "gates"})
  /\ Refuse(b)
  /\ JobOnly

\* Mutant: what the tests left is copied without another look.
RecheckNothing(b) ==
  /\ JobAt(b, {"recheck"})
  /\ job' = [job EXCEPT ![b].phase = "head", ![b].final = TRUE]
  /\ JobOnly

\* The digests are taken again; then the second inspection.
Recheck(b) ==
  /\ JobAt(b, {"recheck"})
  /\ IF job[b].candidate = job[b].digests
     THEN job' = [job EXCEPT ![b].phase = "head", ![b].final = TRUE]
     ELSE Refuse(b)
  /\ JobOnly

-----------------------------------------------------------------------------
(* Writing to the directory.                                               *)

\* A file is truncated when it is opened and whole when it is closed.
Opened(others) == IF others THEN Mixed ELSE Torn
Closed(old, mine) == IF old = Torn THEN {mine} ELSE {mine, Mixed, old}

\* Files a publisher has checked and not yet uploaded.
Pending(p) ==
  {a \in Artifacts :
     /\ pub[p].checked[a] # Absent
     /\ \/ pub[p].phase = "verify"
        \/ pub[p].phase = "upload" /\ a \in {pub[p].at, After(pub[p].at)}}

Exposed(names) == {p \in Publishers : Pending(p) \cap names # {}}

OpenCopy(b) ==
  /\ JobAt(b, {"copy"})
  /\ LET a == job[b].at
         others == \E w \in Builders \ {b} : JobAt(w, {"copying"}) /\ job[w].at = a
     IN /\ dir' = [dir EXCEPT ![a] =
             [bytes |-> Opened(others),
              kind |-> IF @ = Absent THEN "plain" ELSE @.kind]]
        /\ overtaken' = overtaken \cup Exposed({a})
  /\ Goto(b, "copying")
  /\ UNCHANGED <<repo, record, pub, index, left>>

\* copystat raises if the file is gone: the builder stops here.
CloseCopy(b) ==
  /\ JobAt(b, {"copying"})
  /\ LET a == job[b].at
     IN /\ dir[a] # Absent
        /\ \E c \in Closed(dir[a].bytes, job[b].candidate[a]) :
             dir' = [dir EXCEPT ![a].bytes = c]
        /\ overtaken' = overtaken \cup Exposed({a})
        /\ job' = [job EXCEPT
             ![b].at = After(a),
             ![b].phase = IF After(a) = "none" THEN "record" ELSE "copy"]
  /\ UNCHANGED <<repo, record, pub, index, left>>

OpenRecord(b) ==
  /\ JobAt(b, {"record"})
  /\ record' = Opened(\E w \in Builders \ {b} : JobAt(w, {"recording"}))
  /\ Goto(b, "recording")
  /\ UNCHANGED <<repo, dir, pub, index, overtaken, left>>

\* _release_is_complete() asks the two gates that report a verdict.
EvidenceOf(b) ==
  [build |-> b, commit |-> job[b].order.commit,
   commit_tree |-> job[b].identity, candidate |-> job[b].order.candidate,
   release_complete |-> {"distribution_matrix", "full_suite"} \subseteq job[b].ran,
   artifacts |-> job[b].digests]

CloseRecord(b) ==
  /\ JobAt(b, {"recording"})
  /\ record' \in IF record = Absent THEN {Absent}
                 ELSE Closed(record, EvidenceOf(b))
  /\ Goto(b, "done")
  /\ UNCHANGED <<repo, dir, pub, index, overtaken, left>>

-----------------------------------------------------------------------------
(* The publisher, publish().                                               *)

PubAt(p, phases) == pub[p].phase \in phases
PubGoto(p, ph) == pub' = [pub EXCEPT ![p].phase = ph]
\* PublishError
PubRefuse(p) == pub' = [pub EXCEPT ![p] = [IdlePub EXCEPT !.phase = "refused"]]
PubOnly == UNCHANGED <<repo, dir, record, job, index, overtaken, left>>

StartPublish(p, o) ==
  /\ PubAt(p, {"off"})
  /\ pub' = [pub EXCEPT ![p].order = o, ![p].phase = "load"]
  /\ PubOnly

\* Mutant: the operator's commit is optional, as it was until 2026-08-30.
PermitsAnyCommit(r, o) == r.release_complete /\ r.candidate

\* verify_record_permits_publication()
Permits(r, o) ==
  /\ r.release_complete
  /\ r.candidate
  /\ r.commit = o.commit

\* load_evidence(): there is a record and it is JSON.
LoadRecord(p) ==
  /\ PubAt(p, {"load"})
  /\ IF record \in Record /\ Permits(record, pub[p].order)
     THEN pub' = [pub EXCEPT ![p].record = record, ![p].phase = "links"]
     ELSE PubRefuse(p)
  /\ PubOnly

\* verify_artifacts_match_record() lists the directory twice, for links and
\* for files the record does not name ...
CheckLinks(p) ==
  /\ PubAt(p, {"links"})
  /\ IF \E n \in Names : dir[n] # Absent /\ dir[n].kind = "symlink"
     THEN PubRefuse(p)
     ELSE PubGoto(p, "unnamed")
  /\ PubOnly

CheckUnnamed(p) ==
  /\ PubAt(p, {"unnamed"})
  /\ IF {n \in Names : dir[n] # Absent} \subseteq Artifacts
     THEN pub' = [pub EXCEPT ![p].phase = "verify", ![p].at = "wheel"]
     ELSE PubRefuse(p)
  /\ PubOnly

\* Mutant: names and links only.
MatchesByName(p, a) == dir[a] # Absent /\ dir[a].kind = "plain"

\* ... then takes the named files one by one.  Size and digest are compared.
Matches(p, a) ==
  /\ dir[a] # Absent
  /\ dir[a].kind = "plain"
  /\ dir[a].bytes = pub[p].record.artifacts[a]

VerifyFile(p) ==
  /\ PubAt(p, {"verify"})
  /\ LET a == pub[p].at
         last == After(a) = "none"
     IN IF Matches(p, a)
        THEN pub' = [pub EXCEPT
               ![p].checked[a] = dir[a].bytes,
               ![p].at = IF last THEN "wheel" ELSE After(a),
               ![p].phase = IF ~last THEN "verify"
                            ELSE IF pub[p].order.dry_run THEN "rehearsed"
                            ELSE "upload"]
        ELSE PubRefuse(p)
  /\ PubOnly

-----------------------------------------------------------------------------
(* twine and the package index.  twine sends the files it was named, wheel *)
(* first, and gives up at the first refusal; a file that is not a whole    *)
(* distribution is refused before it is sent.  The index keeps a file name *)
(* for good: other bytes under it are refused, the same ones are not.      *)

\* Mutant: twine is told to skip what the index already holds.
SendableSkipExisting(a) ==
  dir[a] # Absent /\ dir[a].bytes \notin {Torn, Mixed}

Sendable(a) ==
  /\ dir[a] # Absent
  /\ dir[a].bytes \notin {Torn, Mixed}
  /\ index[a] # Absent => index[a].bytes = dir[a].bytes

Arrive(p, a) ==
  index' = [index EXCEPT ![a] = IF @ = Absent THEN [bytes |-> dir[a].bytes, by |-> p]
                                ELSE @]

UploadFile(p) ==
  /\ PubAt(p, {"upload"})
  /\ LET a == pub[p].at
     IN /\ Sendable(a)
        /\ Arrive(p, a)
        /\ pub' = [pub EXCEPT
             ![p].at = After(a),
             ![p].phase = IF After(a) = "none" THEN "published" ELSE "upload"]
  /\ UNCHANGED <<repo, dir, record, job, overtaken, left>>

\* Refused, not sent, or out of time before the file arrived.
UploadFails(p) ==
  /\ PubAt(p, {"upload"})
  /\ PubGoto(p, "failed")
  /\ PubOnly

\* It arrived, and the answer did not: twine fails, or time is up.
AnswerLost(p) ==
  /\ PubAt(p, {"upload"})
  /\ Sendable(pub[p].at)
  /\ Arrive(p, pub[p].at)
  /\ PubGoto(p, "failed")
  /\ UNCHANGED <<repo, dir, record, job, overtaken, left>>

-----------------------------------------------------------------------------
(* The developer and everyone else who can write to the directory.         *)

Move(c) ==
  /\ left.moves > 0
  /\ left' = [left EXCEPT !.moves = @ - 1]
  /\ c # repo
  /\ repo' = c
  /\ UNCHANGED <<dir, record, job, pub, index, overtaken>>

Disturbed(names) ==
  /\ left.writes > 0
  /\ left' = [left EXCEPT !.writes = @ - 1]
  /\ overtaken' = overtaken \cup Exposed(names)
  /\ UNCHANGED <<repo, job, pub, index>>

\* A rebuild dropped in by hand, a file taken away, another name for it.
Drop(n, kind) ==
  /\ Disturbed({n})
  /\ dir' = [dir EXCEPT ![n] = [bytes |-> Foreign, kind |-> kind]]
  /\ UNCHANGED record

Remove(n) ==
  /\ Disturbed({n})
  /\ dir[n] # Absent
  /\ dir' = [dir EXCEPT ![n] = Absent]
  /\ UNCHANGED record

Link(n) ==
  /\ Disturbed({n})
  /\ dir[n] # Absent
  /\ dir' = [dir EXCEPT ![n].kind = "hardlink"]
  /\ UNCHANGED record

Empty ==
  /\ Disturbed(Names)
  /\ ~DirectoryEmpty
  /\ dir' = [n \in Names |-> Absent]
  /\ record' = Absent

JobStep(b) ==
  \/ \E o \in BuildOrders : StartBuild(b, o)
  \/ InspectHead(b) \/ InspectStatus(b) \/ InspectTree(b) \/ InspectIndex(b)
  \/ CheckOutput(b) \/ Build(b) \/ RunGates(b) \/ CommandFails(b)
  \/ Recheck(b) \/ OpenCopy(b) \/ CloseCopy(b) \/ OpenRecord(b)
  \/ CloseRecord(b)

PubStep(p) ==
  \/ \E o \in PublishOrders : StartPublish(p, o)
  \/ LoadRecord(p) \/ CheckLinks(p) \/ CheckUnnamed(p) \/ VerifyFile(p)
  \/ UploadFile(p) \/ UploadFails(p) \/ AnswerLost(p)

Environment ==
  \/ \E c \in Checkouts : Move(c)
  \/ \E n \in Names : Remove(n) \/ Link(n)
  \/ \E n \in Names, kind \in {"plain", "symlink"} : Drop(n, kind)
  \/ Empty

Next ==
  \/ \E b \in Builders : JobStep(b)
  \/ \E p \in Publishers : PubStep(p)
  \/ Environment

Spec == Init /\ [][Next]_vars

-----------------------------------------------------------------------------
(* Properties.                                                             *)

\* `x` is what builder b made from commit c, every mandatory gate of b ran and
\* passed, and the gates left it as it was.
TestedBy(x, a, b, c) ==
  /\ x = Fresh(b, TreeOf[c])[a]
  /\ x = job[b].candidate[a]
  /\ job[b].order.commit = c
  /\ Required(job[b].order) \subseteq job[b].ran

\* A record that reads as one vouches for files that one builder made from the
\* commit the record names and tested in every mandatory gate, whatever the
\* developer did to the checkout, the tests to the candidates, and other
\* builders to the directory, meanwhile (release_evidence.py:373-495).
RecordIsEarned ==
  record \in Record =>
    /\ record.release_complete
    /\ \A a \in Artifacts :
         TestedBy(record.artifacts[a], a, record.build, record.commit)

\* What a publisher has found in order is one builder's tested output for the
\* commit the operator named, and that build was asserted to be publishable:
\* never half a file, a mixture of two builds, a stale candidate or a file no
\* gate has seen (publish_release.py:396-398).
VerifiedIsTested ==
  \A p \in Publishers : PubAt(p, {"rehearsed", "upload", "published", "failed"}) =>
    \E b \in Builders :
      /\ job[b].order.candidate /\ job[b].order.ref # "pull"
      /\ \A a \in Artifacts :
           TestedBy(pub[p].checked[a], a, b, pub[p].order.commit)

\* What is on the index was tested, for the commit its publisher was given,
\* unless a checked file was written to before twine read it
\* (publish_release.py:403-405).
PublishedWasTested ==
  \A a \in Artifacts : index[a] # Absent /\ index[a].by \notin overtaken =>
    \E b \in Builders :
      TestedBy(index[a].bytes, a, b, pub[index[a].by].order.commit)

\* A release that fails half-way and is tried again, perhaps after a rebuild,
\* does not end up with the wheel of one build beside the sdist of another.
ReleaseIsOneBuild ==
  overtaken = {} =>
    \A a, c \in Artifacts : index[a] # Absent /\ index[c] # Absent =>
      index[a].bytes.build = index[c].bytes.build
=============================================================================
