# A TLA+ model of Auro Runtime

Auro Runtime lets a language model work through a *directive* by calling tools,
one call per turn, under policy guards and an audit log. This directory holds a
model of the parts that decide what a run may do and what it leaves behind:
TLA+ modules, TLC configurations that check them on small instances, and proofs
of the most important theorems.

    tlc -workers 2 -config runtime_shipped.cfg MCRuntime.tla
    tlapm RuntimeProofs.tla

Paths below are relative to the repository.

## The system

| Component | State it keeps | Operations | Talks to |
|---|---|---|---|
| Executor, `auro_runtime/executor.py` | the tool registry | `register`, `execute` | guards, tools, audit log |
| Policy guards, `auro_runtime/guards.py` | the guard registry | seven built-in guards, `register_guard` | executor (called back for each rule) |
| Run loop, `auro_runtime/orchestrator.py` `_run_impl` | `steps`, transcript, loop variable, audit step | gates, model turn, tool call, endings | model backend, executor, audit log |
| Routing and plans, `orchestrator.py`, `directive.py` | the directive files | `_plan_from_router`, `_plan_from_directive_id`, `allowed_tools_for` | pipeline, model backend |
| Pipeline, `auro_runtime/pipeline/` | stage results of one request | intake, plan, execute, verify, persist | run loop, audit log, secrets |
| Audit log, `auro_runtime/audit.py` | context variables (run, sequence, step, collector), the JSONL file | `write_audit_event`, flush, `set_audit_step` | everything that records |
| Secrets, `auro_runtime/secrets.py` | request secrets of the context, backends | `get_secret`, set, clear | pipeline, http tool |
| Policies, `auro_runtime/policy.py` | the YAML files | load, validate, enforceable rules, profile | run loop |
| File tools, `runtime_tools/file_tools.py` | the workspace, `.auro_archive/`, `manifest.jsonl` | write, delete, restore, prune, read, list | executor, audit log |
| Egress, `auro_runtime/egress.py`, `http_request` | none | resolve, pin, send, redirect | network |
| MCP server, `auro_runtime/mcp_server.py` | the exposure list | `run_directive`, one thread per run | pipeline |
| Release, `publish_release.py`, `release_evidence.py` | a build and its evidence | build, verify, upload | package index |

A run is one thread from `run()` to its result: the pipeline calls the run loop,
the loop calls the backend and `execute()`, which calls guards and one tool.
Concurrency comes from the MCP server, which gives every request a thread of its
own (`mcp_server.py:119`); the runs share the process registries, the workspace,
the archive and the audit file.

What is hard here, and where PROJECT.json's hazards point:

- the guard loop, where a rule can be skipped, missing, raising, denying and
  warning, and the history it reads also holds refused and malformed calls;
- the reading of a model reply that carries several signals, some malformed;
- tools that fail after their effect;
- nested runs: a tool body may call `run()`, and of the four context variables two
  are restored by token, two are overwritten;
- the audit flush, whose errors surface when the buffered records have been counted;
- directive and policy files, read one at a time and more than once per request
  while their authors save them;
- requests that follow redirects, with names that change their addresses between the
  check and the dial;
- releases, where builders, publishers and a developer share one checkout and one
  directory, and an upload can fail half-way;
- the archive, a protocol over file-system calls that several threads run at
  once, with names that are reserved, reused, listed, and removed by name.

What makes each component correct:

- *Executor*: complete mediation. A tool body is entered only past every boundary.
- *Guards and loop*: mediation under the history of the run, the write budget, an
  audit trail that agrees with the transcript, one recorded ending, termination.
- *Archive*: contents are not lost silently, a restore goes home, caps hold.
- *Pipeline and audit*: events carry their run and an increasing number; they reach
  the file in order or their loss is reported; secrets of a request stay with it.
- *Policies*: no edit of a policy set turns a refused call into a permitted one
  without one of the two explicit opt-outs.
- *Egress*: only addresses that were vetted, all of them, are reached, on every hop,
  and the way a request ends is the way its reply and its audit event say.
- *Release*: what is published was built from the commit the operator named and tested.

## Modules

| Module | Models | Role |
|---|---|---|
| `Guards` | `guards.py`; the executor's reading of one rule | constants, predicates |
| `Executor` | `execute()` | variables and actions shared by its two callers |
| `Runtime` | `_run_impl` | composes `Executor` with gates, model turns and endings |
| `RunContract` | what a run promises its caller | abstract specification `Runtime` implements |
| `ExecutorProofs` | | what a step of `execute()` preserves, for both callers' proofs |
| `DirectCaller` | an embedder calling `execute()` | the other caller of `Executor` |
| `Egress` | `egress.py`, `http_request`, `get_secret` | one request, hop by hop |
| `HttpTool` | `http_request` inside `execute()` | composes `DirectCaller` and `Egress` |
| `HttpToolProofs` | | theorems about `HttpTool` and `DirectCaller` |
| `RuntimeProofs` | | theorems about `Runtime`: mediation, budget, contract |
| `RuntimeTrailProofs` | | theorems about the audit trail of `Runtime` |
| `PolicyGate` | `policy.py`, `_policy_profile_error` | operators: reading, validating, enforcing and comparing a policy set |
| `Startup` | from a request to the first model turn: the exposure check of `mcp_server.py`, the Plan stage, the gates of `_run_impl` | extends `PolicyGate` with the files and their authors |
| `StartupProofs` | | theorems about `Startup` |
| `Archive` | `write_file`, `delete_file`, `restore_file`, `_archive_file`, `_prune_archive` | workers on one workspace |
| `ArchiveProofs` | | theorems about `Archive` |
| `Pipeline` | `run_pipeline` with the default plugins, `audit.py`, request secrets | threads with nested runs, one audit file |
| `PipelineProofs` | | theorems about `Pipeline` |
| `Release` | `release_evidence.py`, `publish_release.py` | builders and publishers on one checkout and one directory |
| `ReleaseProofs` | | theorems about `Release` |
| `MCRuntime`, `MCHttpTool`, `MCStartup`, `MCArchive`, `MCPipeline`, `MCRelease` | | instances for TLC |

### Guards, Executor, Runtime

A tool call is a tool, the value of its `path` argument and a set of *marks*: what
the guards tell apart in the reason and the arguments. A reply is how its
`refused` and `done` keys read (absent, true, false, rejected by the schema) and
the tool call it also holds, if any. The run history `steps` is the code's list
with one history field added, `ran`, which says whether the tool body was entered.

| State | Code |
|---|---|
| `pc`, `gi` | position in `execute()`, index of the rule in its loop |
| `ctx` | `allowed_tools`, `policy_rules`, `run_history`, `directive_id` arguments; `rulesArg = "unrestricted"` is the `UNRESTRICTED` sentinel |
| `reply` | `ToolCallResult` (with `ran`) |
| `steps`, `step`, `auditStep` | `steps`, loop variable, `_audit_step` |
| `log` | the run's audit events: name, step, rule, denied |
| `conf`, `phase`, `turns`, `result` | the deployment, position in `_run_impl`, `generate()` calls, `RunResult` |

Actions follow the code one early return at a time: `RefuseIncompleteContext`,
`RefuseUnknownTool`, `RefuseToolNotAllowed`, `RefuseArguments`, then `SkipRule`,
`PassRule` and `RefuseByRule` per rule, then `ToolReturns`, `ToolRefuses`,
`ToolRaises`. A guard registered by an embedder may give any answer and may replace
a built-in one. `Runtime` adds an action per gate, per ending and for the one
format reminder. A call whose arguments the schema rejects still enters the history
with its raw path, which is why `Paths` has an `Unhashable` value: from then on
`check_no_bulk_writes` raises.

Left out: prompts, transcript messages, wording and redaction of events. Redaction
is taken to leave tool names and paths unchanged, as it does unless they look like
secrets. An exception in the sanitizers or in `json.dumps` of a tool's result would
leave `_run_impl`; the tools of this repository return values that serialise.

### PolicyGate, Startup

`Runtime` takes the outcome of every gate as an input; `Startup` models how a request
comes to that outcome, and ends where `Runtime`'s loop begins. What a guard answers is
`Guards`' again, so "stopped" means the same in both.

| State | Code |
|---|---|
| `directives`, `policies` | the two directories, a function from file names to contents or `Absent` |
| `req` | the arguments of `run()`, `route_and_run()` or the MCP handler, and the two environment variables |
| `phase`, `todo` | position in the Plan stage and in `_run_impl`; files of a listing not yet read |
| `shown` | `available`, the directives the router is offered, by declared id |
| `plan`, `run` | `Plan.directive_meta`; the directive `_run_impl` works with |
| `loaded`, `bindings` | the `policies` list of `_run_impl`: its rules, each with file and position, and the ids of its bindings |
| `event` | `meta["event"]` of the answer, or `unguarded_mode_enabled` |

Between any two reads `Save` may replace, add or remove a file: `load_policies` lists
the directory and then reads file by file, twice per request, and the router path
lists the directives, asks the model, and only then loads the one it picked. A rule
is read with its defaults (`ReadRule`), and `ValidRule`, `Enforceable`, `PostureKept`
and `ProfileOk` are the four judgements passed on it.

Files of a directory are read in any order, which includes the order by name. The
lists under `tools` and `directives` are sets; a reordered list fails the posture
check in the code, and the properties hold for whatever passes it. A YAML file that
raises is `Unreadable`; a directive whose front matter does not parse is one that
declares its own name and no tools, as `load_directive` reads it. The policies
directory itself does not come or go during a request. Left out: descriptions, the
router's policy text, the intro message and `Plan.policies_text`, which nothing
reads.

### Archive

A worker is one run's thread, and each of its steps is one file-system call or one
group of calls no other thread can tell from one. A file is the version of its
content and its mtime; a rename keeps the mtime, as `shutil.move` within a volume
does. An archive name is a timestamp, a flattened path and an attempt number: two
paths may flatten alike (`output/a__b`, `output/a/b`). `O_EXCL` makes `Reserve`
atomic. `written`, `pruned`, `unlisted` and a file's `from` are history: no guard reads
them.

`restore_file` takes any file of the archive directory, and `manifest.jsonl` is one
(`ManifestName`). With `restore_to` it is moved out like the others
(`RestoreManifest`): the files still in the archive lose their rows (`unlisted` has
their names, each until a file is archived under it again), and the next `Record`
starts a manifest anew. Where it went it is a file like any other; its text, of which
no property needs more, is `ManifestText`. A manifest without rows, which only a failed
append can leave, is taken as absent.

`Tick` does not pass while a call in progress is as old as the retention period
(30 days in the code), so a call spans less than that. Choosing which of several
files of equal mtime goes first is left open, as directory order is.

An I/O error (`faults`, bounded by `MaxFaults`) may strike the move (`MoveFails`, which
gives the reservation back), the manifest append (`RecordFails`, with the file already
moved), the write (`WriteFails`, before or after the file was created), the restore's
move (`RestoreFails`), the listing's `stat` (`StatFails`) and an unlink of the prune
(`PruneFails`): there the tool returns an error and no `archive_pruned` event is
written for what was unlinked before, which the history variable `unaudited` holds.
The properties that only hold of calls without an error say so in their statement.

### Egress, HttpTool

`HttpTool` is `DirectCaller`'s embedder with `http_request` as the one tool whose body
is spelt out: from the moment `execute()` enters it until `BodyEnds`, the steps are
`Egress`'s, and the way the request ended decides which of `ToolReturns`, `ToolRefuses`
and `ToolRaises` follows. The other tools end in any of the three ways.

| State | Code |
|---|---|
| `req` | one `guarded_request`: the hop's URL (`target`), redirects so far, the answer of `getaddrinfo` and the addresses of it not yet tried, how it ended |
| `pool` | the session's live connections, which urllib3 reuses for the same scheme, host and port |
| `dns`, `rebinds` | what looking each host up gives now; `Rebind` changes it at any step |
| `proxied` | the targets for which the environment configures a proxy |
| `opened` | history: every connection of the request, with the answer it was chosen from |

| Action | Code |
|---|---|
| `RefuseRequest`, `LoseCredential`, `SendRequest` | the tool's refusals in order (scheme, method, alias, proxy); a secret store that raises, outside the tool's `try` (`http_request_tools.py:68`); the request leaves |
| `NoAdapter` | the mount table of `guarded_session` |
| `LookupFails`, `Blocked`, `Resolve` | `_guarded_new_conn` up to line 201: one denied address refuses the whole answer |
| `Connect`, `DialTimesOut`, `DialFails` | its second loop: a timeout ends it, another `OSError` goes on to the next address |
| `Reuse`, `Relay`, `Redirect`, `Answered`, `BreaksOff` | external: `requests`, urllib3, the server |

Which addresses are denied is the constant `Denied`: `address_is_denied` is a function
of one address. A relayed hop is one whose URL has a configured proxy; the code refuses
the first URL if it has one, and leaves later hops to `requests`, which honours the
environment. `_configured_proxy` also answers "none" when reading the environment
raises, which is not modelled. Headers, bodies, TLS and the 10,000 character cut are
left out.

### Release

Builders and publishers are invocations of the two commands, which a developer may
start several of. The environment moves HEAD, index and files (`Move`), and drops,
removes or links files of the directory, within `Budgets`.

| State | Code |
|---|---|
| `repo` | HEAD, the tree of the index, the tree of the files: what the git commands of `inspect_source_identity` read one after the other |
| `job` | `build_release_evidence`: position, the order, the identity read, the artifacts in the temporary directory, their digests, the gates run |
| `pub` | `publish`: position, the record it loaded, the bytes it found in order |
| `dir`, `record` | the output directory and `release-evidence.json`; `Torn` is half a file, `Mixed` one of two writers |
| `index` | the package index, which refuses a file name it has |
| `overtaken` | history: publishers a checked file of which was written to before its upload |

A copy and the record are opened and closed in two steps each, so a reader can meet
half of it, and a builder that takes no further step is one that was killed. An
artifact's bytes are named by the build they came from and the tree it was made of;
a digest stands for the bytes it was taken of. `UploadFails` and `AnswerLost` are
twine's failures, after which the operator may start another publisher.

### Pipeline

| State | Code |
|---|---|
| `ctx` | the context variables of a thread: `_audit_run_id`, `_audit_sequence`, `_audit_collector`, `_request_secrets` |
| `stack`, `stage` | the `run_pipeline` calls in progress on a thread, and the stage each is in |
| `token` | the tokens in `AuditRunContext` |
| `held` | each run's `audit_events` list; `ctx.collector` names the run whose list it is |
| `sink` | `write_audit_records`: position in the loop, records handed over but not yet written out, its two counters, and whether the handle has failed |
| `file` | the JSONL file, shared by all threads |
| `result` | `audit_persisted` and the count in `audit_errors` |

Context variables belong to a thread (`asyncio.to_thread` copies the context for each
MCP request); a thread's runs nest because a tool may call `run()`. `BeginRun`
stands for everything up to intake, `Leave` for the two `finally` clauses.
Everything a run does besides writing events is in its stage: a plan may end in a
`RouterOutcome`, intake, plan, execute and verify may raise. An event is `Rejected`
(its number is used), `Collected`, or written `ToFile`, where an `OSError` goes to
the operator log only.

A text handle opened for appending buffers: `HandOver` counts a record (`Handed`), `Push`
writes out what is buffered when the buffer is full, `CloseSink` writes the rest, and
each of the two writes can fail part of the way. After a failure the code leaves the
loop and the `with` block closes the handle, which tries again with what it still
has. A record written out is whole: the half line a short write can leave, and the
record of a later run that is appended to it, are not modelled.

## Runs

Passing:

| Run | Instance | Question |
|---|---|---|
| `runtime_shipped` | the seven enforceable shipped rules, 3 steps, budget 2, six calls that trip each rule in some order | `WriteBudgetHolds`, `BulkWriteLeavesTrace`, `ImplementsContract`, `RunEnds`, `TypeOK` |
| `runtime_gates` | every combination of gate outcomes with limits -2, 0, 1 and 2 and one registered tool out of scope, and a custom profile of missing, custom, misspelled ("Block") and directive-scoped rules with every tool in scope; every combination of reply keys, calls out of scope, unregistered and malformed | `EndingIsRecorded`, `UnguardedIsAnnounced`, `ModelCallBound`, `AuditInStepOrder`, `TranscriptMatchesAudit`, `MediatedHistory` |
| `http_tool` | absent, empty, real and UNRESTRICTED security inputs, 2 calls of three tools; two hosts whose answer may be empty, public or mixed and changes once; four targets, one behind a proxy, one with no adapter; two redirects; an alias that is missing or whose store raises | `ClearedToInvoke`, `OnlyVettedReached`, `RefusalIsTold`, `CallEndsOrServerHolds` |
| `pipeline_runs` | two threads, two runs in any arrangement (nested, in turn, concurrent), three events, any errors | `SecretsStayWithTheirRun`, `CollectorIsLive`, `EventsNameTheirRun`, `SequenceIncreases`, `LossIsReported`, `FileKeepsOrder`, `TypeOK` |
| `startup_requests` | 21 requests (two directives, the router, an override, MCP, every mix of opt-out, profile and missing directory), two saves out of 29 edits between any two reads | `ReviewedRefusalsKept`, `NoRuleIsDead`, `UnguardedIsChosen`, `ExposedSnapshot`, `TypeOK` |
| `archive_single` | one worker, all tools, two paths with one flat name, clock to 2 with retention 1, cap of one file, 5 calls, one I/O error at any step | `NothingLost`, `ManifestCoversArchive`, `NothingReplaced`, `RestoreGoesHome`, `PruneEnforcesCaps`, `TypeOK` |
| `archive_reserve` | two workers writing and deleting files of one flattened name, one second, one I/O error, nothing to prune, 5 calls | `NothingLost`, `MoveLandsOnPlaceholder` |
| `release_candidates` | two builders and two publishers, release, unlabelled and pull-request orders of two commits; two moves of the checkout or one disturbance of the directory | `RecordIsEarned`, `VerifiedIsTested`, `PublishedWasTested`, `ReleaseIsOneBuild`, `TypeOK` |

Violations, each one a statement of the repository that the code does not keep:

| Run | Statement | What happens |
|---|---|---|
| `pipeline_lost_count` | README.md:529, `audit_errors` says how many records were lost | records are counted when the handle takes them; if they fail at close the caller reads "0 of 5 record(s) not persisted" (`audit.py:264`, `269`) |
| `archive_retention` | `delete_file`'s docstring, archived files are pruned after 30 days | pruning goes by mtime, which the move keeps: a file not modified for 30 days is unlinked by the call that archives it |
| `startup_narrowed` | `docs/API.md:357`, "editing one so it stops enforcing refuses"; `policy.py:269`, "every reviewed rule is present and unmodified" | the posture compares four fields and not `directives` (`policy.py:262`): a reviewed rule limited to another directive passes the shipped profile, and the run starts without it |
| `archive_name_reuse` | the comment in `_reserve_archive_name`, the move can only land on our own placeholder | a prune in progress removes by name: placeholder freed, name listed, reserved again, unlinked |

`archive_name_reuse` can destroy an archived file: with seven calls `NothingLost`
fails in that instance. An expired name is freed, reserved again by a path that
flattens alike, unlinked by the stale prune, and reserved once more; the two moves
collide. `archive_reserve` therefore prunes nothing, and `archive_single` has one
worker.

Divergences that have no run:

- With two workers on one path `NothingReplaced` fails: `write_file` looks for an
  existing file once (`file_tools.py:358`) and writes later (366), and `restore_file`
  checks its destination (702) before it moves (710). A file another run puts there in
  between is replaced with no backup.
- `route_and_run` says it returns a `RunResult` (`orchestrator.py:673`), and a named
  directive that does not load is "ordinary user error, not a crash" (302). A directive
  the router picks is loaded outside any `try` (520): if its file name is not its
  declared id, or it went away meanwhile, the exception reaches the caller
  (`PickedFails`, `ListedVanished`).
- An override is not looked at by `allowed_directive_ids` (`orchestrator.py:274`; the
  docstring at 640 says a directive runs only when its id is in the set), and is itself
  ignored when `directive_id` is empty (`plugins/default.py:44`). No caller in the
  repository passes both. `ExposedSnapshot` excepts it by name.
- A directive name under a rule's `directives` is not checked, as a tool name under
  `tools` is: a misspelled one leaves the rule off. `NoRuleIsDead` speaks of tools only.
- README.md:698 says one model call per step; the format reminder
  (`orchestrator.py:972`) is a second (`docs/FAQ.md:52` has it right, and
  `ModelCallBound` checks that).
- `docs/API.md:200` says a failure the tool itself reported writes no audit event;
  `executor.py:428` writes `tool_refused` (`TranscriptMatchesAudit` relies on it).
- `docs/API.md:502` says an `http_request` is refused outright when a proxy is
  configured. The code asks for the first URL (`egress.py:299`); a redirect to a URL
  that has one while the first has none is left to `requests` (`Relay`).
  `OnlyVettedReached` excepts such a hop by name.
- A prune whose unlink raises half-way (`PruneFails`) leaves files gone with no
  `archive_pruned` event, against the comment "Silence still means nothing was
  destroyed" (`file_tools.py:517`). `NothingLost` admits them by name (`unaudited`).
- "The manifest holds the authoritative path" of an archived file (`file_tools.py:428`),
  and `restore_file`'s description says to "check the manifest" for a name (607). But
  `restore_file("manifest.jsonl", restore_to="output/x")` passes its checks (622-626)
  and moves the manifest out of the archive (710): no file then in the archive has a
  row, a restore by name alone of any of them is refused, and no error was reported.
  Without the disjunct `n \in unlisted`, `ManifestCoversArchive` fails in
  `archive_single` in 13 steps; with it, it says what is left: whatever is archived
  afterwards has its row.
- After a manifest append that failed, a reused archive name has only its older row,
  and a restore by name alone goes to that row's path (`RestoreGoesHome` is stated
  while no error strikes).
- README.md:635 says the artifacts `publish_release.py` uploads are necessarily the
  ones that were tested. They are those whose digests it checked; twine opens the paths
  again (`publish_release.py:408`), and a file written to in between goes out as it then
  is. `PublishedWasTested` is stated for publishers that were not `overtaken` so.
- `inspect_source_identity` refuses unless HEAD, index and checkout are one commit
  (`release_evidence.py:109`), and reads them by four git commands (140-154): a checkout
  that moves between them can pass although it was never all three at once. What is
  built is the named commit all the same, exported by `git archive`, on which
  `RecordIsEarned` rests.
- A delete whose prune raises, because another prune removed a listed file
  (`file_tools.py:495`), reports `deleted: False` for a file it did archive.

Two properties share operators with the actions they judge. `MediatedHistory` asks of
the recorded history what the rules say by `Stops` and `Refuses`, by which the loop
also decides: it finds a rule that was skipped, cut short or judged against the wrong
history. `ClearedToInvoke` asks again what `EnterGuards` asks. Neither would find a
wrong entry in those tables themselves (`on_error` crossed with `enforcement`, an empty
rule list against an omitted one): they are to be compared with `executor.py:305` and
`executor.py:133`.

### Bounds

- *Steps and calls.* Mediation and the budget need a history with one write more
  than the budget: 3 steps with budget 2. The bulk-write guard needs one malformed
  and two good writes: 3. A lost archived file needs a write, an overwrite or
  delete, and a second call onto the same name: 4 calls; 5 let a restore come
  between.
- *Runs and events.* Two runs are enough for a run inside, after and beside
  another. Three events let an outer run write before and after an inner one, the
  least that shows its numbers restored, or let a flush fail with one record written,
  one buffered and one not yet handed over. `pipeline_lost_count` has four. Deeper
  nesting is left to the proofs.
- *Saves.* Two: a rule can move from a file not yet read into one already read, or
  the other way, so that the set loaded was never in the directory. Three of the
  seven reviewed rules (one scoped, one for all tools, one that only warns) meet every
  branch of the posture check; the edits change one field of one rule each, to every
  kind of value the code tells apart.
- *Time.* Retention 1 with clock 2 lets a file expire while another one is being
  archived, and lets names of three seconds (0 to 2) coexist. Where only name reuse matters the
  clock is held at 0, so that all names collide.
- *Cap.* One file: every second archived file triggers the size pass. Sizes are 1
  for a file with content and 0 for a placeholder or failed write.
- *Faults.* One: the code has no retry, so a second error meets the same handlers. What
  it can meet besides is what the first left, an archive over the cap: the theorems
  about one worker hold for any number of errors, and `PruneEnforcesCaps` was checked
  with two (its exception for a call that gives its reservation up comes from there).
  With an error `RestoreGoesHome` can fail (the file whose row was not written is
  later reached by name through the row of another path), so it speaks of the states
  before one.
- *Requests.* Two public addresses and a denied one make every kind of answer: empty,
  all good (one that cannot be dialled, one that can), mixed. A name that changes once
  can do so between lookup and dial or between two hops; two redirects reach a third
  hop, the first that can ride on a connection of either of the others. Two calls let
  the second find what the first left.
- *Releases.* Two builders and two publishers are every pair that can meet. Two moves
  take HEAD away and back between two git commands; a disturbance of the directory is
  one file dropped, removed or linked, or all of them removed. Moves and disturbances
  are taken apart, as they meet different checks.

### Fairness

`FairSpec` is weak fairness of `Next`. A run is one thread; `generate()` and the
tools return or raise, the HTTP backends and `http_request` have timeouts, and
everything else is straight-line code. Nothing else is assumed, so `RunEnds` rests
on the loop bound and on the guard loop advancing. The archive and the pipeline have
safety properties only: their loops are over finite lists. So has the release, whose
commands promise nothing when they are killed.

`FairHttpSpec` is weak fairness of `CallRuns`: the steps of `execute()`, the code of a
request, the resolver's answer, the dialling (every dial has the tool's timeout) and
the end of the body. It is not assumed that the embedder calls again, that names
change, or that a server answers: `timeout` is one of each read, so a server that sends
a byte before each expires holds the call, and `CallEndsOrServerHolds` says that
nothing else does.

## Proofs

`RuntimeProofs` proves for every set of tools, paths, rules, deployments and
replies, every budget and every step limit, from the assumptions named in `Guards`,
`Executor` and `Runtime` (types of the constants, that `NoCall` is not a call, and
that `NoStep` is negative). What a step of `execute()` preserves is proved once, in
`ExecutorProofs`: its types (`ExecuteStepTyped`) and the call's clearance
(`ExecuteClears`).

- `TypeCorrect`: `Spec => []TypeOK`.
- `HistoryMediated`: `Spec => []MediatedHistory`. `MediatedHistory` speaks of the
  finished calls only, so it is not inductive. `MediatedCall` adds what the call in
  progress has established: the context is the run's, the call was admitted, and no
  rule before `gi` stops it. `StopsOfEntry` carries this to the recorded entry and
  `PrefixKept` to the longer history.
- `BudgetHolds`: `Spec => []WriteBudgetHolds`. From mediation: the enforced budget
  rule stops any write tool once the history holds `Budget` of them
  (`BudgetStops`), so a write that ran found fewer, and recording it adds one
  (`EffectsCounted`).
- `ContractSafety`: every run starts in a state of `RunContract` and takes only its
  steps or stutters, the safety part of `ImplementsContract`.

`RuntimeTrailProofs` proves the other invariants of `Runtime` the runs check, from the
same assumptions. The trail is append-only (`Extends`), and `AddedAt` says of each step
which events it adds and under which step; the rest is what each phase has added so far:

- `TrailInStepOrder` (`AuditInStepOrder`) and `UnguardedAnnounced`, by `Attribution`:
  before the loop there is no event, in it none is of a later step, and a step about to
  be asked for has none. `Announced` puts the announcement at the head of the trail as
  soon as an unguarded run is past its gates. The proof showed that `AuditInStepOrder`
  must except events of no step: with a `max_steps` below zero the exhausted loop's own
  event names `max_steps - 1`, which comes before `NoStep` as a number.
- `ModelCallsBounded` (`ModelCallBound`), by `TurnsCounted`.
- `EndingRecorded` (`EndingIsRecorded`): no step but an ending adds a terminal event.
- `TranscriptMatched` (`TranscriptMatchesAudit`), by `CallMatchesAudit`: a call in
  progress has no explanation of a failure until it has failed, and then has one.
- `BulkWriteTraced` (`BulkWriteLeavesTrace`), by `CallLeavesTrace`: every bulk rule the
  guard loop has passed left its trace. It needs `check_no_bulk_writes` to be the
  built-in guard: a deployment may register another under that name
  (`CustomGuards`), which may let anything pass silently.

`StartupProofs` proves, for any files, edits, requests, reviewed posture and number
of saves, all that `startup_requests` checks: `TypeCorrect`, `RefusalsKept`,
`RulesAreLive`, `UnguardedChosen` and `SnapshotExposed`. What a started run relies on
was established stages earlier, so the inductive invariant (`StagesChecked`) carries
it there:

- `DirectiveChecked`: at each phase, what has been checked of the directive so far,
  from the exposure of a named id to the equality of `plan` and `run`.
- `PoliciesJudged`: a running request's rules are valid, and unguarded by choice or
  approved by the profile; while they are being read, the directory exists.

`RefusalsKept` then needs no history. A reviewed rule that passed has exactly one
copy among the enforceable rules, with the reviewed posture; if that copy covers the
directive, it stops what the reviewed rule stops (`PostureStops`,
`RefusalsFromProfile`), whatever other rules were added around it. `RulesAreLive`
rests on `ValidRuleAnswers`. The assumptions are those named in `PolicyGate` and
`Startup`: types of the constants, distinctness of the special values, and that the
MCP handler passes its exposure list and no override.

`PipelineProofs` proves, for any number of threads, runs and events and any depth
of nesting, `SecretsScoped`, `CollectorScoped`, `EventsAttributed` and
`SequenceStrict`: the invariants of the same names in `Pipeline`. They rest on one
inductive invariant, `Nest` (theorem `RunsNest`):

- `Distinct`: a run is on one stack, once.
- `ContextOfInnermost`: the run id in a thread's context is that of its innermost
  run, and each token holds the id of the run below. Without it, leaving a run could
  restore anything.
- `NumbersClaimed`: a run's events are numbered at most by the number in its
  thread's context or, while an inner run is on, in the inner run's token. This is
  what makes the next number larger, also after an inner run has ended.

One lemma per way a step changes the stack (`BeginNests`, `LeaveNests`,
`StageNests`, `ClaimNests`) shows that `Nest` is kept.

The records have an inductive invariant of their own, `Trail` (theorem `TrailKept`),
which is `Nest` and:

- `RecordTypes` and `Early`: with `Nest`, the types (`PipelineTypeCorrect`), among them
  that a flush never counts more records than it has looked at; before it executes a
  run holds nothing, and before it flushes its sink is closed.
- `Held`: a record in a list, a buffer or the file is an event that was made; each list
  and each buffer is in the order its events were made, and what is buffered was handed
  over.
- `InOrder`: the records of a run with no run inside or around it are held by nobody
  else, and those in the file come before those it still has to write. This gives
  `FileOrderKept` (`FileKeepsOrder`): whatever other threads append in between, and
  wherever a write fails, no record of such a run is twice in the file or out of order.
- `HandedOver`: while a flush has met no failure, what it handed over is in the file or
  in the buffer. So at its end nothing is missing, or the result says that something
  is: `LossAlwaysReported` (`LossIsReported`).

Assumed: `NoRun` is not a run id, and fresh run ids (uuid4) do not repeat.

`HttpToolProofs` proves for any hosts, addresses, answers, redirects, proxies, stores
and changes of the DNS, and any contexts, rules and calls of the embedder:

- `HttpTypeCorrect`: `HttpSpec => []EgressTypeOK`.
- `VettedOnly`: `HttpSpec => []OnlyVettedReached`. The property does not say what the
  request holds before it is connected; `VetInv` adds that what is left to dial is part
  of an answer with no denied address, even if the name answers otherwise by now, and
  that the pool holds only connections this request opened.
- `CallerCleared`: `Spec => []ClearedToInvoke` for any embedder (`DirectCaller`), by
  `Clearing`: past the context check the call is in scope, and no rule before `gi`
  stops it. `HttpImplementsCaller` (`HttpSpec => Spec`, each step of a request is a
  stutter and its end one of the three ways a body ends) carries it to `HttpCleared`.
- `OutcomeTold`: `HttpSpec => []RefusalIsTold`, by `ToldInv`: outside the body no
  request is in progress, nothing is open before the first connection of the first
  hop, and a request that is over has ended as its connections allow.

`ArchiveProofs` proves for any number of workers, paths, flattenings, caps and clocks:

- `TypeCorrect`: `Spec => []TypeOK`. A call from its reservation on has a name and the
  archive is finite, so the search for a free name ends (`Typed`, `FreeName`'s lemma).
- `ManifestCovers`: `Spec => []ManifestCoversArchive`, for the files archived since the
  manifest was last itself moved out. The property asks for some worker
  that is about to record the file; `Covered` says that it holds the path the row will
  give, which is what makes it inductive.

What several workers can undo of each other's work is a finding above, so the other
theorems have a hypothesis on the constants. `Alone` is one worker, with any tools,
paths, caps, clock and I/O errors. `Apart` is any number of workers that write and
delete, each at paths of its own, though these may flatten alike, where nothing is old
enough or too much to prune: the instance of `archive_reserve` for every number of
workers, calls and errors.

- `MoveIntoPlaceholder`, `NothingIsReplaced` and `NoContentLost`
  (`MoveLandsOnPlaceholder`, `NothingReplaced`, `NothingLost`) hold under either. They
  rest on `Undisturbed`: a call finds its reservation, the file it moved and
  the path it looked at as it left them. For one worker it is inductive. For workers
  apart it needs `KeptApart`: no two hold one name, as a reservation takes a free one
  (`FreeNameIsFree`, by the pigeonhole principle) and nothing is unlinked; and nothing
  is unlinked, as the archive has no more files than calls (`Counted`) and no prune has
  anything due. `Lossless` then follows a content from step to step: one leaves its path
  for a name that held none, or the archive for a free path or for `pruned`.
- `CapsEnforced` (`PruneEnforcesCaps`) under `Alone`, by `PruneSeesAll`: what a prune has
  listed is what is in the archive, until it unlinks.
- `RestoresGoHome` (`RestoreGoesHome`) under `Alone`, by `Homeward`, `Covered` and
  `Unlisted`: while no I/O error strikes only a reservation is empty, so whatever a
  restore can name has its row, or lost it with the manifest and has none at all; and
  if it has one original only, that is where the file came from.

`ReleaseProofs` proves for any number of builders and publishers, any checkouts and any
interference all that `release_candidates` checks: `TypeCorrect`, `RecordEarned`,
`VerifiedTested`, `PublishedTested` and `OneBuildReleased`. The inductive invariant
(theorem `InvHolds`) follows an artifact through the two commands:

- `JobsInv`: what a builder has established at each phase; from the recheck on its
  candidate is what it built from the named commit and tested.
- `RecordInv`: a whole record was written by a builder that got that far. Only
  `CloseRecord` puts one in place, since two writers leave `Mixed`.
- `PubsInv`: a cleared publisher holds such a record, permitted by its order, and the
  bytes it checked are the record's.
- `WindowInv`: until it is sent, a checked file is what was checked, or its publisher is
  in `overtaken`.
- `IndexInv`: an entry is what its publisher had checked, the wheel comes before the
  sdist, and the two are of one build.

Only model-checked: liveness (`RunEnds`, `CallEndsOrServerHolds` and the fairness of
`RunContract`, hence `ImplementsContract` as a whole), which the prover has no means for.
Every other property of a passing run is a theorem, those of the archive under the
hypotheses above: where several workers share paths or prune at once only the types and
`ManifestCovers` are proved, since the rest can fail there.

## Not modelled, and the plan

Already there, in this order: `Guards`, `Executor`, `Runtime` with `RunContract`,
`DirectCaller`, `RuntimeProofs`, `Archive`, `Pipeline`, `PipelineProofs`,
`PolicyGate`, `Startup`, `StartupProofs`, `Release`, `ReleaseProofs`, `ArchiveProofs`,
`Egress` with `HttpTool`, `ExecutorProofs`, `HttpToolProofs`, `RuntimeTrailProofs`. Next,
most important first:

1. What is left of the archive with several workers that prune: which properties hold
   when reservations are never listed, and a proof of them.
2. `ImplementsContract` once more as a refinement of `RunContract` with its audit trail,
   so that the theorems of `RuntimeTrailProofs` become part of the contract.
3. Records at the level of bytes in the audit file, for the short write at
   `audit.py:248`.

Left out for good: model backends, the command line, path lookup, schemas of
arguments (a mark), the classification of sensitive paths and the redaction of text
(functions on strings, tested by tables in the repository), read-only tools.
