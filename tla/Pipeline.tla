------------------------------ MODULE Pipeline ------------------------------
(***************************************************************************)
(* run_pipeline() of auro_runtime/pipeline/runner.py with the default      *)
(* plugins, and the audit log and request secrets it manages.  Run id,     *)
(* sequence number, collector and secrets are context variables: one value *)
(* per thread, all threads append to one file.  A tool body may call run() *)
(* itself, so the runs of a thread form a stack.                           *)
(*                                                                         *)
(* An event is who wrote it and the envelope it got.  _audit_step is saved *)
(* and restored with the sequence number and left out.  A raw write lands  *)
(* whole records: the torn line of a short write is left out.              *)
(***************************************************************************)
EXTENDS Integers, Sequences, SequencesExt, FiniteSets, TLC

CONSTANTS
  Threads,
  Runs,       \* the uuids begin_audit_run may draw
  NoRun,      \* None
  MaxEvents   \* bound on the calls of write_audit_event

ASSUME NoRunAssumption == NoRun \notin Runs
ASSUME MaxEventsAssumption == MaxEvents \in Nat

VARIABLES
  ctx,      \* the context variables of each thread
  stack,    \* the runs in progress on each thread, innermost last
  stage,    \* where each run is
  token,    \* the run and sequence number end_audit_run restores
  held,     \* audit_events, the list the run's collector fills
  sink,     \* write_audit_records in progress
  file,     \* the records in the JSONL file
  result,   \* meta["audit_persisted"] and the count in meta["audit_errors"]
  made,     \* history: every event, in the order it was assembled
  warned    \* history: the events whose loss went to the operator log only

vars == <<ctx, stack, stage, token, held, sink, file, result, made, warned>>

RunOrNone == Runs \cup {NoRun}

Stage == {"fresh", "plan", "execute", "verify", "flush", "returned", "raised"}

\* writer is history: the run that was innermost when the event was written.
Event == [event_id : Nat, writer : RunOrNone, run : RunOrNone, seq : Nat,
          valid : BOOLEAN]

Sink == [next : Nat, pending : Seq(Event), written : Nat, rejected : Nat,
         failed : BOOLEAN]
Closed == [next |-> 1, pending |-> <<>>, written |-> 0, rejected |-> 0,
           failed |-> FALSE]

\* "absent": the result has no audit_persisted.
Result == [persisted : {"absent", "true", "false"}, lost : Int]
NoResult == [persisted |-> "absent", lost |-> 0]

TypeOK ==
  /\ ctx \in [Threads -> [run : RunOrNone, seq : Nat, collector : RunOrNone,
                          secrets : RunOrNone]]
  /\ stack \in [Threads -> Seq(Runs)]
  /\ stage \in [Runs -> Stage]
  /\ token \in [Runs -> [run : RunOrNone, seq : Nat]]
  /\ held \in [Runs -> Seq(Event)]
  /\ sink \in [Runs -> Sink]
  /\ \A r \in Runs : sink[r].written + sink[r].rejected < sink[r].next
  /\ file \in Seq(Event)
  /\ result \in [Runs -> Result]
  /\ made \in Seq(Event)
  /\ warned \in SUBSET Event

Init ==
  /\ ctx = [t \in Threads |-> [run |-> NoRun, seq |-> 0, collector |-> NoRun,
                               secrets |-> NoRun]]
  /\ stack = [t \in Threads |-> <<>>]
  /\ stage = [r \in Runs |-> "fresh"]
  /\ token = [r \in Runs |-> [run |-> NoRun, seq |-> 0]]
  /\ held = [r \in Runs |-> <<>>]
  /\ sink = [r \in Runs |-> Closed]
  /\ file = <<>>
  /\ result = [r \in Runs |-> NoResult]
  /\ made = <<>>
  /\ warned = {}

Busy(t) == stack[t] # <<>>
Innermost(t) == IF Busy(t) THEN Last(stack[t]) ELSE NoRun
InStage(t, s) == Busy(t) /\ stage[Last(stack[t])] = s

-----------------------------------------------------------------------------
(* Entering and leaving a run.                                             *)

\* Mutant: secrets are set only when the caller supplies some.
BeginRunKeepsSecrets(t, r, secrets) ==
  /\ Busy(t) => InStage(t, "execute")
  /\ stage[r] = "fresh"
  /\ stage' = [stage EXCEPT ![r] = "plan"]
  /\ stack' = [stack EXCEPT ![t] = Append(@, r)]
  /\ token' = [token EXCEPT ![r] = [run |-> ctx[t].run, seq |-> ctx[t].seq]]
  /\ ctx' = [ctx EXCEPT ![t] =
               [@ EXCEPT !.run = r, !.seq = 0,
                         !.secrets = IF secrets = NoRun THEN @ ELSE secrets]]
  /\ UNCHANGED <<held, sink, file, result, made, warned>>

\* begin_audit_run and set_request_secrets.  The collector is not saved.
BeginRun(t, r, secrets) ==
  /\ Busy(t) => InStage(t, "execute")
  /\ stage[r] = "fresh"
  /\ stage' = [stage EXCEPT ![r] = "plan"]
  /\ stack' = [stack EXCEPT ![t] = Append(@, r)]
  /\ token' = [token EXCEPT ![r] = [run |-> ctx[t].run, seq |-> ctx[t].seq]]
  /\ ctx' = [ctx EXCEPT ![t] =
               [@ EXCEPT !.run = r, !.seq = 0, !.secrets = secrets]]
  /\ UNCHANGED <<held, sink, file, result, made, warned>>

\* Mutant: the run id is restored and the sequence number is not.
RestoredWithoutSequence(t, r) ==
  [ctx[t] EXCEPT !.run = token[r].run, !.secrets = NoRun]

\* Mutant: the outer run's id is not restored.
RestoredWithoutRun(t, r) ==
  [ctx[t] EXCEPT !.seq = token[r].seq, !.secrets = NoRun]

\* clear_request_secrets and end_audit_run.
Restored(t, r) ==
  [ctx[t] EXCEPT !.run = token[r].run, !.seq = token[r].seq, !.secrets = NoRun]

Leave(t, how, context) ==
  /\ stage' = [stage EXCEPT ![Last(stack[t])] = how]
  /\ stack' = [stack EXCEPT ![t] = Front(@)]
  /\ ctx' = [ctx EXCEPT ![t] = context]

\* A RouterOutcome: there is no execute stage and nothing is flushed.
RouterOutcome(t) ==
  /\ InStage(t, "plan")
  /\ Leave(t, "returned", Restored(t, Last(stack[t])))
  /\ UNCHANGED <<token, held, sink, file, result, made, warned>>

\* Mutant: an exception leaves the collector set.
StageRaisesKeepsCollector(t) ==
  /\ \E s \in {"plan", "execute", "verify"} : InStage(t, s)
  /\ Leave(t, "raised", Restored(t, Last(stack[t])))
  /\ UNCHANGED <<token, held, sink, file, result, made, warned>>

\* A plugin raises.  Execute's `finally` takes the collector away first.
StageRaises(t) ==
  /\ \E s \in {"plan", "execute", "verify"} : InStage(t, s)
  /\ LET restored == Restored(t, Last(stack[t])) IN
       Leave(t, "raised", IF InStage(t, "execute")
                          THEN [restored EXCEPT !.collector = NoRun]
                          ELSE restored)
  /\ UNCHANGED <<token, held, sink, file, result, made, warned>>

-----------------------------------------------------------------------------
(* The stages up to the flush.                                             *)

EnterExecute(t) ==
  /\ InStage(t, "plan")
  /\ stage' = [stage EXCEPT ![Last(stack[t])] = "execute"]
  /\ ctx' = [ctx EXCEPT ![t].collector = Last(stack[t])]
  /\ UNCHANGED <<stack, token, held, sink, file, result, made, warned>>

LeaveExecute(t) ==
  /\ InStage(t, "execute")
  /\ stage' = [stage EXCEPT ![Last(stack[t])] = "verify"]
  /\ ctx' = [ctx EXCEPT ![t].collector = NoRun]
  /\ UNCHANGED <<stack, token, held, sink, file, result, made, warned>>

\* Events are written outside a run, while planning and while executing.
Writes(t) == Busy(t) => InStage(t, "plan") \/ InStage(t, "execute")

\* _next_sequence: outside a run there is no number, here 0.
NextSequence(t) == IF ctx[t].run = NoRun THEN 0 ELSE ctx[t].seq + 1

\* One event assembled: the number is claimed before the record is validated.
Assemble(t, valid) ==
  [event_id |-> Len(made) + 1, writer |-> Innermost(t), run |-> ctx[t].run,
   seq |-> NextSequence(t), valid |-> valid]

Claim(t, event) ==
  /\ Len(made) < MaxEvents
  /\ made' = Append(made, event)
  /\ ctx' = [ctx EXCEPT ![t].seq = IF ctx[t].run = NoRun THEN @ ELSE @ + 1]
  /\ UNCHANGED <<stack, stage, token, sink, result>>

\* A record rejected while it is assembled is dropped, its number used.
EventRejected(t) ==
  /\ Writes(t)
  /\ Claim(t, Assemble(t, FALSE))
  /\ UNCHANGED <<held, file, warned>>

EventCollected(t) ==
  /\ Writes(t)
  /\ ctx[t].collector # NoRun
  /\ LET event == Assemble(t, TRUE) IN
       /\ Claim(t, event)
       /\ held' = [held EXCEPT ![ctx[t].collector] = Append(@, event)]
  /\ UNCHANGED <<file, warned>>

EventToFile(t) ==
  /\ Writes(t)
  /\ ctx[t].collector = NoRun
  /\ LET event == Assemble(t, TRUE) IN
       /\ Claim(t, event)
       /\ \/ file' = Append(file, event) /\ UNCHANGED warned
          \/ warned' = warned \cup {event} /\ UNCHANGED file   \* OSError
  /\ UNCHANGED held

-----------------------------------------------------------------------------
(* DefaultPersist: write_audit_records(audit_events).  The handle buffers: *)
(* a record handed to it reaches the file when the buffer is pushed out or *)
(* the handle closed, and either can fail.                                 *)

Flushing(t, r) == InStage(t, "flush") /\ r = Last(stack[t])
Handing(r) == sink[r].next <= Len(held[r]) /\ ~sink[r].failed

\* The run's result, its secrets cleared and the outer context restored.
Report(t, r, persisted, lost) ==
  /\ result' = [result EXCEPT ![r] = [persisted |-> persisted, lost |-> lost]]
  /\ Leave(t, "returned", Restored(t, r))
  /\ UNCHANGED <<token, held, made, warned>>

Lost(r) == Len(held[r]) - sink[r].written - sink[r].rejected

\* open() fails, or succeeds and the loop begins.
OpenSink(t, r) ==
  /\ InStage(t, "verify") /\ r = Last(stack[t])
  /\ \/ /\ stage' = [stage EXCEPT ![r] = "flush"]
        /\ UNCHANGED <<ctx, stack, token, held, sink, file, result, made, warned>>
     \/ /\ Report(t, r, "false", Lost(r))
        /\ UNCHANGED <<sink, file>>

\* Mutant: a record that is rejected is handed over again.
HandedStuck(s, record, accepted) ==
  IF accepted
  THEN [s EXCEPT !.next = @ + 1, !.written = @ + 1,
                 !.pending = Append(@, record)]
  ELSE [s EXCEPT !.rejected = @ + 1]

\* One record taken, or rejected when it is serialised.
Handed(s, record, accepted) ==
  IF accepted
  THEN [s EXCEPT !.next = @ + 1, !.written = @ + 1,
                 !.pending = Append(@, record)]
  ELSE [s EXCEPT !.next = @ + 1, !.rejected = @ + 1]

HandOver(t, r, accepted) ==
  /\ Flushing(t, r) /\ Handing(r)
  /\ sink' = [sink EXCEPT ![r] = Handed(@, held[r][sink[r].next], accepted)]
  /\ UNCHANGED <<ctx, stack, stage, token, held, file, result, made, warned>>

\* Mutant: what was pushed out stays in the buffer.
PushKeeps(t, r) ==
  /\ Flushing(t, r) /\ Handing(r)
  /\ sink[r].pending # <<>>
  /\ file' = file \o sink[r].pending
  /\ UNCHANGED <<ctx, stack, stage, token, held, sink, result, made, warned>>

\* The buffer is full: handing over the next record pushes it out first.
Push(t, r) ==
  /\ Flushing(t, r) /\ Handing(r)
  /\ sink[r].pending # <<>>
  /\ file' = file \o sink[r].pending
  /\ sink' = [sink EXCEPT ![r].pending = <<>>]
  /\ UNCHANGED <<ctx, stack, stage, token, held, result, made, warned>>

\* The push fails after n records.  Some of the rest stays buffered, and the
\* `with` block closes the handle on its way out.
PushFails(t, r, n, kept) ==
  /\ Flushing(t, r) /\ Handing(r)
  /\ n < kept /\ kept <= Len(sink[r].pending)
  /\ file' = file \o SubSeq(sink[r].pending, 1, n)
  /\ sink' = [sink EXCEPT ![r].pending = SubSeq(@, n + 1, kept),
                          ![r].failed = TRUE]
  /\ UNCHANGED <<ctx, stack, stage, token, held, result, made, warned>>

AtClose(t, r) == Flushing(t, r) /\ ~Handing(r)

CloseSink(t, r) ==
  /\ AtClose(t, r)
  /\ file' = file \o sink[r].pending
  /\ sink' = [sink EXCEPT ![r].pending = <<>>]
  /\ IF sink[r].failed
     THEN Report(t, r, "false", Lost(r))
     ELSE Report(t, r, IF sink[r].rejected = 0 THEN "true" ELSE "false", 0)

\* Mutant: an error of close() is not looked at.
CloseFailsUnseen(t, r, n) ==
  /\ AtClose(t, r)
  /\ n < Len(sink[r].pending)
  /\ file' = file \o SubSeq(sink[r].pending, 1, n)
  /\ sink' = [sink EXCEPT ![r].pending = <<>>]
  /\ Report(t, r, "true", 0)

CloseFails(t, r, n) ==
  /\ AtClose(t, r)
  /\ n < Len(sink[r].pending)
  /\ file' = file \o SubSeq(sink[r].pending, 1, n)
  /\ sink' = [sink EXCEPT ![r].pending = <<>>]
  /\ Report(t, r, "false", Lost(r))

-----------------------------------------------------------------------------
\* Every run has come and gone: the threads stay idle.
Idle ==
  /\ \A t \in Threads : ~Busy(t)
  /\ Len(made) = MaxEvents
  /\ \A r \in Runs : stage[r] # "fresh"
  /\ UNCHANGED vars

Flush(t, r) ==
  \/ OpenSink(t, r)
  \/ \E accepted \in BOOLEAN : HandOver(t, r, accepted)
  \/ Push(t, r)
  \/ \E n, kept \in 0 .. Len(sink[r].pending) : PushFails(t, r, n, kept)
  \/ CloseSink(t, r)
  \/ \E n \in 0 .. Len(sink[r].pending) : CloseFails(t, r, n)

Next ==
  \/ \E t \in Threads :
       \/ \E r \in Runs : \E secrets \in {r, NoRun} : BeginRun(t, r, secrets)
       \/ RouterOutcome(t)
       \/ StageRaises(t)
       \/ EnterExecute(t)
       \/ LeaveExecute(t)
       \/ EventRejected(t)
       \/ EventCollected(t)
       \/ EventToFile(t)
       \/ \E r \in Runs : Flush(t, r)
  \/ Idle

Spec == Init /\ [][Next]_vars

-----------------------------------------------------------------------------
(* Properties.                                                             *)

\* Request secrets are those of the innermost run of their thread: no run
\* sees an outer run's or an earlier one's, and none outlive the run
\* (runner.py sets them on entry and clears them on every way out).
SecretsStayWithTheirRun ==
  \A t \in Threads : ctx[t].secrets \in {NoRun, Innermost(t)}

\* A thread collects for a run that is still executing on it, so no event goes
\* to the list of a run that is over, which nobody will flush (runner.py sets
\* the collector without a token and removes it in a `finally`).
CollectorIsLive ==
  \A t \in Threads :
    LET r == ctx[t].collector IN
      r # NoRun => r \in Range(stack[t]) /\ stage[r] = "execute"

\* Every record carries the id of the run that wrote it, across nested runs
\* and on the thread a run has left (begin_audit_run, end_audit_run).
EventsNameTheirRun ==
  \A i \in DOMAIN made : made[i].run = made[i].writer

\* Sequence numbers increase strictly within a run, nested runs and rejected
\* records included (_next_sequence and the token that restores it).
SequenceIncreases ==
  \A i, j \in DOMAIN made :
    i < j /\ made[i].run = made[j].run /\ made[i].run # NoRun
      => made[i].seq < made[j].seq

Valid == {e \in Range(made) : e.valid}

\* A valid record is in the file, still held by a run in progress, or its
\* loss was told to somebody: the operator log, a result whose
\* audit_persisted is not true, or an exception (write_audit_event,
\* write_audit_records and the collector run_pipeline sets and removes).
LossIsReported ==
  \A e \in Valid :
    \/ e \in Range(file)
    \/ e \in warned
    \/ \E r \in Runs :
         /\ e \in Range(held[r])
         /\ stage[r] = "returned" => result[r].persisted = "false"

Nested(r) == token[r].run # NoRun \/ \E q \in Runs : token[q].run = r

\* The records of a run that neither runs inside another nor has one inside
\* appear once and in the order they were made, whatever other threads append
\* and wherever a flush fails.
FileKeepsOrder ==
  \A i, j \in DOMAIN file :
    i < j /\ file[i].run = file[j].run /\ file[i].run # NoRun
          /\ ~Nested(file[i].run)
      => file[i].seq < file[j].seq

\* README.md: audit_errors "identifies how many records were lost".  The
\* count reported is never below the number of held records the file lacks
\* and write_audit_records did not reject.
LostCountIsRight ==
  \A r \in Runs :
    result[r].persisted = "false" =>
      Cardinality(Range(held[r]) \ Range(file)) - sink[r].rejected
        <= result[r].lost
=============================================================================
