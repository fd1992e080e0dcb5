----------------------------- MODULE McpAdapter -----------------------------
(***************************************************************************)
(* The stdio adapter of src/src/mcp.rs: a reader thread that takes frames  *)
(* and registers requests, the main thread that executes tool calls one    *)
(* by one, a writer thread that owns stdout, and a helper that repeats the *)
(* SQLite interrupt of a cancelled call.  They meet in the Control record  *)
(* behind one mutex and in bounded channels.                               *)
(*                                                                         *)
(* A step is one critical section or one channel operation.  A failed      *)
(* `emit` and the `stop` it leads to are one step.                         *)
(***************************************************************************)
EXTENDS Integers, Sequences, FiniteSets

CONSTANTS
    Ids,                \* request ids clients use
    None,
    JobCapacity,        \* QUEUE_CAPACITY of the job channel
    OutputCapacity,     \* QUEUE_CAPACITY of the output channel
    MaxOutstanding,     \* MAXIMUM_OUTSTANDING
    Statements,         \* bound: SQL statements one execution runs
    MaxFrames           \* bound: frames the client sends

Stage == {"immediate", "queued", "active", "finished"}
CallRecord == [stage : Stage, cancelled : BOOLEAN]
OutputRecord == [id : Ids \cup {None}, retire : BOOLEAN]

ASSUME AdapterAssumption ==
    /\ None \notin Ids \cup CallRecord \cup OutputRecord
    /\ JobCapacity \in Nat \ {0} /\ OutputCapacity \in Nat \ {0}
    /\ MaxOutstanding \in Nat \ {0}
    /\ Statements \in Nat \ {0} /\ MaxFrames \in Nat

VARIABLES
    calls,      \* Control.calls: the outstanding requests, None when free
    active,     \* Control.active
    stopped,    \* Control.stopped
    wake,       \* a token is in the wake channel (its capacity is one)
    jobs,       \* the channel from reader to worker
    output,     \* the channel to the writer
    lifecycle,  \* "new", "awaiting" (initialized not seen), "ready"
    frames,     \* frames the client may still send
    reader,     \* the reader's place: pc and the request in its hand
    worker,     \* the main thread's place: pc and its call
    sql,        \* the connection: statements left, and what it is doing
    writer,     \* the writer's place: pc and the reply in its hand
    helper,     \* the interrupt helper's place
    answers,    \* history: responses written for the current use of an id
    withdrawn   \* history: ids whose current use had a cancellation accepted

control == <<calls, active, stopped, wake>>
channels == <<jobs, output>>
history == <<answers, withdrawn>>
vars == <<control, channels, lifecycle, frames, reader, worker, sql, writer, helper, history>>

Call(stage) == [stage |-> stage, cancelled |-> FALSE]
Outstanding == {id \in Ids : calls[id] # None}

\* An entry of the output channel; `retire` says whether it answers the
\* registered request.  Errors about duplicates and floods do not.
Reply(id) == [id |-> id, retire |-> TRUE]
Uncounted(id) == [id |-> id, retire |-> FALSE]

-----------------------------------------------------------------------------
(* SQLite: sqlite3_interrupt only stops a statement that is running now.    *)

Interrupted == [sql EXCEPT !.doing = IF @ = "running" THEN "aborting" ELSE @]

\* `stop`: mark, interrupt whatever is active, wake the helper.
Stopping ==
    /\ stopped' = TRUE
    /\ sql' = IF active # None THEN Interrupted ELSE sql
    /\ wake' = TRUE

NotStopping == UNCHANGED <<stopped, sql, wake>>

\* `emit`: a full channel, or one whose writer is gone, disconnects the adapter
\* instead of blocking it.
CanSend == writer.pc # "done" /\ Len(output) < OutputCapacity

Emit(entry) ==
    \/ /\ CanSend
       /\ output' = Append(output, entry)
       /\ NotStopping
    \/ /\ ~CanSend
       /\ Stopping
       /\ UNCHANGED output

-----------------------------------------------------------------------------
Init ==
    /\ calls = [id \in Ids |-> None] /\ active = None
    /\ stopped = FALSE /\ wake = FALSE
    /\ jobs = << >> /\ output = << >>
    /\ lifecycle = "new" /\ frames = MaxFrames
    /\ reader = [pc |-> "top", id |-> None, method |-> None]
    /\ worker = [pc |-> "top", id |-> None]
    /\ sql = [left |-> 0, doing |-> "idle"]
    /\ writer = [pc |-> "receive", reply |-> None]
    /\ helper = "waiting"
    /\ answers = [id \in Ids |-> 0] /\ withdrawn = {}

-----------------------------------------------------------------------------
(* The reader. *)

ReaderTo(pc) == reader' = [reader EXCEPT !.pc = pc]

\* The loop looks at `stopped`, then blocks in read_frame.
ReaderTop ==
    /\ reader.pc = "top"
    /\ ReaderTo(IF stopped THEN "end" ELSE "reading")
    /\ UNCHANGED <<control, channels, lifecycle, frames, worker, sql, writer, helper, history>>

Frame ==
    /\ reader.pc = "reading" /\ frames > 0
    /\ frames' = frames - 1

\* Oversized, unparsable or ill-formed input: an error without a registered request.
BadFrame(id) ==
    /\ Frame /\ ReaderTo("top")
    /\ Emit(Uncounted(id))
    /\ UNCHANGED <<calls, active, jobs, lifecycle, worker, writer, helper, history>>

InitializedNotice ==
    /\ Frame /\ ReaderTo("top")
    /\ lifecycle' = IF lifecycle = "awaiting" THEN "ready" ELSE lifecycle
    /\ UNCHANGED <<control, channels, worker, sql, writer, helper, history>>

\* Mutant: any running statement is interrupted.
CancelInterruptingAny(id) ==
    /\ Frame /\ ReaderTo("top")
    /\ calls[id] # None /\ calls[id].stage \in {"queued", "active"}
    /\ calls' = [calls EXCEPT ![id].cancelled = TRUE]
    /\ withdrawn' = withdrawn \cup {id}
    /\ sql' = Interrupted /\ wake' = TRUE
    /\ UNCHANGED <<active, stopped, channels, lifecycle, worker, writer, helper, answers>>

\* `cancel`: only queued and active calls; the active one is interrupted.
Cancel(id) ==
    /\ Frame /\ ReaderTo("top")
    /\ calls[id] # None /\ calls[id].stage \in {"queued", "active"}
    /\ calls' = [calls EXCEPT ![id].cancelled = TRUE]
    /\ withdrawn' = withdrawn \cup {id}
    /\ IF active = id THEN sql' = Interrupted /\ wake' = TRUE ELSE UNCHANGED <<sql, wake>>
    /\ UNCHANGED <<active, stopped, channels, lifecycle, worker, writer, helper, answers>>

\* Registration, under the lock.
Refuse(id) ==
    /\ Frame /\ ReaderTo("top")
    /\ calls[id] # None \/ Cardinality(Outstanding) >= MaxOutstanding
    /\ Emit(Uncounted(id))
    /\ UNCHANGED <<calls, active, jobs, lifecycle, worker, writer, helper, history>>

Register(id, method) ==
    /\ Frame
    /\ calls[id] = None /\ Cardinality(Outstanding) < MaxOutstanding
    /\ calls' = [calls EXCEPT ![id] = Call("immediate")]
    /\ reader' = [pc |-> "dispatch", id |-> id, method |-> method]
    /\ answers' = [answers EXCEPT ![id] = 0] /\ withdrawn' = withdrawn \ {id}
    /\ UNCHANGED <<active, stopped, wake, channels, lifecycle, worker, sql, writer, helper>>

Dispatching == reader.pc = "dispatch" /\ reader' = [pc |-> "top", id |-> None, method |-> None]

\* Everything that is answered at once: initialize, ping, tools/list, unknown
\* methods, and tool calls that are invalid or come before initialization.
AnswerAtOnce ==
    /\ Dispatching
    /\ reader.method # "call" \/ lifecycle # "ready"
    /\ Emit(Reply(reader.id))
    /\ lifecycle' = IF reader.method = "initialize" /\ lifecycle = "new"
                    THEN "awaiting" ELSE lifecycle
    /\ UNCHANGED <<calls, active, jobs, frames, worker, writer, helper, history>>

\* A valid tool call: Queued before try_send.
EnqueueCall ==
    /\ Dispatching
    /\ reader.method = "call" /\ lifecycle = "ready"
    /\ Len(jobs) < JobCapacity
    /\ calls' = [calls EXCEPT ![reader.id].stage = "queued"]
    /\ jobs' = Append(jobs, reader.id)
    /\ UNCHANGED <<active, stopped, wake, output, lifecycle, frames, worker, sql, writer,
                   helper, history>>

\* The read queue is full: Finished, and an overload error.
Overload ==
    /\ Dispatching
    /\ reader.method = "call" /\ lifecycle = "ready"
    /\ Len(jobs) = JobCapacity
    /\ calls' = [calls EXCEPT ![reader.id].stage = "finished"]
    /\ Emit(Reply(reader.id))
    /\ UNCHANGED <<active, jobs, lifecycle, frames, worker, writer, helper, history>>

\* End of input, a read error, or `stopped` seen at the top of the loop.
EndOfInput ==
    /\ reader.pc \in {"reading", "end"}
    /\ ReaderTo("done")
    /\ Stopping
    /\ UNCHANGED <<calls, active, channels, lifecycle, frames, worker, writer, helper, history>>

-----------------------------------------------------------------------------
(* The worker, which is the main thread. *)

WorkerTo(pc) == worker' = [worker EXCEPT !.pc = pc]
WorkerDone == worker' = [pc |-> "top", id |-> None]

WorkerTop ==
    /\ worker.pc = "top"
    /\ WorkerTo(IF stopped THEN "leaving" ELSE "receiving")
    /\ UNCHANGED <<control, channels, lifecycle, frames, reader, sql, writer, helper, history>>

\* recv_timeout: a job, or back to the top after 20 ms without one.
Receive ==
    /\ worker.pc = "receiving"
    /\ IF jobs = << >> THEN WorkerDone /\ UNCHANGED jobs
       ELSE worker' = [pc |-> "taken", id |-> Head(jobs)] /\ jobs' = Tail(jobs)
    /\ UNCHANGED <<control, output, lifecycle, frames, reader, sql, writer, helper, history>>

\* Mutant: `stopped` is looked at only at the top of the loop.
StartUnlessCancelled ==
    /\ worker.pc = "taken"
    /\ IF calls[worker.id].cancelled
       THEN /\ calls' = [calls EXCEPT ![worker.id] = None]
            /\ WorkerDone
            /\ UNCHANGED <<active, sql>>
       ELSE /\ calls' = [calls EXCEPT ![worker.id].stage = "active"]
            /\ active' = worker.id
            /\ WorkerTo("executing")
            /\ sql' = [left |-> Statements, doing |-> "between"]
    /\ UNCHANGED <<stopped, wake, channels, lifecycle, frames, reader, writer, helper, history>>

\* One critical section: leave if stopped, drop a cancelled job, else activate.
Start ==
    /\ worker.pc = "taken"
    /\ CASE stopped -> WorkerTo("leaving") /\ UNCHANGED <<calls, active, sql>>
         [] ~stopped /\ calls[worker.id].cancelled ->
              /\ calls' = [calls EXCEPT ![worker.id] = None]
              /\ WorkerDone
              /\ UNCHANGED <<active, sql>>
         [] OTHER ->
              /\ calls' = [calls EXCEPT ![worker.id].stage = "active"]
              /\ active' = worker.id
              /\ WorkerTo("executing")
              /\ sql' = [left |-> Statements, doing |-> "between"]
    /\ UNCHANGED <<stopped, wake, channels, lifecycle, frames, reader, writer, helper, history>>

\* session.execute, as SQLite sees it: a few statements, any of which may run
\* for ever; an interrupt makes the running one fail, and the read with it.
BeginStatement ==
    /\ worker.pc = "executing" /\ sql.doing = "between" /\ sql.left > 0
    /\ sql' = [left |-> sql.left - 1, doing |-> "running"]
    /\ UNCHANGED <<control, channels, lifecycle, frames, reader, worker, writer, helper, history>>

EndStatement ==
    /\ worker.pc = "executing" /\ sql.doing \in {"running", "aborting"}
    /\ sql' = [sql EXCEPT !.doing = "between"]
    /\ UNCHANGED <<control, channels, lifecycle, frames, reader, worker, writer, helper, history>>

\* The read ends: its statements are done, it failed early, or one was aborted.
ExecuteReturns ==
    /\ worker.pc = "executing" /\ sql.doing \in {"between", "aborting"}
    /\ sql' = [left |-> 0, doing |-> "idle"]
    /\ WorkerTo("finishing")
    /\ UNCHANGED <<control, channels, lifecycle, frames, reader, writer, helper, history>>

\* Mutant: a call cancelled while it ran is answered all the same.
FinishAnsweringAll ==
    /\ worker.pc = "finishing"
    /\ active' = None
    /\ calls' = [calls EXCEPT ![worker.id] = Call("finished")]
    /\ WorkerTo("replying")
    /\ UNCHANGED <<stopped, wake, channels, lifecycle, frames, reader, sql, writer, helper, history>>

\* Mutant: a cancelled call is dropped, but its id stays registered.
FinishWithoutRemoving ==
    /\ worker.pc = "finishing"
    /\ active' = None
    /\ calls' = [calls EXCEPT ![worker.id].stage = "finished"]
    /\ IF calls[worker.id].cancelled \/ stopped THEN WorkerDone ELSE WorkerTo("replying")
    /\ UNCHANGED <<stopped, wake, channels, lifecycle, frames, reader, sql, writer, helper, history>>

\* One critical section: retire the active call; a cancelled one is released.
Finish ==
    /\ worker.pc = "finishing"
    /\ active' = None
    /\ IF calls[worker.id].cancelled \/ stopped
       THEN calls' = [calls EXCEPT ![worker.id] = None] /\ WorkerDone
       ELSE calls' = [calls EXCEPT ![worker.id].stage = "finished"] /\ WorkerTo("replying")
    /\ UNCHANGED <<stopped, wake, channels, lifecycle, frames, reader, sql, writer, helper, history>>

WorkerReply ==
    /\ worker.pc = "replying"
    /\ WorkerDone
    /\ Emit(Reply(worker.id))
    /\ UNCHANGED <<calls, active, jobs, lifecycle, frames, reader, writer, helper, history>>

\* run_stdio returns and the process ends with every other thread.
Leave ==
    /\ worker.pc = "leaving"
    /\ WorkerTo("end")
    /\ Stopping
    /\ UNCHANGED <<calls, active, channels, lifecycle, frames, reader, writer, helper, history>>

-----------------------------------------------------------------------------
(* The writer. *)

WriterTo(pc) == writer' = [writer EXCEPT !.pc = pc]
WriterDone == writer' = [pc |-> "receive", reply |-> None]

TakeReply ==
    /\ writer.pc = "receive" /\ output # << >>
    /\ writer' = [pc |-> "checking", reply |-> Head(output)]
    /\ output' = Tail(output)
    /\ UNCHANGED <<control, jobs, lifecycle, frames, reader, worker, sql, helper, history>>

Withdrawn(reply) == reply.retire /\ calls[reply.id] # None /\ calls[reply.id].cancelled

CheckReply ==
    /\ writer.pc = "checking"
    /\ WriterTo(CASE stopped -> "closing"
                   [] ~stopped /\ Withdrawn(writer.reply) -> "retiring"
                   [] OTHER -> "writing")
    /\ UNCHANGED <<control, channels, lifecycle, frames, reader, worker, sql, helper, history>>

\* write_all and flush; stdout may also block for ever.
Written ==
    /\ writer.pc = "writing"
    /\ WriterTo("retiring")
    /\ answers' = IF writer.reply.retire THEN [answers EXCEPT ![writer.reply.id] = @ + 1]
                  ELSE answers
    /\ UNCHANGED <<control, channels, lifecycle, frames, reader, worker, sql, helper, withdrawn>>

WriteFails ==
    /\ writer.pc = "writing"
    /\ WriterTo("closing")
    /\ UNCHANGED <<control, channels, lifecycle, frames, reader, worker, sql, helper, history>>

\* Mutant: every frame that carries an id retires it.
RetireAny ==
    /\ writer.pc = "retiring"
    /\ calls' = IF writer.reply.id # None THEN [calls EXCEPT ![writer.reply.id] = None] ELSE calls
    /\ WriterDone
    /\ UNCHANGED <<active, stopped, wake, channels, lifecycle, frames, reader, worker, sql,
                   helper, history>>

Retire ==
    /\ writer.pc = "retiring"
    /\ calls' = IF writer.reply.retire THEN [calls EXCEPT ![writer.reply.id] = None] ELSE calls
    /\ WriterDone
    /\ UNCHANGED <<active, stopped, wake, channels, lifecycle, frames, reader, worker, sql,
                   helper, history>>

WriterCloses ==
    /\ writer.pc = "closing"
    /\ WriterTo("done")
    /\ Stopping
    /\ UNCHANGED <<calls, active, channels, lifecycle, frames, reader, worker, helper, history>>

-----------------------------------------------------------------------------
(* The interrupt helper. *)

HelperWakes ==
    /\ helper = "waiting" /\ wake
    /\ wake' = FALSE /\ helper' = "checking"
    /\ UNCHANGED <<calls, active, stopped, channels, lifecycle, frames, reader, worker, sql,
                   writer, history>>

NeedsInterrupt == active # None /\ (stopped \/ calls[active].cancelled)

\* Mutant: one interrupt per wake-up, no repetition.
HelperChecksOnce ==
    /\ helper = "checking"
    /\ helper' = IF stopped /\ active = None THEN "done" ELSE "waiting"
    /\ sql' = IF NeedsInterrupt THEN Interrupted ELSE sql
    /\ UNCHANGED <<control, channels, lifecycle, frames, reader, worker, writer, history>>

HelperChecks ==
    /\ helper = "checking"
    /\ helper' = CASE stopped /\ active = None -> "done"
                   [] NeedsInterrupt -> "sleeping"
                   [] OTHER -> "waiting"
    /\ sql' = IF NeedsInterrupt THEN Interrupted ELSE sql
    /\ UNCHANGED <<control, channels, lifecycle, frames, reader, worker, writer, history>>

HelperSleeps ==
    /\ helper = "sleeping" /\ helper' = "checking"
    /\ UNCHANGED <<control, channels, lifecycle, frames, reader, worker, sql, writer, history>>

-----------------------------------------------------------------------------
Alive == worker.pc # "end"

Methods == {"initialize", "call", "other"}

Client ==
    \/ \E id \in Ids \cup {None} : BadFrame(id)
    \/ InitializedNotice
    \/ \E id \in Ids : Cancel(id)
    \/ \E id \in Ids : Refuse(id)
    \/ \E id \in Ids, method \in Methods : Register(id, method)

ReaderRuns == ReaderTop \/ AnswerAtOnce \/ EnqueueCall \/ Overload
WorkerRuns ==
    \/ WorkerTop \/ Receive \/ Start
    \/ BeginStatement \/ ExecuteReturns
    \/ Finish \/ WorkerReply \/ Leave
WriterRuns == TakeReply \/ CheckReply \/ Retire \/ WriterCloses
HelperRuns == HelperWakes \/ HelperChecks \/ HelperSleeps

Next ==
    /\ Alive
    /\ Client \/ EndOfInput \/ EndStatement \/ Written \/ WriteFails
       \/ ReaderRuns \/ WorkerRuns \/ WriterRuns \/ HelperRuns

(* The scheduler runs every thread that can run, and nothing else is       *)
(* promised: the client may never send or close, a statement may never end *)
(* by itself and stdout may block.                                         *)
Fairness ==
    /\ WF_vars(Alive /\ ReaderRuns)
    /\ WF_vars(Alive /\ WorkerRuns)
    /\ WF_vars(Alive /\ WriterRuns)
    /\ WF_vars(Alive /\ HelperRuns)

Spec == Init /\ [][Next]_vars /\ Fairness

-----------------------------------------------------------------------------
(* Every outstanding request is in exactly one place: the reader's hand,   *)
(* the job channel, the worker's hand, the output channel or the writer's  *)
(* hand.  So the lookups the code unwraps always find their call, no id    *)
(* leaks its place in the registry and none is retired by an error about   *)
(* somebody else's request.                                                *)
Places(id) ==
    (IF reader.pc = "dispatch" /\ reader.id = id THEN 1 ELSE 0)
    + Cardinality({i \in 1..Len(jobs) : jobs[i] = id})
    + (IF worker.pc \in {"taken", "executing", "finishing", "replying"} /\ worker.id = id
       THEN 1 ELSE 0)
    + Cardinality({i \in 1..Len(output) : output[i] = Reply(id)})
    + (IF writer.reply = Reply(id) THEN 1 ELSE 0)

CallsAreHeldOnce ==
    \A id \in Ids :
        /\ Places(id) <= 1
        /\ Places(id) = 1 => calls[id] # None
        /\ ~stopped /\ calls[id] # None => Places(id) = 1

(* An interrupt stops only what it was meant for: a statement is aborted   *)
(* because its own call was cancelled or because the adapter stops, never  *)
(* because of a cancellation that came late for an earlier call.           *)
InterruptHitsItsTarget ==
    sql.doing = "aborting" => stopped \/ calls[worker.id].cancelled

(* A registered request is answered at most once, and never after its      *)
(* cancellation was accepted (docs/bif-mcp.md: "Accepted cancellation      *)
(* suppresses the response").                                              *)
AnsweredOnceUnlessWithdrawn ==
    [][\A id \in Ids : answers'[id] > answers[id] => answers[id] = 0 /\ id \notin withdrawn]_vars

(* An interrupt is not lost.  A cancelled call stops running even when its  *)
(* statement would never end: the interrupt may come between two statements *)
(* and miss, and is repeated.  Once stopped, by end of input or by a reader *)
(* that does not read, the process ends whatever the running statement and  *)
(* stdout do.                                                               *)
StopsTakeEffect ==
    /\ \A id \in Ids : (active = id /\ calls[id].cancelled) ~> active # id
    /\ stopped ~> ~Alive

(* Provided statements end and stdout accepts, every registered request is *)
(* answered and leaves the registry, is withdrawn, or the adapter stops.   *)
EveryCallSettles ==
    []<>(sql.doing # "running") /\ []<>(writer.pc # "writing") =>
        \A id \in Ids :
            calls[id] # None ~> calls[id] = None \/ stopped
=============================================================================
