-------------------------- MODULE McpAdapterProofs --------------------------
(* Proofs about the stdio adapter: where a registered request is while four  *)
(* threads pass it on, and what an interrupt can hit.                        *)
EXTENDS McpAdapter, FiniteSetTheorems, TLAPS

-----------------------------------------------------------------------------
(* Occurrences in a channel.                                                *)
Occurs(s, x) == \E i \in 1..Len(s) : s[i] = x
Once(s, x) == \A i, j \in 1..Len(s) : s[i] = x /\ s[j] = x => i = j

LEMMA SentOccurs ==
    ASSUME NEW S, NEW s \in Seq(S), NEW y \in S, NEW x
    PROVE  /\ Append(s, y) \in Seq(S)
           /\ Occurs(Append(s, y), x) <=> Occurs(s, x) \/ x = y
           /\ Once(s, x) /\ ~(x = y /\ Occurs(s, x)) => Once(Append(s, y), x)
<1>1. /\ Append(s, y) \in Seq(S) /\ Len(Append(s, y)) = Len(s) + 1 /\ Len(s) \in Nat
      /\ Append(s, y)[Len(s) + 1] = y
      /\ \A i \in 1..Len(s) : Append(s, y)[i] = s[i]
  OBVIOUS
<1>2. QED BY <1>1 DEF Occurs, Once

LEMMA ReceivedOccurs ==
    ASSUME NEW S, NEW s \in Seq(S), s # << >>, NEW x, Once(s, x)
    PROVE  /\ Tail(s) \in Seq(S) /\ Head(s) \in S /\ Occurs(s, Head(s))
           /\ Occurs(Tail(s), x) <=> Occurs(s, x) /\ x # Head(s)
           /\ Once(Tail(s), x)
<1>1. /\ Tail(s) \in Seq(S) /\ Len(Tail(s)) = Len(s) - 1 /\ Len(s) \in Nat \ {0}
      /\ Head(s) = s[1] /\ Head(s) \in S
      /\ \A i \in 1..Len(s) - 1 : Tail(s)[i] = s[i + 1]
  OBVIOUS
<1>2. Occurs(Tail(s), x) => Occurs(s, x) /\ x # Head(s)
  <2> SUFFICES ASSUME NEW i \in 1..Len(Tail(s)), Tail(s)[i] = x
               PROVE  Occurs(s, x) /\ x # Head(s)
    BY DEF Occurs
  <2>1. i + 1 \in 1..Len(s) /\ s[i + 1] = x /\ i + 1 # 1
    BY <1>1
  <2>2. QED BY <1>1, <2>1 DEF Occurs, Once
<1>3. Occurs(s, x) /\ x # Head(s) => Occurs(Tail(s), x)
  <2> SUFFICES ASSUME NEW i \in 1..Len(s), s[i] = x, x # Head(s)
               PROVE  Occurs(Tail(s), x)
    BY DEF Occurs
  <2>1. i - 1 \in 1..Len(Tail(s)) /\ Tail(s)[i - 1] = s[i]
    BY <1>1
  <2>2. QED BY <2>1 DEF Occurs
<1>4. Once(Tail(s), x)
  <2> SUFFICES ASSUME NEW i \in 1..Len(Tail(s)), NEW j \in 1..Len(Tail(s)),
                      Tail(s)[i] = x, Tail(s)[j] = x
               PROVE  i = j
    BY DEF Once
  <2>1. /\ i + 1 \in 1..Len(s) /\ s[i + 1] = x
        /\ j + 1 \in 1..Len(s) /\ s[j + 1] = x
    BY <1>1
  <2>2. i + 1 = j + 1
    BY <2>1 DEF Once
  <2>3. QED BY <2>2
<1>5. Occurs(s, Head(s))
  BY <1>1 DEF Occurs
<1>6. QED BY <1>1, <1>2, <1>3, <1>4, <1>5

-----------------------------------------------------------------------------
(* The inductive invariant.                                                 *)
Carrying == {"taken", "executing", "finishing", "replying"}

InReader(id) == reader.pc = "dispatch" /\ reader.id = id
InJobs(id) == Occurs(jobs, id)
InWorker(id) == worker.pc \in Carrying /\ worker.id = id
InOutput(id) == Occurs(output, Reply(id))
InWriter(id) == writer.reply = Reply(id)

SqlPlaces == [left : Nat, doing : {"idle", "between", "running", "aborting"}]

Types ==
    /\ calls \in [Ids -> CallRecord \cup {None}]
    /\ active \in Ids \cup {None}
    /\ stopped \in BOOLEAN
    /\ jobs \in Seq(Ids)
    /\ output \in Seq(OutputRecord)
    /\ reader \in [pc : {"top", "reading", "dispatch", "end", "done"}, id : Ids \cup {None},
                   method : Methods \cup {None}]
    /\ reader.pc = "dispatch" => reader.id \in Ids
    /\ worker \in [pc : Carrying \cup {"top", "receiving", "leaving", "end"}, id : Ids \cup {None}]
    /\ worker.pc \in Carrying => worker.id \in Ids
    /\ sql \in SqlPlaces
    /\ writer \in [pc : {"receive", "checking", "writing", "retiring", "closing", "done"},
                   reply : OutputRecord \cup {None}]
    /\ writer.pc = "receive" <=> writer.reply = None
    /\ answers \in [Ids -> Nat]
    /\ withdrawn \in SUBSET Ids

\* No request is in two places, and none twice in a channel.
HeldApart ==
    \A id \in Ids :
        /\ Once(jobs, id) /\ Once(output, Reply(id))
        /\ InReader(id) => ~InJobs(id) /\ ~InWorker(id) /\ ~InOutput(id) /\ ~InWriter(id)
        /\ InJobs(id) => ~InWorker(id) /\ ~InOutput(id) /\ ~InWriter(id)
        /\ InWorker(id) => ~InOutput(id) /\ ~InWriter(id)
        /\ InOutput(id) => ~InWriter(id)

\* Where a request is tells its stage.  A cancellation reaches it only between
\* the job channel and the end of its execution.
Staged ==
    \A id \in Ids :
        /\ InReader(id) => calls[id] = Call("immediate")
        /\ InJobs(id) => calls[id] # None /\ calls[id].stage = "queued"
        /\ InWorker(id) =>
             /\ calls[id] # None
             /\ worker.pc = "replying" => calls[id] = Call("finished")
        /\ InOutput(id) \/ InWriter(id) =>
             /\ calls[id] # None
             /\ calls[id].stage \in {"immediate", "finished"}
             /\ ~calls[id].cancelled

Held(id) == InReader(id) \/ InJobs(id) \/ InWorker(id) \/ InOutput(id) \/ InWriter(id)
Kept == ~stopped => \A id \in Ids : calls[id] # None => Held(id)

\* What executes is active, and only then does SQLite work.
Activity ==
    /\ active = IF worker.pc \in {"executing", "finishing"} THEN worker.id ELSE None
    /\ sql.doing # "idle" => worker.pc = "executing"
    /\ sql.doing = "aborting" => stopped \/ calls[worker.id].cancelled

Told ==
    \A id \in Ids : calls[id] # None =>
        /\ id \in withdrawn => calls[id].cancelled
        /\ answers[id] > 0 => writer.pc = "retiring" /\ writer.reply = Reply(id)

IInv == Types /\ HeldApart /\ Staged /\ Kept /\ Activity /\ Told

(* What passes through the channels is told apart from nothing and from     *)
(* each other.                                                              *)
LEMMA RecordFacts ==
    /\ \A id \in Ids : Reply(id) \in OutputRecord /\ Reply(id) # None /\ id # None
    /\ \A id \in Ids \cup {None} : Uncounted(id) \in OutputRecord
    /\ \A a, b : Uncounted(a) # Reply(b)
    /\ \A a, b : Reply(a) = Reply(b) => a = b
    /\ \A stage \in Stage : Call(stage) \in CallRecord /\ Call(stage) # None
<1>1. /\ \A id \in Ids : Reply(id) \in OutputRecord
      /\ \A id \in Ids \cup {None} : Uncounted(id) \in OutputRecord
      /\ \A stage \in Stage : Call(stage) \in CallRecord
  BY DEF Reply, Uncounted, OutputRecord, Call, CallRecord
<1>2. None \notin Ids /\ None \notin CallRecord /\ None \notin OutputRecord
  BY AdapterAssumption
<1>3. \A a, b : Uncounted(a).retire # Reply(b).retire /\ Reply(a).id = a
  BY DEF Uncounted, Reply
<1>4. QED BY <1>1, <1>2, <1>3

LEMMA ReplyIs ==
    ASSUME NEW entry \in OutputRecord, NEW x
    PROVE  /\ Reply(x) = entry <=> entry.retire /\ entry.id = x
           /\ entry.retire \in BOOLEAN
<1>1. entry = [id |-> entry.id, retire |-> entry.retire] /\ entry.retire \in BOOLEAN
  BY DEF OutputRecord
<1>2. Reply(x).retire = TRUE /\ Reply(x).id = x
  BY DEF Reply
<1>3. entry.retire /\ entry.id = x => Reply(x) = entry
  BY <1>1 DEF Reply
<1>4. QED BY <1>1, <1>2, <1>3

(* Initially no request is held.                                            *)
LEMMA InvInit == Init => IInv
<1> SUFFICES ASSUME Init PROVE IInv
  OBVIOUS
<1>1. Types
  <2>1. /\ calls \in [Ids -> CallRecord \cup {None}] /\ active \in Ids \cup {None}
        /\ stopped \in BOOLEAN /\ jobs \in Seq(Ids) /\ output \in Seq(OutputRecord)
        /\ answers \in [Ids -> Nat] /\ withdrawn \in SUBSET Ids
    <3>1. /\ calls = [id \in Ids |-> None] /\ active = None /\ stopped = FALSE
          /\ jobs = << >> /\ output = << >>
          /\ answers = [id \in Ids |-> 0] /\ withdrawn = {}
      BY DEF Init
    <3>2. << >> \in Seq(Ids) /\ << >> \in Seq(OutputRecord)
      OBVIOUS
    <3>3. [id \in Ids |-> None] \in [Ids -> CallRecord \cup {None}]
      OBVIOUS
    <3>4. QED BY <3>1, <3>2, <3>3
  <2>2. /\ reader = [pc |-> "top", id |-> None, method |-> None]
        /\ worker = [pc |-> "top", id |-> None]
        /\ sql = [left |-> 0, doing |-> "idle"]
        /\ writer = [pc |-> "receive", reply |-> None]
    BY DEF Init
  <2>3. QED BY <2>1, <2>2 DEF Types, Carrying, SqlPlaces
<1>2. \A x : Once(jobs, x) /\ Once(output, x) /\ ~Occurs(jobs, x) /\ ~Occurs(output, x)
  <2>1. jobs = << >> /\ output = << >>
    BY DEF Init
  <2>2. QED BY <2>1 DEF Occurs, Once
<1>3. \A id \in Ids : /\ ~InReader(id) /\ ~InJobs(id) /\ ~InWorker(id)
                      /\ ~InOutput(id) /\ ~InWriter(id)
  <2>1. reader.pc = "top" /\ worker.pc = "top" /\ writer.reply = None
    BY DEF Init
  <2>2. QED BY <1>2, <2>1, RecordFacts DEF InReader, InJobs, InWorker, InOutput, InWriter, Carrying
<1>4. QED
  BY <1>1, <1>2, <1>3 DEF Init, IInv, HeldApart, Staged, Kept, Activity, Told

(* Sending to the writer puts the entry into the channel or stops.          *)
LEMMA InterruptedFacts ==
    ASSUME Types
    PROVE  /\ Interrupted \in SqlPlaces
           /\ Interrupted.doing = "idle" <=> sql.doing = "idle"
           /\ Interrupted.left = sql.left
BY DEF Interrupted, Types, SqlPlaces

LEMMA StoppingFacts ==
    ASSUME Types, Stopping
    PROVE  /\ stopped' = TRUE
           /\ sql' \in SqlPlaces
           /\ sql'.doing = "idle" <=> sql.doing = "idle"
<1>1. sql \in SqlPlaces
  BY DEF Types
<1>2. QED BY <1>1, InterruptedFacts DEF Stopping

LEMMA EmitFacts ==
    ASSUME Types, NEW entry \in OutputRecord, Emit(entry)
    PROVE  /\ output' \in Seq(OutputRecord)
           /\ stopped' \in BOOLEAN /\ (stopped => stopped')
           /\ \A x : Occurs(output', x) => Occurs(output, x) \/ x = entry
           /\ \A x : Occurs(output, x) => Occurs(output', x)
           /\ ~stopped' => Occurs(output', entry)
           /\ \A x : Once(output, x) /\ ~(x = entry /\ Occurs(output, x)) => Once(output', x)
           /\ sql' \in SqlPlaces
           /\ sql'.doing = "idle" <=> sql.doing = "idle"
           /\ sql'.doing = "aborting" => sql.doing = "aborting" \/ stopped'
<1>1. output \in Seq(OutputRecord) /\ sql \in SqlPlaces /\ stopped \in BOOLEAN
  BY DEF Types
<1>2. CASE output' = Append(output, entry) /\ NotStopping
  <2>1. sql' = sql /\ stopped' = stopped
    BY <1>2 DEF NotStopping
  <2>2. \A x : /\ Append(output, entry) \in Seq(OutputRecord)
               /\ Occurs(Append(output, entry), x) <=> Occurs(output, x) \/ x = entry
               /\ Once(output, x) /\ ~(x = entry /\ Occurs(output, x))
                    => Once(Append(output, entry), x)
    BY <1>1, SentOccurs
  <2>3. /\ output' \in Seq(OutputRecord)
        /\ \A x : Occurs(output', x) => Occurs(output, x) \/ x = entry
        /\ \A x : Occurs(output, x) => Occurs(output', x)
        /\ Occurs(output', entry)
        /\ \A x : Once(output, x) /\ ~(x = entry /\ Occurs(output, x)) => Once(output', x)
    BY <1>2, <2>2, Zenon
  <2>4. QED BY <1>1, <2>1, <2>3
<1>3. CASE Stopping /\ output' = output
  <2>1. stopped' = TRUE /\ sql' \in SqlPlaces /\ (sql'.doing = "idle" <=> sql.doing = "idle")
    BY <1>3, StoppingFacts
  <2>2. QED BY <1>1, <1>3, <2>1
<1>4. QED BY <1>2, <1>3 DEF Emit

(* Steps that leave every request where it is.                              *)
LEMMA NothingMoves ==
    ASSUME IInv, Types', Activity',
           UNCHANGED <<calls, jobs, output, answers, withdrawn>>,
           stopped => stopped',
           \A id \in Ids : InReader(id)' <=> InReader(id),
           \A id \in Ids : InWorker(id)' <=> InWorker(id),
           worker'.pc = "replying" => worker.pc = "replying",
           writer'.reply = writer.reply,
           writer.pc = "retiring" => writer'.pc = "retiring"
    PROVE  IInv'
<1>1. \A id \in Ids : /\ InJobs(id)' <=> InJobs(id)
                      /\ InOutput(id)' <=> InOutput(id)
                      /\ InWriter(id)' <=> InWriter(id)
                      /\ Once(jobs, id)' <=> Once(jobs, id)
                      /\ Once(output, Reply(id))' <=> Once(output, Reply(id))
  BY DEF InJobs, InOutput, InWriter
<1>2. HeldApart'
  BY <1>1 DEF IInv, HeldApart
<1>3. Staged'
  BY <1>1 DEF IInv, Staged
<1>4. Kept'
  BY <1>1 DEF IInv, Kept, Held
<1>5. Told'
  BY DEF IInv, Told
<1>6. QED BY <1>2, <1>3, <1>4, <1>5 DEF IInv

LEMMA ReaderTopInv ==
    ASSUME IInv, ReaderTop
    PROVE  IInv'
<1>1. Types'
  BY DEF IInv, ReaderTop, Types, Carrying, control, channels, history, ReaderTo
<1>2. Activity'
  BY DEF IInv, ReaderTop, Types, Activity, Carrying, control, channels, history, ReaderTo
<1>3. QED
  BY <1>1, <1>2, NothingMoves DEF ReaderTop, Types, InReader, InWorker, Carrying, control, channels, history, ReaderTo

LEMMA InitializedNoticeInv ==
    ASSUME IInv, InitializedNotice
    PROVE  IInv'
<1>1. Types'
  BY DEF IInv, InitializedNotice, Types, Carrying, control, channels, history, ReaderTo, Frame
<1>2. Activity'
  BY DEF IInv, InitializedNotice, Types, Activity, Carrying, control, channels, history, ReaderTo, Frame
<1>3. QED
  BY <1>1, <1>2, NothingMoves DEF InitializedNotice, Types, InReader, InWorker, Carrying, control, channels, history, ReaderTo, Frame

LEMMA EndOfInputInv ==
    ASSUME IInv, EndOfInput
    PROVE  IInv'
<1>1. Types'
  BY StoppingFacts DEF IInv, EndOfInput, Types, Carrying, control, channels, history, ReaderTo
<1>2. Activity'
  BY StoppingFacts DEF IInv, EndOfInput, Types, Activity, Carrying, control, channels, history, ReaderTo
<1>3. QED
  BY <1>1, <1>2, NothingMoves DEF Stopping, EndOfInput, Types, InReader, InWorker, Carrying, control, channels, history, ReaderTo

LEMMA WorkerTopInv ==
    ASSUME IInv, WorkerTop
    PROVE  IInv'
<1>1. Types'
  BY DEF IInv, WorkerTop, Types, Carrying, control, channels, history, WorkerTo
<1>2. Activity'
  BY DEF IInv, WorkerTop, Types, Activity, Carrying, control, channels, history, WorkerTo
<1>3. QED
  BY <1>1, <1>2, NothingMoves DEF WorkerTop, Types, InReader, InWorker, Carrying, control, channels, history, WorkerTo

LEMMA BeginStatementInv ==
    ASSUME IInv, BeginStatement
    PROVE  IInv'
<1>1. Types'
  BY DEF IInv, BeginStatement, Types, Carrying, control, channels, history, SqlPlaces
<1>2. Activity'
  BY DEF IInv, BeginStatement, Types, Activity, Carrying, control, channels, history, SqlPlaces
<1>3. QED
  BY <1>1, <1>2, NothingMoves DEF BeginStatement, Types, InReader, InWorker, Carrying, control, channels, history, SqlPlaces

LEMMA EndStatementInv ==
    ASSUME IInv, EndStatement
    PROVE  IInv'
<1>1. Types'
  BY DEF IInv, EndStatement, Types, Carrying, control, channels, history, SqlPlaces
<1>2. Activity'
  BY DEF IInv, EndStatement, Types, Activity, Carrying, control, channels, history, SqlPlaces
<1>3. QED
  BY <1>1, <1>2, NothingMoves DEF EndStatement, Types, InReader, InWorker, Carrying, control, channels, history, SqlPlaces

LEMMA ExecuteReturnsInv ==
    ASSUME IInv, ExecuteReturns
    PROVE  IInv'
<1>1. Types'
  BY DEF IInv, ExecuteReturns, Types, Carrying, control, channels, history, WorkerTo, SqlPlaces
<1>2. Activity'
  BY DEF IInv, ExecuteReturns, Types, Activity, Carrying, control, channels, history, WorkerTo, SqlPlaces
<1>3. QED
  BY <1>1, <1>2, NothingMoves DEF ExecuteReturns, Types, InReader, InWorker, Carrying, control, channels, history, WorkerTo, SqlPlaces

LEMMA LeaveInv ==
    ASSUME IInv, Leave
    PROVE  IInv'
<1>1. Types'
  BY StoppingFacts DEF IInv, Leave, Types, Carrying, control, channels, history, WorkerTo
<1>2. Activity'
  BY StoppingFacts DEF IInv, Leave, Types, Activity, Carrying, control, channels, history, WorkerTo
<1>3. QED
  BY <1>1, <1>2, NothingMoves DEF Stopping, Leave, Types, InReader, InWorker, Carrying, control, channels, history, WorkerTo

LEMMA CheckReplyInv ==
    ASSUME IInv, CheckReply
    PROVE  IInv'
<1>1. Types'
  BY DEF IInv, CheckReply, Types, Carrying, control, channels, history, WriterTo
<1>2. Activity'
  BY DEF IInv, CheckReply, Types, Activity, Carrying, control, channels, history, WriterTo
<1>3. QED
  BY <1>1, <1>2, NothingMoves DEF CheckReply, Types, InReader, InWorker, Carrying, control, channels, history, WriterTo

LEMMA WriteFailsInv ==
    ASSUME IInv, WriteFails
    PROVE  IInv'
<1>1. Types'
  BY DEF IInv, WriteFails, Types, Carrying, control, channels, history, WriterTo
<1>2. Activity'
  BY DEF IInv, WriteFails, Types, Activity, Carrying, control, channels, history, WriterTo
<1>3. QED
  BY <1>1, <1>2, NothingMoves DEF WriteFails, Types, InReader, InWorker, Carrying, control, channels, history, WriterTo

LEMMA WriterClosesInv ==
    ASSUME IInv, WriterCloses
    PROVE  IInv'
<1>1. Types'
  BY StoppingFacts DEF IInv, WriterCloses, Types, Carrying, control, channels, history, WriterTo
<1>2. Activity'
  BY StoppingFacts DEF IInv, WriterCloses, Types, Activity, Carrying, control, channels, history, WriterTo
<1>3. QED
  BY <1>1, <1>2, NothingMoves DEF Stopping, WriterCloses, Types, InReader, InWorker, Carrying, control, channels, history, WriterTo

LEMMA HelperWakesInv ==
    ASSUME IInv, HelperWakes
    PROVE  IInv'
<1>1. Types'
  BY DEF IInv, HelperWakes, Types, Carrying, control, channels, history
<1>2. Activity'
  BY DEF IInv, HelperWakes, Types, Activity, Carrying, control, channels, history
<1>3. QED
  BY <1>1, <1>2, NothingMoves DEF HelperWakes, Types, InReader, InWorker, Carrying, control, channels, history

LEMMA HelperChecksInv ==
    ASSUME IInv, HelperChecks
    PROVE  IInv'
<1>1. Types'
  BY InterruptedFacts DEF IInv, HelperChecks, Types, Carrying, control, channels, history, NeedsInterrupt
<1>2. Activity'
  BY InterruptedFacts DEF IInv, HelperChecks, Types, Activity, Carrying, control, channels, history, NeedsInterrupt
<1>3. QED
  BY <1>1, <1>2, NothingMoves DEF HelperChecks, Types, InReader, InWorker, Carrying, control, channels, history, NeedsInterrupt

LEMMA HelperSleepsInv ==
    ASSUME IInv, HelperSleeps
    PROVE  IInv'
<1>1. Types'
  BY DEF IInv, HelperSleeps, Types, Carrying, control, channels, history
<1>2. Activity'
  BY DEF IInv, HelperSleeps, Types, Activity, Carrying, control, channels, history
<1>3. QED
  BY <1>1, <1>2, NothingMoves DEF HelperSleeps, Types, InReader, InWorker, Carrying, control, channels, history

(* An error about somebody else's request, or about none, takes no request  *)
(* with it.                                                                 *)
LEMMA ErrorSent ==
    ASSUME IInv, NEW id \in Ids \cup {None}, Emit(Uncounted(id)),
           reader.pc = "reading", ReaderTo("top"),
           UNCHANGED <<calls, active, jobs, worker, writer, answers, withdrawn>>
    PROVE  IInv'
<1>1. Types
  BY DEF IInv
<1>2. Uncounted(id) \in OutputRecord
  BY RecordFacts
<1>3. /\ output' \in Seq(OutputRecord)
      /\ stopped' \in BOOLEAN /\ (stopped => stopped')
      /\ \A x : Occurs(output', x) => Occurs(output, x) \/ x = Uncounted(id)
      /\ \A x : Occurs(output, x) => Occurs(output', x)
      /\ \A x : Once(output, x) /\ ~(x = Uncounted(id) /\ Occurs(output, x)) => Once(output', x)
      /\ sql' \in SqlPlaces
      /\ sql'.doing = "idle" <=> sql.doing = "idle"
      /\ sql'.doing = "aborting" => sql.doing = "aborting" \/ stopped'
  BY <1>1, <1>2, EmitFacts
<1>4. Types'
  BY <1>1, <1>3 DEF Types, ReaderTo
<1>5. \A x \in Ids : /\ InReader(x)' <=> InReader(x)
                     /\ InJobs(x)' <=> InJobs(x)
                     /\ InWorker(x)' <=> InWorker(x)
                     /\ InOutput(x)' <=> InOutput(x)
                     /\ InWriter(x)' <=> InWriter(x)
                     /\ Once(jobs, x)' <=> Once(jobs, x)
                     /\ Once(output, Reply(x)) => Once(output, Reply(x))'
  <2>1. \A x \in Ids : Reply(x) # Uncounted(id)
    BY RecordFacts
  <2>2. \A x \in Ids : /\ InOutput(x)' <=> InOutput(x)
                       /\ Once(output, Reply(x)) => Once(output, Reply(x))'
    BY <1>3, <2>1 DEF InOutput, Reply
  <2>3. QED
    BY <1>1, <2>2 DEF InReader, InJobs, InWorker, InWriter, ReaderTo, Types
<1>6. HeldApart' /\ Staged' /\ Kept' /\ Told'
  BY <1>3, <1>5 DEF IInv, HeldApart, Staged, Kept, Held, Told
<1>7. Activity'
  BY <1>3 DEF IInv, Activity
<1>8. QED BY <1>4, <1>6, <1>7 DEF IInv

LEMMA BadFrameInv ==
    ASSUME IInv, NEW id \in Ids \cup {None}, BadFrame(id)
    PROVE  IInv'
BY ErrorSent DEF BadFrame, Frame, history

LEMMA RefuseInv ==
    ASSUME IInv, NEW id \in Ids, Refuse(id)
    PROVE  IInv'
BY ErrorSent DEF Refuse, Frame, history

(* A cancellation leaves the request where it is.                           *)
LEMMA CancelInv ==
    ASSUME IInv, NEW id \in Ids, Cancel(id)
    PROVE  IInv'
<1> DEFINE call == [calls[id] EXCEPT !.cancelled = TRUE]
<1>1. /\ Types /\ HeldApart /\ Staged /\ Kept /\ Activity /\ Told
  BY DEF IInv
<1>2. calls[id] \in CallRecord /\ calls[id] # None /\ calls[id].stage \in {"queued", "active"}
  BY <1>1 DEF Types, Cancel
<1>3. /\ call \in CallRecord /\ call.stage = calls[id].stage /\ call.cancelled = TRUE
      /\ call # None /\ calls' = [calls EXCEPT ![id] = call]
  BY <1>2, AdapterAssumption DEF Cancel, CallRecord
<1> HIDE DEF call
<1>4. /\ calls'[id] = call /\ \A x \in Ids : x # id => calls'[x] = calls[x]
      /\ calls' \in [Ids -> CallRecord \cup {None}]
  BY <1>1, <1>3 DEF Types
<1>5. /\ reader.pc = "reading" /\ ReaderTo("top")
      /\ withdrawn' = withdrawn \cup {id}
      /\ IF active = id THEN sql' = Interrupted ELSE sql' = sql
      /\ UNCHANGED <<active, stopped, jobs, output, worker, writer, answers>>
  BY DEF Cancel, Frame, channels
<1>6. sql' \in SqlPlaces /\ (sql'.doing = "idle" <=> sql.doing = "idle")
  BY <1>1, <1>5, InterruptedFacts DEF Types
<1>7. Types'
  BY <1>1, <1>4, <1>5, <1>6 DEF Types, ReaderTo
<1>8. \A x \in Ids : /\ InReader(x)' <=> InReader(x)
                     /\ InJobs(x)' <=> InJobs(x)
                     /\ InWorker(x)' <=> InWorker(x)
                     /\ InOutput(x)' <=> InOutput(x)
                     /\ InWriter(x)' <=> InWriter(x)
                     /\ Once(jobs, x)' <=> Once(jobs, x)
                     /\ Once(output, Reply(x))' <=> Once(output, Reply(x))
  BY <1>1, <1>5 DEF InReader, InJobs, InWorker, InOutput, InWriter, ReaderTo, Types
<1>9. HeldApart'
  BY <1>1, <1>8 DEF HeldApart
<1>10. Staged'
  <2>1. /\ calls[id] # Call("immediate") /\ calls[id] # Call("finished")
    BY <1>2 DEF Call
  <2>2. ~InReader(id) /\ ~InOutput(id) /\ ~InWriter(id) /\ ~(InWorker(id) /\ worker.pc = "replying")
    BY <1>1, <1>2, <2>1 DEF Staged
  <2>3. QED BY <1>1, <1>3, <1>4, <1>5, <1>8, <2>2 DEF Staged
<1>11. Kept'
  BY <1>1, <1>2, <1>4, <1>5, <1>8 DEF Kept, Held
<1>12. Activity'
  <2>1. CASE active = id
    <3>1. worker.id = id
      BY <1>1, <2>1, AdapterAssumption DEF Activity
    <3>2. QED BY <1>1, <1>3, <1>4, <1>5, <1>6, <3>1 DEF Activity
  <2>2. CASE active # id
    <3>1. sql.doing = "aborting" => worker.id # id /\ worker.id \in Ids
      BY <1>1, <2>2 DEF Activity, Types, Carrying
    <3>2. QED BY <1>1, <1>4, <1>5, <2>2, <3>1 DEF Activity
  <2>3. QED BY <2>1, <2>2
<1>13. Told'
  BY <1>1, <1>2, <1>3, <1>4, <1>5 DEF Told
<1>14. QED BY <1>7, <1>9, <1>10, <1>11, <1>12, <1>13 DEF IInv

(* A registration puts the request into the reader's hand.                  *)
LEMMA RegisterInv ==
    ASSUME IInv, NEW id \in Ids, NEW method \in Methods, Register(id, method)
    PROVE  IInv'
<1>1. /\ Types /\ HeldApart /\ Staged /\ Kept /\ Activity /\ Told
  BY DEF IInv
<1>2. Call("immediate") \in CallRecord /\ Call("immediate") # None
      /\ Call("immediate").cancelled = FALSE
  BY RecordFacts DEF Stage, Call
<1>3. /\ reader.pc = "reading" /\ calls[id] = None
      /\ calls' = [calls EXCEPT ![id] = Call("immediate")]
      /\ reader' = [pc |-> "dispatch", id |-> id, method |-> method]
      /\ answers' = [answers EXCEPT ![id] = 0] /\ withdrawn' = withdrawn \ {id}
      /\ UNCHANGED <<active, stopped, jobs, output, worker, sql, writer>>
  BY DEF Register, Frame, channels
<1>4. /\ calls'[id] = Call("immediate") /\ \A x \in Ids : x # id => calls'[x] = calls[x]
      /\ calls' \in [Ids -> CallRecord \cup {None}]
      /\ answers'[id] = 0 /\ \A x \in Ids : x # id => answers'[x] = answers[x]
      /\ answers' \in [Ids -> Nat] /\ withdrawn' \in SUBSET Ids
  BY <1>1, <1>2, <1>3 DEF Types
<1>5. Types'
  BY <1>1, <1>3, <1>4 DEF Types
<1>6. ~InReader(id) /\ ~InJobs(id) /\ ~InWorker(id) /\ ~InOutput(id) /\ ~InWriter(id)
  BY <1>1, <1>2, <1>3 DEF Staged
<1>7. \A x \in Ids : /\ InReader(x)' <=> x = id
                     /\ ~InReader(x)
                     /\ InJobs(x)' <=> InJobs(x)
                     /\ InWorker(x)' <=> InWorker(x)
                     /\ InOutput(x)' <=> InOutput(x)
                     /\ InWriter(x)' <=> InWriter(x)
                     /\ Once(jobs, x)' <=> Once(jobs, x)
                     /\ Once(output, Reply(x))' <=> Once(output, Reply(x))
  BY <1>1, <1>3 DEF InReader, InJobs, InWorker, InOutput, InWriter, Types
<1>8. HeldApart'
  BY <1>1, <1>6, <1>7 DEF HeldApart
<1>9. Staged'
  BY <1>1, <1>3, <1>4, <1>6, <1>7 DEF Staged
<1>10. Kept'
  BY <1>1, <1>3, <1>4, <1>7 DEF Kept, Held
<1>11. Activity'
  <2>1. worker.pc = "executing" => worker.id \in Ids /\ worker.id # id
    BY <1>1, <1>6 DEF Types, Carrying, InWorker
  <2>2. QED BY <1>1, <1>3, <1>4, <2>1 DEF Activity
<1>12. Told'
  BY <1>1, <1>3, <1>4 DEF Told
<1>13. QED BY <1>5, <1>8, <1>9, <1>10, <1>11, <1>12 DEF IInv

(* A reply takes its request from the hand of the reader or of the worker   *)
(* into the channel to the writer.                                          *)
LEMMA ReplySent ==
    ASSUME IInv, NEW id \in Ids, InReader(id) \/ InWorker(id), Emit(Reply(id)),
           NEW call \in CallRecord, call # None, ~call.cancelled,
           call.stage \in {"immediate", "finished"},
           calls' = [calls EXCEPT ![id] = call],
           \A x \in Ids : InReader(x)' <=> InReader(x) /\ x # id,
           \A x \in Ids : InWorker(x)' <=> InWorker(x) /\ x # id,
           worker'.pc = "replying" => worker.pc = "replying",
           id \notin withdrawn,
           Types', Activity',
           UNCHANGED <<jobs, writer, answers, withdrawn>>
    PROVE  IInv'
<1>1. /\ Types /\ HeldApart /\ Staged /\ Kept /\ Activity /\ Told
  BY DEF IInv
<1>2. Reply(id) \in OutputRecord
  BY RecordFacts
<1>3. /\ stopped => stopped'
      /\ \A x : Occurs(output', x) => Occurs(output, x) \/ x = Reply(id)
      /\ \A x : Occurs(output, x) => Occurs(output', x)
      /\ ~stopped' => Occurs(output', Reply(id))
      /\ \A x : Once(output, x) /\ ~(x = Reply(id) /\ Occurs(output, x)) => Once(output', x)
  BY <1>1, <1>2, EmitFacts
<1>4. /\ calls'[id] = call /\ \A x \in Ids : x # id => calls'[x] = calls[x]
  BY <1>1 DEF Types
<1>5. ~InJobs(id) /\ ~InOutput(id) /\ ~InWriter(id)
  BY <1>1 DEF HeldApart
<1>6. \A x \in Ids : /\ InJobs(x)' <=> InJobs(x)
                     /\ InWriter(x)' <=> InWriter(x)
                     /\ Once(jobs, x)' <=> Once(jobs, x)
  BY DEF InJobs, InWriter
<1>7. \A x \in Ids : x # id => Reply(x) # Reply(id)
  BY RecordFacts
<1>8. \A x \in Ids : x # id => /\ InOutput(x)' <=> InOutput(x)
                               /\ Once(output, Reply(x)) => Once(output, Reply(x))'
  BY <1>3, <1>7 DEF InOutput, Reply
<1>9. /\ Once(output, Reply(id)) => Once(output, Reply(id))'
      /\ ~stopped' => InOutput(id)'
  BY <1>3, <1>5 DEF InOutput, Reply
<1>10. HeldApart'
  BY <1>1, <1>5, <1>6, <1>8, <1>9 DEF HeldApart
<1>11. Staged'
  <2> SUFFICES ASSUME NEW x \in Ids
               PROVE  /\ InReader(x)' => calls'[x] = Call("immediate")
                      /\ InJobs(x)' => calls'[x] # None /\ calls'[x].stage = "queued"
                      /\ InWorker(x)' =>
                           /\ calls'[x] # None
                           /\ worker'.pc = "replying" => calls'[x] = Call("finished")
                      /\ InOutput(x)' \/ InWriter(x)' =>
                           /\ calls'[x] # None
                           /\ calls'[x].stage \in {"immediate", "finished"}
                           /\ ~calls'[x].cancelled
    BY DEF Staged, Call
  <2>1. CASE x = id
    BY <1>4, <1>5, <1>6, <2>1
  <2>2. CASE x # id
    BY <1>1, <1>4, <1>6, <1>8, <2>2 DEF Staged
  <2>3. QED BY <2>1, <2>2
<1>12. Kept'
  BY <1>1, <1>3, <1>4, <1>6, <1>8, <1>9 DEF Kept, Held
<1>13. Told'
  <2>1. calls[id] # None /\ ~(answers[id] > 0)
    BY <1>1, <1>5, RecordFacts DEF Staged, Told, InWriter, Stage
  <2>2. QED BY <1>1, <1>4, <2>1 DEF Told
<1>14. QED BY <1>10, <1>11, <1>12, <1>13 DEF IInv

\* What the reader has in its hand may become a reply.
LEMMA ReaderReplies ==
    ASSUME IInv, reader.pc = "dispatch", reader' = [pc |-> "top", id |-> None, method |-> None],
           Emit(Reply(reader.id)),
           NEW stage \in {"immediate", "finished"},
           calls' = [calls EXCEPT ![reader.id] = Call(stage)],
           UNCHANGED <<active, jobs, worker, writer, answers, withdrawn>>
    PROVE  IInv'
<1> DEFINE id == reader.id
<1>1. /\ Types /\ HeldApart /\ Staged /\ Activity /\ Told
  BY DEF IInv
<1>2. id \in Ids /\ InReader(id)
  BY <1>1 DEF Types, InReader
<1>3. /\ Call(stage) \in CallRecord /\ Call(stage) # None /\ ~Call(stage).cancelled
      /\ Call(stage).stage = stage
  BY RecordFacts DEF Stage, Call
<1>4. calls[id] = Call("immediate") /\ id \notin withdrawn
  BY <1>1, <1>2, RecordFacts DEF Staged, Told, Stage, Call
<1>5. Reply(id) \in OutputRecord
  BY <1>2, RecordFacts
<1>6. /\ output' \in Seq(OutputRecord) /\ stopped' \in BOOLEAN /\ (stopped => stopped')
      /\ sql' \in SqlPlaces /\ (sql'.doing = "idle" <=> sql.doing = "idle")
      /\ sql'.doing = "aborting" => sql.doing = "aborting" \/ stopped'
  BY <1>1, <1>5, EmitFacts
<1>7. /\ calls' \in [Ids -> CallRecord \cup {None}]
      /\ \A x \in Ids : x # id => calls'[x] = calls[x]
  BY <1>1, <1>2, <1>3 DEF Types
<1>8. Types'
  BY <1>1, <1>6, <1>7 DEF Types
<1>9. worker.pc = "executing" => worker.id \in Ids /\ worker.id # id
  BY <1>1, <1>2 DEF Types, HeldApart, Carrying, InWorker
<1>10. Activity'
  BY <1>1, <1>6, <1>7, <1>9 DEF Activity
<1>11. \A x \in Ids : /\ InReader(x)' <=> InReader(x) /\ x # id
                      /\ InWorker(x)' <=> InWorker(x) /\ x # id
  BY <1>1, <1>2 DEF InReader, InWorker, HeldApart
<1>12. QED
  <2> HIDE DEF id
  <2>1. calls' = [calls EXCEPT ![id] = Call(stage)] /\ Emit(Reply(id))
    BY DEF id
  <2>2. QED BY <1>2, <1>3, <1>4, <1>8, <1>10, <1>11, <2>1, ReplySent

\* The stage of a call moves on; the mark of its cancellation stays.
LEMMA RestagedCall ==
    ASSUME NEW call \in CallRecord, NEW stage \in Stage
    PROVE  /\ [call EXCEPT !.stage = stage] \in CallRecord
           /\ [call EXCEPT !.stage = stage].stage = stage
           /\ [call EXCEPT !.stage = stage].cancelled = call.cancelled
           /\ ~call.cancelled => [call EXCEPT !.stage = stage] = Call(stage)
<1> DEFINE moved == [call EXCEPT !.stage = stage]
<1>1. moved \in CallRecord /\ moved.stage = stage /\ moved.cancelled = call.cancelled
  BY DEF CallRecord
<1>2. Call(stage) \in CallRecord /\ Call(stage).stage = stage /\ Call(stage).cancelled = FALSE
  BY RecordFacts DEF Call
<1> HIDE DEF moved
<1>3. call.cancelled \in BOOLEAN
  BY DEF CallRecord
<1>4. ~call.cancelled => moved = Call(stage)
  BY <1>1, <1>2, <1>3 DEF CallRecord
<1>5. QED BY <1>1, <1>4 DEF moved

LEMMA AnswerAtOnceInv == IInv /\ AnswerAtOnce => IInv'
<1> SUFFICES ASSUME IInv, AnswerAtOnce PROVE IInv'
  OBVIOUS
<1>1. /\ reader.pc = "dispatch" /\ reader' = [pc |-> "top", id |-> None, method |-> None]
      /\ Emit(Reply(reader.id))
      /\ UNCHANGED <<calls, active, jobs, worker, writer, answers, withdrawn>>
  BY DEF AnswerAtOnce, Dispatching, history
<1>2. reader.id \in Ids /\ InReader(reader.id) /\ calls \in [Ids -> CallRecord \cup {None}]
  BY <1>1 DEF IInv, Types, InReader
<1>3. calls[reader.id] = Call("immediate")
  BY <1>2 DEF IInv, Staged
<1>4. calls' = [calls EXCEPT ![reader.id] = Call("immediate")]
  BY <1>1, <1>2, <1>3
<1>5. QED BY <1>1, <1>4, ReaderReplies

LEMMA OverloadInv == IInv /\ Overload => IInv'
<1> SUFFICES ASSUME IInv, Overload PROVE IInv'
  OBVIOUS
<1>1. /\ reader.pc = "dispatch" /\ reader' = [pc |-> "top", id |-> None, method |-> None]
      /\ Emit(Reply(reader.id))
      /\ calls' = [calls EXCEPT ![reader.id] = [calls[reader.id] EXCEPT !.stage = "finished"]]
      /\ UNCHANGED <<active, jobs, worker, writer, answers, withdrawn>>
  BY DEF Overload, Dispatching, history
<1>2. reader.id \in Ids /\ InReader(reader.id)
  BY <1>1 DEF IInv, Types, InReader
<1>3. calls[reader.id] = Call("immediate")
  BY <1>2 DEF IInv, Staged
<1>4. [calls[reader.id] EXCEPT !.stage = "finished"] = Call("finished")
  <2>1. Call("immediate") \in CallRecord /\ Call("immediate").cancelled = FALSE /\ "finished" \in Stage
    BY RecordFacts DEF Stage, Call
  <2>2. [Call("immediate") EXCEPT !.stage = "finished"] = Call("finished")
    BY <2>1, RestagedCall
  <2>3. QED BY <1>3, <2>2
<1>5. QED BY <1>1, <1>4, ReaderReplies

LEMMA WorkerReplyInv == IInv /\ WorkerReply => IInv'
<1> SUFFICES ASSUME IInv, WorkerReply PROVE IInv'
  OBVIOUS
<1> DEFINE id == worker.id
<1>1. /\ Types /\ HeldApart /\ Staged /\ Activity /\ Told
  BY DEF IInv
<1>2. /\ worker.pc = "replying" /\ worker' = [pc |-> "top", id |-> None]
      /\ Emit(Reply(id))
      /\ UNCHANGED <<calls, active, jobs, reader, writer, answers, withdrawn>>
  BY DEF WorkerReply, WorkerDone, history
<1>3. id \in Ids /\ InWorker(id)
  BY <1>1, <1>2 DEF Types, InWorker, Carrying
<1>4. calls[id] = Call("finished") /\ id \notin withdrawn
  BY <1>1, <1>2, <1>3, RecordFacts DEF Staged, Told, Stage, Call
<1>5. Reply(id) \in OutputRecord
  BY <1>3, RecordFacts
<1>6. /\ output' \in Seq(OutputRecord) /\ stopped' \in BOOLEAN /\ (stopped => stopped')
      /\ sql' \in SqlPlaces /\ (sql'.doing = "idle" <=> sql.doing = "idle")
  BY <1>1, <1>2, <1>5, EmitFacts
<1>7. Types'
  BY <1>1, <1>2, <1>6 DEF Types, Carrying
<1>8. Activity'
  BY <1>1, <1>2, <1>6 DEF Activity
<1>9. \A x \in Ids : /\ InReader(x)' <=> InReader(x) /\ x # id
                     /\ InWorker(x)' <=> InWorker(x) /\ x # id
  BY <1>1, <1>2, <1>3 DEF InReader, InWorker, HeldApart, Carrying
<1>10. calls' = [calls EXCEPT ![id] = Call("finished")]
  BY <1>1, <1>2, <1>3, <1>4 DEF Types
<1>11. /\ Call("finished") \in CallRecord /\ Call("finished") # None
       /\ ~Call("finished").cancelled /\ Call("finished").stage = "finished"
  BY RecordFacts DEF Stage, Call
<1> HIDE DEF id
<1>12. QED BY <1>2, <1>3, <1>4, <1>7, <1>8, <1>9, <1>10, <1>11, ReplySent

(* A call moves from the reader through the job channel to the worker.      *)
LEMMA EnqueueCallInv == IInv /\ EnqueueCall => IInv'
<1> SUFFICES ASSUME IInv, EnqueueCall PROVE IInv'
  OBVIOUS
<1> DEFINE id == reader.id
           call == [calls[id] EXCEPT !.stage = "queued"]
<1>1. /\ Types /\ HeldApart /\ Staged /\ Kept /\ Activity /\ Told
  BY DEF IInv
<1>2. /\ reader.pc = "dispatch" /\ reader' = [pc |-> "top", id |-> None, method |-> None]
      /\ calls' = [calls EXCEPT ![id] = call] /\ jobs' = Append(jobs, id)
      /\ UNCHANGED <<active, stopped, output, worker, sql, writer, answers, withdrawn>>
  BY DEF EnqueueCall, Dispatching, history
<1>3. id \in Ids /\ InReader(id) /\ jobs \in Seq(Ids)
  BY <1>1, <1>2 DEF Types, InReader
<1>4. calls[id] = Call("immediate") /\ id \notin withdrawn /\ ~(answers[id] > 0)
  BY <1>1, <1>3, RecordFacts DEF Staged, Told, Stage, Call, HeldApart, InWriter
<1>5. call \in CallRecord /\ call.stage = "queued" /\ call.cancelled = FALSE
  <2>1. Call("immediate") \in CallRecord /\ Call("immediate").cancelled = FALSE /\ "queued" \in Stage
    BY RecordFacts DEF Stage, Call
  <2>2. QED BY <1>4, <2>1, RestagedCall
<1> HIDE DEF id, call
<1>6. call # None
  BY <1>5, AdapterAssumption
<1>7. /\ calls'[id] = call /\ \A x \in Ids : x # id => calls'[x] = calls[x]
      /\ calls' \in [Ids -> CallRecord \cup {None}]
  BY <1>1, <1>2, <1>3, <1>5 DEF Types
<1>8. /\ jobs' \in Seq(Ids)
      /\ \A x \in Ids : /\ InJobs(x)' <=> InJobs(x) \/ x = id
                        /\ Once(jobs, x) /\ ~(x = id /\ InJobs(x)) => Once(jobs, x)'
  BY <1>2, <1>3, SentOccurs DEF InJobs
<1>9. Types'
  BY <1>1, <1>2, <1>7, <1>8 DEF Types
<1>10. \A x \in Ids : /\ InReader(x)' <=> InReader(x) /\ x # id
                      /\ InWorker(x)' <=> InWorker(x)
                      /\ InOutput(x)' <=> InOutput(x)
                      /\ InWriter(x)' <=> InWriter(x)
                      /\ Once(output, Reply(x))' <=> Once(output, Reply(x))
  BY <1>2 DEF InReader, InWorker, InOutput, InWriter, id
<1>11. HeldApart'
  BY <1>1, <1>3, <1>8, <1>10 DEF HeldApart
<1>12. ~InJobs(id) /\ ~InWorker(id) /\ ~InOutput(id) /\ ~InWriter(id)
  BY <1>1, <1>3 DEF HeldApart
<1>13. Staged'
  BY <1>1, <1>2, <1>5, <1>6, <1>7, <1>8, <1>10, <1>12 DEF Staged
<1>14. Kept'
  BY <1>1, <1>2, <1>7, <1>8, <1>10 DEF Kept, Held
<1>15. Activity'
  <2>1. worker.pc = "executing" => worker.id \in Ids /\ worker.id # id
    BY <1>1, <1>12 DEF Types, Carrying, InWorker
  <2>2. QED BY <1>1, <1>2, <1>7, <2>1 DEF Activity
<1>16. Told'
  BY <1>1, <1>2, <1>4, <1>7 DEF Told
<1>17. QED BY <1>9, <1>11, <1>13, <1>14, <1>15, <1>16 DEF IInv

LEMMA ReceiveInv == IInv /\ Receive => IInv'
<1> SUFFICES ASSUME IInv, Receive PROVE IInv'
  OBVIOUS
<1>1. /\ Types /\ HeldApart /\ Staged /\ Kept /\ Activity /\ Told
  BY DEF IInv
<1>2. /\ worker.pc = "receiving"
      /\ UNCHANGED <<calls, active, stopped, output, reader, sql, writer, answers, withdrawn>>
  BY DEF Receive, control, history
<1>3. CASE jobs = << >>
  <2>1. worker' = [pc |-> "top", id |-> None] /\ jobs' = jobs
    BY <1>3 DEF Receive, WorkerDone
  <2>2. Types'
    BY <1>1, <1>2, <2>1 DEF Types, Carrying
  <2>3. Activity'
    BY <1>1, <1>2, <2>1 DEF Activity
  <2>4. /\ \A x \in Ids : InReader(x)' <=> InReader(x)
        /\ \A x \in Ids : InWorker(x)' <=> InWorker(x)
    BY <1>2, <2>1 DEF InReader, InWorker, Carrying
  <2>5. QED BY <1>2, <2>1, <2>2, <2>3, <2>4, NothingMoves
<1>4. CASE jobs # << >>
  <2> DEFINE id == Head(jobs)
  <2>1. worker' = [pc |-> "taken", id |-> id] /\ jobs' = Tail(jobs)
    BY <1>4 DEF Receive
  <2>2. /\ jobs' \in Seq(Ids) /\ id \in Ids /\ InJobs(id)
        /\ \A x \in Ids : /\ InJobs(x)' <=> InJobs(x) /\ x # id
                          /\ Once(jobs, x)'
    <3>1. jobs \in Seq(Ids)
      BY <1>1 DEF Types
    <3>2. \A x \in Ids : Once(jobs, x)
      BY <1>1 DEF HeldApart
    <3>3. id \in Ids
      BY <1>4, <3>1
    <3>4. \A x \in Ids : /\ Tail(jobs) \in Seq(Ids) /\ Occurs(jobs, id)
                         /\ Occurs(Tail(jobs), x) <=> Occurs(jobs, x) /\ x # id
                         /\ Once(Tail(jobs), x)
      BY <1>4, <3>1, <3>2, ReceivedOccurs
    <3>5. QED BY <2>1, <3>3, <3>4 DEF InJobs
  <2> HIDE DEF id
  <2>3. Types'
    BY <1>1, <1>2, <2>1, <2>2 DEF Types, Carrying
  <2>4. \A x \in Ids : /\ InReader(x)' <=> InReader(x)
                       /\ InWorker(x)' <=> x = id
                       /\ ~InWorker(x)
                       /\ InOutput(x)' <=> InOutput(x)
                       /\ InWriter(x)' <=> InWriter(x)
                       /\ Once(output, Reply(x))' <=> Once(output, Reply(x))
    BY <1>2, <2>1 DEF InReader, InWorker, InOutput, InWriter, Carrying
  <2>5. HeldApart'
    BY <1>1, <2>2, <2>4 DEF HeldApart
  <2>6. Staged'
    BY <1>1, <1>2, <2>1, <2>2, <2>4 DEF Staged
  <2>7. Kept'
    BY <1>1, <1>2, <2>2, <2>4 DEF Kept, Held
  <2>8. Activity'
    BY <1>1, <1>2, <2>1 DEF Activity
  <2>9. Told'
    BY <1>1, <1>2 DEF Told
  <2>10. QED BY <2>3, <2>5, <2>6, <2>7, <2>8, <2>9 DEF IInv
<1>5. QED BY <1>3, <1>4

(* The worker lets a withdrawn request go, or works on it, or answers it.   *)
LEMMA WorkerDrops ==
    ASSUME IInv, worker.pc \in {"taken", "finishing"},
           worker' = [pc |-> "top", id |-> None],
           calls' = [calls EXCEPT ![worker.id] = None], active' = None,
           UNCHANGED <<stopped, jobs, output, reader, sql, writer, answers, withdrawn>>
    PROVE  IInv'
<1> DEFINE id == worker.id
<1>1. /\ Types /\ HeldApart /\ Staged /\ Kept /\ Activity /\ Told
  BY DEF IInv
<1>2. id \in Ids /\ InWorker(id)
  BY <1>1 DEF Types, InWorker, Carrying
<1>3. /\ calls'[id] = None /\ \A x \in Ids : x # id => calls'[x] = calls[x]
      /\ calls' \in [Ids -> CallRecord \cup {None}]
  BY <1>1, <1>2 DEF Types
<1>4. Types'
  BY <1>1, <1>3 DEF Types, Carrying
<1>5. \A x \in Ids : /\ InReader(x)' <=> InReader(x)
                     /\ InJobs(x)' <=> InJobs(x)
                     /\ InWorker(x)' <=> FALSE
                     /\ InWorker(x) <=> x = id
                     /\ InOutput(x)' <=> InOutput(x)
                     /\ InWriter(x)' <=> InWriter(x)
                     /\ Once(jobs, x)' <=> Once(jobs, x)
                     /\ Once(output, Reply(x))' <=> Once(output, Reply(x))
  BY DEF InReader, InJobs, InWorker, InOutput, InWriter, Carrying
<1> HIDE DEF id
<1>6. HeldApart'
  BY <1>1, <1>5 DEF HeldApart
<1>7. ~InReader(id) /\ ~InJobs(id) /\ ~InOutput(id) /\ ~InWriter(id)
  BY <1>1, <1>2 DEF HeldApart
<1>8. Staged'
  BY <1>1, <1>3, <1>5, <1>7 DEF Staged
<1>9. Kept'
  BY <1>1, <1>3, <1>5 DEF Kept, Held
<1>10. Activity'
  BY <1>1 DEF Activity
<1>11. Told'
  BY <1>1, <1>3 DEF Told
<1>12. QED BY <1>4, <1>6, <1>8, <1>9, <1>10, <1>11 DEF IInv

LEMMA WorkerMovesOn ==
    ASSUME IInv, NEW stage \in {"active", "finished"}, NEW pc \in {"executing", "replying"},
           worker.pc \in {"taken", "finishing"},
           ~calls[worker.id].cancelled,
           calls' = [calls EXCEPT ![worker.id] = [calls[worker.id] EXCEPT !.stage = stage]],
           pc = "replying" => stage = "finished",
           worker' = [worker EXCEPT !.pc = pc],
           active' = IF pc = "executing" THEN worker.id ELSE None,
           sql' \in SqlPlaces,
           pc = "executing" => sql'.doing # "aborting",
           pc # "executing" => sql'.doing = "idle",
           UNCHANGED <<stopped, jobs, output, reader, writer, answers, withdrawn>>
    PROVE  IInv'
<1> DEFINE id == worker.id
           call == [calls[id] EXCEPT !.stage = stage]
<1>1. /\ Types /\ HeldApart /\ Staged /\ Kept /\ Activity /\ Told
  BY DEF IInv
<1>2. id \in Ids /\ InWorker(id)
  BY <1>1 DEF Types, InWorker, Carrying
<1>3. calls[id] \in CallRecord
  BY <1>1, <1>2 DEF Staged, Types
<1>4. call \in CallRecord /\ call.cancelled = calls[id].cancelled /\ call = Call(stage)
  <2>1. stage \in Stage
    BY DEF Stage
  <2>2. QED BY <1>3, <2>1, RestagedCall
<1>5. worker' = [pc |-> pc, id |-> id]
  BY <1>1 DEF Types
<1> HIDE DEF id, call
<1>6. call # None
  BY <1>4, AdapterAssumption
<1>7. /\ calls'[id] = call /\ \A x \in Ids : x # id => calls'[x] = calls[x]
      /\ calls' \in [Ids -> CallRecord \cup {None}]
  BY <1>1, <1>2, <1>4 DEF Types, id, call
<1>8. Types'
  BY <1>1, <1>2, <1>5, <1>7 DEF Types, Carrying, id
<1>9. \A x \in Ids : /\ InReader(x)' <=> InReader(x)
                     /\ InJobs(x)' <=> InJobs(x)
                     /\ InWorker(x)' <=> InWorker(x)
                     /\ InWorker(x) <=> x = id
                     /\ InOutput(x)' <=> InOutput(x)
                     /\ InWriter(x)' <=> InWriter(x)
                     /\ Once(jobs, x)' <=> Once(jobs, x)
                     /\ Once(output, Reply(x))' <=> Once(output, Reply(x))
  BY <1>5 DEF InReader, InJobs, InWorker, InOutput, InWriter, Carrying, id
<1>10. HeldApart'
  BY <1>1, <1>9 DEF HeldApart
<1>11. ~InReader(id) /\ ~InJobs(id) /\ ~InOutput(id) /\ ~InWriter(id)
  BY <1>1, <1>2 DEF HeldApart
<1>12. Staged'
  BY <1>1, <1>4, <1>5, <1>6, <1>7, <1>9, <1>11 DEF Staged
<1>13. Kept'
  BY <1>1, <1>7, <1>9 DEF Kept, Held
<1>14. Activity'
  BY <1>5 DEF Activity, id
<1>15. Told'
  <2>1. calls[id] # None /\ id \notin withdrawn /\ ~(answers[id] > 0)
    BY <1>1, <1>2, <1>11 DEF Staged, Told, InWriter, id
  <2>2. QED BY <1>1, <1>7, <2>1 DEF Told
<1>16. QED BY <1>8, <1>10, <1>12, <1>13, <1>14, <1>15 DEF IInv

LEMMA StartInv == IInv /\ Start => IInv'
<1> SUFFICES ASSUME IInv, Start PROVE IInv'
  OBVIOUS
<1>1. /\ Types /\ HeldApart /\ Staged /\ Kept /\ Activity /\ Told
  BY DEF IInv
<1>2. /\ worker.pc = "taken"
      /\ UNCHANGED <<stopped, jobs, output, reader, writer, answers, withdrawn>>
  BY DEF Start, channels, history
<1>3. CASE stopped
  <2>1. worker' = [worker EXCEPT !.pc = "leaving"] /\ UNCHANGED <<calls, active, sql>>
    BY <1>3 DEF Start, WorkerTo
  <2>2. Types'
    BY <1>1, <1>2, <2>1 DEF Types, Carrying
  <2>3. Activity'
    BY <1>1, <1>2, <1>3, <2>1 DEF Activity, Types
  <2>4. \A x \in Ids : /\ InReader(x)' <=> InReader(x)
                       /\ InJobs(x)' <=> InJobs(x)
                       /\ ~InWorker(x)'
                       /\ InOutput(x)' <=> InOutput(x)
                       /\ InWriter(x)' <=> InWriter(x)
                       /\ Once(jobs, x)' <=> Once(jobs, x)
                       /\ Once(output, Reply(x))' <=> Once(output, Reply(x))
    BY <1>1, <1>2, <2>1 DEF InReader, InJobs, InWorker, InOutput, InWriter, Carrying, Types
  <2>5. HeldApart' /\ Staged' /\ Kept' /\ Told'
    BY <1>1, <1>2, <1>3, <2>1, <2>4 DEF HeldApart, Staged, Kept, Told
  <2>6. QED BY <2>2, <2>3, <2>5 DEF IInv
<1>4. CASE ~stopped /\ calls[worker.id].cancelled
  <2>1. /\ worker' = [pc |-> "top", id |-> None]
        /\ calls' = [calls EXCEPT ![worker.id] = None] /\ active' = active /\ sql' = sql
    BY <1>1, <1>4 DEF Start, WorkerDone
  <2>2. active = None
    BY <1>1, <1>2 DEF Activity
  <2>3. QED BY <1>2, <2>1, <2>2, WorkerDrops
<1>5. CASE ~stopped /\ ~calls[worker.id].cancelled
  <2>1. /\ worker' = [worker EXCEPT !.pc = "executing"]
        /\ calls' = [calls EXCEPT ![worker.id] = [calls[worker.id] EXCEPT !.stage = "active"]]
        /\ active' = worker.id /\ sql' = [left |-> Statements, doing |-> "between"]
    BY <1>5 DEF Start, WorkerTo
  <2>2. sql' \in SqlPlaces /\ sql'.doing = "between"
    BY <2>1, AdapterAssumption DEF SqlPlaces
  <2>3. QED BY <1>2, <1>5, <2>1, <2>2, WorkerMovesOn
<1>6. QED BY <1>3, <1>4, <1>5

LEMMA FinishInv == IInv /\ Finish => IInv'
<1> SUFFICES ASSUME IInv, Finish PROVE IInv'
  OBVIOUS
<1>1. /\ Types /\ Activity
  BY DEF IInv
<1>2. /\ worker.pc = "finishing" /\ active' = None
      /\ UNCHANGED <<stopped, jobs, output, reader, sql, writer, answers, withdrawn>>
  BY DEF Finish, channels, history
<1>3. CASE calls[worker.id].cancelled \/ stopped
  <2>1. /\ worker' = [pc |-> "top", id |-> None]
        /\ calls' = [calls EXCEPT ![worker.id] = None]
    BY <1>3 DEF Finish, WorkerDone
  <2>2. QED BY <1>2, <2>1, WorkerDrops
<1>4. CASE ~(calls[worker.id].cancelled \/ stopped)
  <2>1. /\ worker' = [worker EXCEPT !.pc = "replying"]
        /\ calls' = [calls EXCEPT ![worker.id] = [calls[worker.id] EXCEPT !.stage = "finished"]]
    BY <1>4 DEF Finish, WorkerTo
  <2>2. sql' \in SqlPlaces /\ sql'.doing = "idle"
    BY <1>1, <1>2 DEF Types, Activity
  <2>3. QED BY <1>2, <1>4, <2>1, <2>2, WorkerMovesOn
<1>5. QED BY <1>3, <1>4

(* The writer takes a reply, writes it and retires its request.             *)
LEMMA TakeReplyInv == IInv /\ TakeReply => IInv'
<1> SUFFICES ASSUME IInv, TakeReply PROVE IInv'
  OBVIOUS
<1> DEFINE entry == Head(output)
<1>1. /\ Types /\ HeldApart /\ Staged /\ Kept /\ Activity /\ Told
  BY DEF IInv
<1>2. /\ writer.pc = "receive" /\ output # << >>
      /\ writer' = [pc |-> "checking", reply |-> entry] /\ output' = Tail(output)
      /\ UNCHANGED <<calls, active, stopped, jobs, reader, worker, sql, answers, withdrawn>>
  BY DEF TakeReply, control, history
<1>3. entry \in OutputRecord /\ output' \in Seq(OutputRecord)
  BY <1>1, <1>2 DEF Types
<1>4. \A x \in Ids : /\ InOutput(x)' <=> InOutput(x) /\ Reply(x) # entry
                     /\ Reply(x) = entry => InOutput(x)
                     /\ Once(output, Reply(x))'
  <2>1. output \in Seq(OutputRecord)
    BY <1>1 DEF Types
  <2>2. \A x \in Ids : Once(output, Reply(x))
    BY <1>1 DEF HeldApart
  <2>3. \A x \in Ids : /\ Occurs(output, entry)
                       /\ Occurs(Tail(output), Reply(x)) <=> Occurs(output, Reply(x)) /\ Reply(x) # entry
                       /\ Once(Tail(output), Reply(x))
    BY <1>2, <2>1, <2>2, ReceivedOccurs
  <2> HIDE DEF entry
  <2>4. QED BY <1>2, <2>3 DEF InOutput, Reply
<1> HIDE DEF entry
<1>5. entry # None
  BY <1>3, AdapterAssumption
<1>6. Types'
  BY <1>1, <1>2, <1>3, <1>5 DEF Types
<1>7. \A x \in Ids : /\ InReader(x)' <=> InReader(x)
                     /\ InJobs(x)' <=> InJobs(x)
                     /\ InWorker(x)' <=> InWorker(x)
                     /\ InWriter(x)' <=> Reply(x) = entry
                     /\ ~InWriter(x)
                     /\ Once(jobs, x)' <=> Once(jobs, x)
  <2>1. writer.reply = None
    BY <1>1, <1>2 DEF Types
  <2>2. \A x \in Ids : ~InWriter(x)
    BY <2>1, RecordFacts DEF InWriter
  <2>3. QED BY <1>2, <2>2 DEF InReader, InJobs, InWorker, InWriter, Reply
<1>8. HeldApart'
  BY <1>1, <1>4, <1>7 DEF HeldApart
<1>9. Staged'
  BY <1>1, <1>2, <1>4, <1>7 DEF Staged
<1>10. Kept'
  BY <1>1, <1>2, <1>4, <1>7 DEF Kept, Held
<1>11. Activity'
  BY <1>1, <1>2 DEF Activity
<1>12. Told'
  BY <1>1, <1>2 DEF Told
<1>13. QED BY <1>6, <1>8, <1>9, <1>10, <1>11, <1>12 DEF IInv

LEMMA WrittenInv == IInv /\ Written => IInv'
<1> SUFFICES ASSUME IInv, Written PROVE IInv'
  OBVIOUS
<1> DEFINE entry == writer.reply
<1>1. /\ Types /\ HeldApart /\ Staged /\ Kept /\ Activity /\ Told
  BY DEF IInv
<1>2. /\ writer.pc = "writing" /\ writer' = [writer EXCEPT !.pc = "retiring"]
      /\ answers' = IF entry.retire THEN [answers EXCEPT ![entry.id] = @ + 1] ELSE answers
      /\ UNCHANGED <<calls, active, stopped, jobs, output, reader, worker, sql, withdrawn>>
  BY DEF Written, WriterTo, control, channels
<1>3. writer' = [pc |-> "retiring", reply |-> entry] /\ entry \in OutputRecord
  BY <1>1, <1>2 DEF Types
<1> HIDE DEF entry
<1>4. /\ answers' \in [Ids -> Nat]
      /\ \A x \in Ids : Reply(x) # entry => answers'[x] = answers[x]
  <2>1. \A x \in Ids : Reply(x) # entry => ~entry.retire \/ entry.id # x
    BY <1>3, ReplyIs
  <2>2. answers \in [Ids -> Nat]
    BY <1>1 DEF Types
  <2>3. CASE entry.retire
    <3>1. answers' = [answers EXCEPT ![entry.id] = answers[entry.id] + 1]
      BY <1>2, <2>3
    <3>2. \A x \in Ids : answers'[x] = answers[x] \/ answers'[x] = answers[x] + 1
      BY <2>2, <3>1
    <3>3. answers' \in [Ids -> Nat]
      <4>1. answers' = [x \in Ids |-> answers'[x]]
        BY <2>2, <3>1
      <4>2. \A x \in Ids : answers'[x] \in Nat
        BY <2>2, <3>2
      <4>3. QED BY <4>1, <4>2
    <3>4. QED BY <2>1, <2>2, <2>3, <3>1, <3>3
  <2>4. CASE ~entry.retire
    BY <1>2, <2>2, <2>4
  <2>5. QED BY <2>3, <2>4
<1>5. Types'
  BY <1>1, <1>2, <1>3, <1>4, AdapterAssumption DEF Types
<1>6. \A x \in Ids : /\ InReader(x)' <=> InReader(x)
                     /\ InJobs(x)' <=> InJobs(x)
                     /\ InWorker(x)' <=> InWorker(x)
                     /\ InOutput(x)' <=> InOutput(x)
                     /\ InWriter(x)' <=> InWriter(x)
                     /\ InWriter(x) <=> Reply(x) = entry
                     /\ Once(jobs, x)' <=> Once(jobs, x)
                     /\ Once(output, Reply(x))' <=> Once(output, Reply(x))
  BY <1>2, <1>3 DEF InReader, InJobs, InWorker, InOutput, InWriter, entry
<1>7. HeldApart' /\ Staged' /\ Kept'
  BY <1>1, <1>2, <1>6 DEF HeldApart, Staged, Kept, Held
<1>8. Activity'
  BY <1>1, <1>2 DEF Activity
<1>9. Told'
  BY <1>1, <1>2, <1>3, <1>4, RecordFacts DEF Told
<1>10. QED BY <1>5, <1>7, <1>8, <1>9 DEF IInv

LEMMA RetireInv == IInv /\ Retire => IInv'
<1> SUFFICES ASSUME IInv, Retire PROVE IInv'
  OBVIOUS
<1> DEFINE entry == writer.reply
<1>1. /\ Types /\ HeldApart /\ Staged /\ Kept /\ Activity /\ Told
  BY DEF IInv
<1>2. /\ writer.pc = "retiring" /\ writer' = [pc |-> "receive", reply |-> None]
      /\ calls' = IF entry.retire THEN [calls EXCEPT ![entry.id] = None] ELSE calls
      /\ UNCHANGED <<active, stopped, jobs, output, reader, worker, sql, answers, withdrawn>>
  BY DEF Retire, WriterDone, channels, history
<1>3. entry \in OutputRecord
  BY <1>1, <1>2 DEF Types
<1>4. /\ calls' \in [Ids -> CallRecord \cup {None}]
      /\ \A x \in Ids : calls'[x] = IF Reply(x) = entry THEN None ELSE calls[x]
  <2>1. \A x \in Ids : Reply(x) = entry <=> entry.retire /\ entry.id = x
    BY <1>3, ReplyIs
  <2>2. entry.retire \in BOOLEAN
    BY <1>3, ReplyIs
  <2>3. calls \in [Ids -> CallRecord \cup {None}]
    BY <1>1 DEF Types
  <2> HIDE DEF entry
  <2>4. QED BY <1>2, <2>1, <2>2, <2>3
<1>5. Types'
  BY <1>1, <1>2, <1>4 DEF Types
<1>6. \A x \in Ids : /\ InReader(x)' <=> InReader(x)
                     /\ InJobs(x)' <=> InJobs(x)
                     /\ InWorker(x)' <=> InWorker(x)
                     /\ InOutput(x)' <=> InOutput(x)
                     /\ ~InWriter(x)'
                     /\ InWriter(x) <=> Reply(x) = entry
                     /\ Once(jobs, x)' <=> Once(jobs, x)
                     /\ Once(output, Reply(x))' <=> Once(output, Reply(x))
  <2>1. \A x \in Ids : ~InWriter(x)'
    BY <1>2, RecordFacts DEF InWriter, Reply
  <2>2. QED BY <1>2, <2>1 DEF InReader, InJobs, InWorker, InOutput, InWriter
<1> HIDE DEF entry
<1>7. HeldApart'
  BY <1>1, <1>6 DEF HeldApart
<1>8. \A x \in Ids : Reply(x) = entry =>
                       ~InReader(x) /\ ~InJobs(x) /\ ~InWorker(x) /\ ~InOutput(x)
  BY <1>1, <1>6 DEF HeldApart
<1>9. Staged'
  BY <1>1, <1>2, <1>4, <1>6, <1>8 DEF Staged
<1>10. Kept'
  BY <1>1, <1>2, <1>4, <1>6 DEF Kept, Held
<1>11. Activity'
  <2>1. worker.pc = "executing" => worker.id \in Ids /\ Reply(worker.id) # entry
    BY <1>1, <1>8 DEF Types, Carrying, InWorker
  <2>2. QED BY <1>1, <1>2, <1>4, <2>1 DEF Activity
<1>12. Told'
  <2>1. \A x \in Ids : calls'[x] # None => answers[x] = 0
    <3>1. \A x \in Ids : calls'[x] # None => calls[x] # None /\ Reply(x) # entry
      BY <1>4
    <3>2. QED BY <1>1, <3>1 DEF Told, Types, entry
  <2>2. QED BY <1>1, <1>2, <1>4, <2>1 DEF Told
<1>13. QED BY <1>5, <1>7, <1>9, <1>10, <1>11, <1>12 DEF IInv

-----------------------------------------------------------------------------
LEMMA InvNext == IInv /\ [Next]_vars => IInv'
<1> SUFFICES ASSUME IInv, [Next]_vars PROVE IInv'
  OBVIOUS
<1>1. CASE UNCHANGED vars
  <2>1. UNCHANGED <<calls, active, stopped, jobs, output, reader, worker, sql, writer, answers,
                    withdrawn>>
    BY <1>1 DEF vars, control, channels, history
  <2>2. Types' /\ Activity'
    BY <2>1 DEF IInv, Types, Activity
  <2>3. QED BY <2>1, <2>2, NothingMoves DEF InReader, InWorker
<1>2. CASE Client
  BY <1>2, BadFrameInv, InitializedNoticeInv, CancelInv, RefuseInv, RegisterInv DEF Client
<1>3. CASE ReaderRuns \/ EndOfInput
  BY <1>3, ReaderTopInv, AnswerAtOnceInv, EnqueueCallInv, OverloadInv, EndOfInputInv DEF ReaderRuns
<1>4. CASE WorkerRuns \/ EndStatement
  BY <1>4, WorkerTopInv, ReceiveInv, StartInv, BeginStatementInv, EndStatementInv,
     ExecuteReturnsInv, FinishInv, WorkerReplyInv, LeaveInv DEF WorkerRuns
<1>5. CASE WriterRuns \/ Written \/ WriteFails
  BY <1>5, TakeReplyInv, CheckReplyInv, WrittenInv, WriteFailsInv, RetireInv, WriterClosesInv
     DEF WriterRuns
<1>6. CASE HelperRuns
  BY <1>6, HelperWakesInv, HelperChecksInv, HelperSleepsInv DEF HelperRuns
<1>7. QED BY <1>1, <1>2, <1>3, <1>4, <1>5, <1>6 DEF Next

THEOREM Invariant == Spec => []IInv
BY InvInit, InvNext, PTL DEF Spec

-----------------------------------------------------------------------------
(* Counting the places of a request.                                        *)
LEMMA CountOnce ==
    ASSUME NEW s, NEW x, Len(s) \in Nat, Once(s, x)
    PROVE  Cardinality({i \in 1..Len(s) : s[i] = x}) = IF Occurs(s, x) THEN 1 ELSE 0
<1> DEFINE at == {i \in 1..Len(s) : s[i] = x}
<1>1. CASE Occurs(s, x)
  <2>1. PICK i \in 1..Len(s) : s[i] = x
    BY <1>1 DEF Occurs
  <2>2. at = {i}
    BY <2>1 DEF Once
  <2>3. QED BY <1>1, <2>2, FS_Singleton
<1>2. CASE ~Occurs(s, x)
  <2>1. at = {}
    BY <1>2 DEF Occurs
  <2>2. QED BY <1>2, <2>1, FS_EmptySet
<1>3. QED BY <1>1, <1>2

LEMMA PlacesCounted ==
    ASSUME Types, HeldApart, NEW id \in Ids
    PROVE  Places(id) = IF Held(id) THEN 1 ELSE 0
<1>1. Len(jobs) \in Nat /\ Len(output) \in Nat
  BY DEF Types
<1>2. /\ Cardinality({i \in 1..Len(jobs) : jobs[i] = id}) = IF InJobs(id) THEN 1 ELSE 0
      /\ Cardinality({i \in 1..Len(output) : output[i] = Reply(id)}) = IF InOutput(id) THEN 1 ELSE 0
  BY <1>1, CountOnce DEF HeldApart, InJobs, InOutput
<1>3. Places(id) = (IF InReader(id) THEN 1 ELSE 0) + (IF InJobs(id) THEN 1 ELSE 0)
                   + (IF InWorker(id) THEN 1 ELSE 0) + (IF InOutput(id) THEN 1 ELSE 0)
                   + (IF InWriter(id) THEN 1 ELSE 0)
  BY <1>2 DEF Places, InReader, InWorker, InWriter, Carrying
<1>4. QED BY <1>3 DEF HeldApart, Held

(* A registered request is in exactly one hand or channel until it leaves   *)
(* the registry, and nothing else is: the lookups of the four threads in    *)
(* Control.calls find their request, and no id leaks its place (mcp.rs).    *)
THEOREM RequestsAreHeldOnce == Spec => []CallsAreHeldOnce
<1>1. IInv => CallsAreHeldOnce
  <2> SUFFICES ASSUME IInv, NEW id \in Ids
               PROVE  /\ Places(id) <= 1
                      /\ Places(id) = 1 => calls[id] # None
                      /\ ~stopped /\ calls[id] # None => Places(id) = 1
    BY DEF CallsAreHeldOnce
  <2>1. Places(id) = IF Held(id) THEN 1 ELSE 0
    BY PlacesCounted DEF IInv
  <2>2. Held(id) => calls[id] # None
    BY RecordFacts DEF IInv, Staged, Held, Stage
  <2>3. ~stopped /\ calls[id] # None => Held(id)
    BY DEF IInv, Kept
  <2>4. QED BY <2>1, <2>2, <2>3
<1>2. QED BY <1>1, Invariant, PTL

(* sqlite3_interrupt hits the call it was meant for: under the lock of      *)
(* Control, `cancel` and the helper find the cancelled call active (mcp.rs).*)
THEOREM InterruptsHitTheirTarget == Spec => []InterruptHitsItsTarget
<1>1. IInv => InterruptHitsItsTarget
  BY DEF IInv, Activity, InterruptHitsItsTarget
<1>2. QED BY <1>1, Invariant, PTL

(* The writer answers a registered request once, and a cancelled one never. *)
THEOREM AnswersAreSingle == Spec => AnsweredOnceUnlessWithdrawn
<1>1. IInv /\ [Next]_vars
        => [\A id \in Ids : answers'[id] > answers[id] => answers[id] = 0 /\ id \notin withdrawn]_vars
  <2> SUFFICES ASSUME IInv, Next, NEW id \in Ids, answers'[id] > answers[id]
               PROVE  answers[id] = 0 /\ id \notin withdrawn
    OBVIOUS
  <2>1. answers \in [Ids -> Nat]
    BY DEF IInv, Types
  <2>2. CASE Written
    <3> DEFINE entry == writer.reply
    <3>1. /\ writer.pc = "writing"
          /\ answers' = IF entry.retire THEN [answers EXCEPT ![entry.id] = @ + 1] ELSE answers
      BY <2>2 DEF Written
    <3>2. entry \in OutputRecord
      BY <3>1 DEF IInv, Types
    <3> HIDE DEF entry
    <3>3. entry.retire /\ entry.id = id
      BY <2>1, <3>1
    <3>4. entry = Reply(id)
      BY <3>2, <3>3 DEF Reply, OutputRecord
    <3>5. calls[id] # None /\ ~calls[id].cancelled
      BY <3>4 DEF IInv, Staged, InWriter, entry
    <3>6. QED BY <2>1, <3>1, <3>5 DEF IInv, Told
  <2>3. CASE \E x \in Ids, method \in Methods : Register(x, method)
    <3>1. PICK x \in Ids : answers' = [answers EXCEPT ![x] = 0]
      BY <2>3 DEF Register
    <3>2. answers'[id] = 0 \/ answers'[id] = answers[id]
      BY <2>1, <3>1
    <3>3. QED BY <2>1, <3>2
  <2>4. CASE UNCHANGED answers
    BY <2>1, <2>4
  <2>5. QED
    BY <2>2, <2>3, <2>4 DEF Next, Client, ReaderRuns, WorkerRuns, WriterRuns, HelperRuns,
       BadFrame, InitializedNotice, Cancel, Refuse, ReaderTop, AnswerAtOnce, EnqueueCall, Overload,
       EndOfInput, WorkerTop, Receive, Start, BeginStatement, EndStatement, ExecuteReturns, Finish,
       WorkerReply, Leave, TakeReply, CheckReply, WriteFails, Retire, WriterCloses, HelperWakes,
       HelperChecks, HelperSleeps, history
<1>2. QED BY <1>1, Invariant, PTL DEF Spec, AnsweredOnceUnlessWithdrawn

=============================================================================
