--------------------------- MODULE AnswersProofs ---------------------------
(***************************************************************************)
(* Proofs about questions, jobs, workers and billed runs (module Answers)  *)
(* for any messages, workers, prices, top-ups and bounds.                  *)
(***************************************************************************)
EXTENDS Answers, FiniteSetTheorems, TLAPS

-----------------------------------------------------------------------------
(* The inductive invariant, by what it is about.                           *)

\* A run of the question has been finalized.
Backed(m) == \E r \in RunIds : r[1] = m /\ generations[r].status = "succeeded"

\* The anchor a worker is going to settle, fail or wait for is its own.
Owns(w) ==
    /\ worker[w].pc = "orphan" => generations[worker[w].run].status = "running"
    /\ worker[w].pc \in {"provider", "settle"} /\ ~worker[w].free =>
          /\ generations[worker[w].run].status = "running"
          /\ Debits(worker[w].run) = {}

\* A worker with a job holds its lease until it closes it; what it has loaded
\* is still true; and a success it is about to write was produced.
WorkerOK(w) ==
    /\ Idle(w) => worker[w] = IdleWorker
    /\ ~Idle(w) =>
          /\ worker[w].job \in RunIds
          /\ worker[w].run \in RunIds
          /\ worker[w].run[1] = worker[w].job[1]
          /\ messages[worker[w].job[1]].attempt >= 1
          /\ worker[w].free => messages[worker[w].job[1]].free
    /\ Running(w) => jobs[worker[w].job].status = "running"
    /\ worker[w].pc = "settle" => ~worker[w].free
    /\ worker[w].pc \in {"refresh", "write"} =>
          /\ worker[w].outcome \in {"succeeded"} \cup Closed
          /\ worker[w].outcome = "succeeded" /\ ~worker[w].free =>
                Backed(worker[w].job[1])
    /\ Owns(w)

\* A question that was sent has an attempt, a free one was sent and is a demo
\* question and so stays free, and a success outside the demo was produced.
MessageOK(m) ==
    /\ messages[m].status /= "none" \/ m \in canceling =>
          messages[m].attempt >= 1
    /\ messages[m].free => messages[m].demo /\ messages[m].status /= "none"
    /\ messages[m].status = "succeeded" /\ ~messages[m].free => Backed(m)

\* The row of a run says what the ledger says.
Charged(r) ==
    /\ Debits(r) = IF generations[r].charged > 0 THEN {DebitRow(r)} ELSE {}
    /\ generations[r].charged > 0 =>
          generations[r].status = "succeeded" /\ generations[r].billing = "credits"

RunOK(r) ==
    /\ jobs[r].status /= "none" => messages[r[1]].attempt >= 1
    /\ Charged(r)

\* The partial unique index of the queue.
OneActiveJob ==
    \A q, r \in RunIds :
        /\ q[1] = r[1]
        /\ jobs[q].status \in ActiveJob
        /\ jobs[r].status \in ActiveJob
        => q = r

\* The runs finalized as the trial: one, once the trial is used.
TrialRuns ==
    {r \in RunIds : generations[r].status = "succeeded"
                    /\ generations[r].billing = "trial"}

TrialRunIsOne ==
    IF trialUsed THEN \E r \in RunIds : TrialRuns = {r} ELSE TrialRuns = {}

IInv ==
    /\ TypeOK
    /\ \A w \in Workers : WorkerOK(w)
    /\ \A m \in Messages : MessageOK(m)
    /\ \A r \in RunIds : RunOK(r)
    /\ OneActiveJob
    /\ OneRunner
    /\ TrialRunIsOne

-----------------------------------------------------------------------------
(* How a step moves one worker.                                            *)

WorkerRecords ==
    [pc: {"idle", "retry", "failentity"} \cup Dispatched,
     job: RunIds \cup {NoRun}, run: RunIds \cup {NoRun},
     free: BOOLEAN,
     seen: {"none", "succeeded"} \cup Waiting \cup Closed,
     decision: {"none", "trial", "credits"},
     outcome: {"none", "retryable", "fatal", "succeeded"} \cup Closed]

\* Only w moves ...
Moves(w) ==
    /\ worker' \in [Workers -> WorkerRecords]
    /\ \A v \in Workers \ {w} : worker'[v] = worker[v]

\* ... and goes on with the run it has.
GoesOn(w) ==
    /\ Moves(w)
    /\ worker'[w].job = worker[w].job
    /\ worker'[w].run = worker[w].run
    /\ worker'[w].free = worker[w].free

\* The steps of a worker, as facts about its record.
LEMMA GotoMoves ==
    ASSUME TypeOK, NEW w \in Workers,
           NEW l \in {"idle", "retry", "failentity"} \cup Dispatched, Goto(w, l)
    PROVE  /\ GoesOn(w)
           /\ worker'[w].pc = l
           /\ worker'[w].outcome = worker[w].outcome
    BY ZenonT(40) DEF TypeOK, Goto, GoesOn, Moves, WorkerRecords

\* A worker whose run has come to an end goes on to close the question.
LEMMA VerdictMoves ==
    ASSUME TypeOK, NEW w \in Workers, NEW s \in {"succeeded"} \cup Closed,
           Verdict(w, s)
    PROVE  /\ GoesOn(w)
           /\ worker'[w].pc = "refresh"
           /\ worker'[w].outcome = s
<1> DEFINE rec == [worker[w] EXCEPT !.pc = "refresh", !.outcome = s]
<1>1. worker \in [Workers -> WorkerRecords]
    BY DEF TypeOK, WorkerRecords
<1>2. /\ rec \in WorkerRecords
      /\ rec.pc = "refresh" /\ rec.outcome = s
      /\ rec.job = worker[w].job /\ rec.run = worker[w].run
      /\ rec.free = worker[w].free
    BY <1>1, ZenonT(40) DEF WorkerRecords, Dispatched
<1>3. worker' = [worker EXCEPT ![w] = rec]
    BY <1>1 DEF Verdict
<1> HIDE DEF rec
<1>4. QED
    BY <1>1, <1>2, <1>3 DEF GoesOn, Moves

\* A worker that lets go of its job is idle and alone has moved.
LEMMA ReleaseMoves ==
    ASSUME TypeOK, NEW w \in Workers, Release(w)
    PROVE  Moves(w) /\ worker'[w] = IdleWorker
    BY DEF TypeOK, Release, Moves, WorkerRecords, IdleWorker, NoRun

-----------------------------------------------------------------------------
(* What every step leaves alone.                                           *)

\* Attempts, free questions and finalized runs are never taken back.
Stable ==
    /\ \A m \in Messages :
          /\ messages'[m].attempt >= messages[m].attempt
          /\ messages[m].free => messages'[m].free
    /\ \A r \in RunIds : generations[r].status = "succeeded" =>
                            generations'[r].status = "succeeded"

\* A worker that does not move keeps what the invariant says of it, if its
\* job and its run are left alone.
LEMMA WorkerKept ==
    ASSUME TypeOK, TypeOK', NEW w \in Workers, WorkerOK(w), worker'[w] = worker[w], Stable,
           Running(w) => jobs'[worker[w].job].status = "running",
           Running(w) => /\ generations'[worker[w].run] = generations[worker[w].run]
                         /\ Debits(worker[w].run)' = Debits(worker[w].run)
    PROVE  WorkerOK(w)'
<1>1. CASE Idle(w)
    BY <1>1 DEF WorkerOK, Idle, Owns, Running, IdleWorker
<1>2. CASE ~Idle(w)
  <2>1. worker[w].job[1] \in Messages
      BY <1>2 DEF WorkerOK, RunIds
  <2>2. /\ messages'[worker[w].job[1]].attempt >= 1
        /\ worker[w].free => messages'[worker[w].job[1]].free
      BY <1>2, <2>1 DEF WorkerOK, Stable, TypeOK
  <2>3. Backed(worker[w].job[1]) => Backed(worker[w].job[1])'
      BY DEF Backed, Stable
  <2>4. Owns(w)'
      BY <1>2 DEF WorkerOK, Owns, Running
  <2>5. QED
      BY <1>2, <2>2, <2>3, <2>4 DEF WorkerOK, Idle, Running
<1>3. QED
    BY <1>1, <1>2

\* A step of a worker that goes on with its job: what is left to show is the
\* worker itself, its question and its run.
LEMMA BusyStep ==
    ASSUME IInv, TypeOK', NEW w \in Workers,
           Running(w), Running(w)', Moves(w), worker'[w].job = worker[w].job,
           WorkerOK(w)', UNCHANGED <<jobs, canceling>>, Stable,
           \A m \in Messages : messages'[m] = messages[m] \/ MessageOK(m)',
           \A r \in RunIds :
               \/ generations'[r] = generations[r] /\ Debits(r)' = Debits(r)
               \/ r = worker[w].run /\ Charged(r)',
           TrialRunIsOne'
    PROVE  IInv'
<1>1. ASSUME NEW v \in Workers PROVE WorkerOK(v)'
  <2>1. CASE v = w
      BY <2>1
  <2>2. CASE v /= w
    <3>1. worker'[v] = worker[v] /\ WorkerOK(v) /\ WorkerOK(w)
        BY <2>2 DEF Moves, IInv
    <3>2. Running(v) => worker[v].run \in RunIds \ {worker[w].run}
        BY <2>2, <3>1 DEF IInv, OneRunner, WorkerOK, Running, Idle
    <3>3. Running(v) => jobs'[worker[v].job].status = "running"
        BY <3>1 DEF WorkerOK
    <3>4. Running(v) =>
             /\ generations'[worker[v].run] = generations[worker[v].run]
             /\ Debits(worker[v].run)' = Debits(worker[v].run)
        BY <3>1, <3>2 DEF Debits
    <3>5. QED
        BY <3>1, <3>3, <3>4, WorkerKept DEF IInv
  <2>3. QED
      BY <2>1, <2>2
<1>2. ASSUME NEW m \in Messages PROVE MessageOK(m)'
  <2>1. Backed(m) => Backed(m)'
      BY DEF Backed, Stable
  <2>2. MessageOK(m)
      BY DEF IInv
  <2>3. CASE messages'[m] = messages[m]
      BY <2>1, <2>2, <2>3 DEF MessageOK
  <2>4. QED
      BY <2>3
<1>3. ASSUME NEW r \in RunIds PROVE RunOK(r)'
  <2>1. RunOK(r) /\ r[1] \in Messages
      BY DEF IInv, RunIds
  <2>2. Charged(r)'
      BY <2>1 DEF RunOK, Charged
  <2>3. jobs'[r].status /= "none" => messages'[r[1]].attempt >= 1
      BY <2>1 DEF RunOK, Stable, IInv, TypeOK
  <2>4. QED
      BY <2>2, <2>3 DEF RunOK
<1>4. OneActiveJob'
    BY DEF IInv, OneActiveJob
<1>5. OneRunner'
    BY DEF IInv, OneRunner, Moves, Running
<1>6. QED
    BY <1>1, <1>2, <1>3, <1>4, <1>5 DEF IInv

\* The same for a step that writes nothing.
LEMMA LocalStep ==
    ASSUME IInv, NEW w \in Workers, Running(w), Running(w)', Moves(w),
           worker'[w].job = worker[w].job, WorkerOK(w)', faults' \in 0..MaxFaults,
           UNCHANGED <<moneyVars, generations, messages, jobs, canceling>>
    PROVE  IInv'
<1>1. TypeOK'
    BY DEF IInv, TypeOK, Moves, WorkerRecords, moneyVars
<1>2. Stable
    BY DEF Stable, IInv, TypeOK
<1>3. \A r \in RunIds : Debits(r)' = Debits(r)
    BY DEF Debits, moneyVars
<1>4. TrialRunIsOne'
    BY DEF IInv, TrialRunIsOne, TrialRuns, moneyVars
<1>5. QED
    BY <1>1, <1>2, <1>3, <1>4, BusyStep

\* A worker that goes on with its run keeps what it has loaded.
LEMMA GoesOnOK ==
    ASSUME IInv, TypeOK', NEW w \in Workers, Running(w), GoesOn(w), Stable,
           UNCHANGED jobs, worker'[w].pc \notin {"idle", "failentity"}, Owns(w)',
           worker'[w].pc = "settle" => ~worker[w].free,
           worker'[w].pc \in {"refresh", "write"} =>
               /\ worker'[w].outcome \in {"succeeded"} \cup Closed
               /\ worker'[w].outcome = "succeeded" /\ ~worker[w].free =>
                      Backed(worker[w].job[1])'
    PROVE  WorkerOK(w)'
<1>1. WorkerOK(w) /\ ~Idle(w) /\ worker[w].job[1] \in Messages
    BY DEF IInv, WorkerOK, Running, Idle, RunIds
<1>2. /\ messages'[worker[w].job[1]].attempt >= 1
      /\ worker[w].free => messages'[worker[w].job[1]].free
    BY <1>1 DEF WorkerOK, Stable, IInv, TypeOK
<1>3. worker'[w].pc \in {"refresh", "write"} =>
          /\ worker'[w].outcome \in {"succeeded"} \cup Closed
          /\ worker'[w].outcome = "succeeded" /\ ~worker'[w].free =>
                 Backed(worker[w].job[1])'
    BY DEF GoesOn
<1>4. QED
    BY <1>1, <1>2, <1>3 DEF WorkerOK, GoesOn, Idle, Running

\* A step that writes nothing, of a worker that goes on with its run.
LEMMA PlainStep ==
    ASSUME IInv, NEW w \in Workers, Running(w), GoesOn(w),
           worker'[w].pc \notin {"idle", "failentity"}, Owns(w)',
           worker'[w].pc = "settle" => ~worker[w].free,
           worker'[w].pc \in {"refresh", "write"} =>
               /\ worker'[w].outcome \in {"succeeded"} \cup Closed
               /\ worker'[w].outcome = "succeeded" /\ ~worker[w].free =>
                      Backed(worker[w].job[1]),
           faults' \in 0..MaxFaults,
           UNCHANGED <<moneyVars, generations, messages, jobs, canceling>>
    PROVE  IInv'
<1>1. TypeOK' /\ Stable
    BY DEF IInv, TypeOK, Moves, GoesOn, WorkerRecords, moneyVars, Stable
<1>2. Backed(worker[w].job[1]) => Backed(worker[w].job[1])'
    BY DEF Backed, GoesOn
<1>3. worker'[w].pc \in {"refresh", "write"} =>
          /\ worker'[w].outcome \in {"succeeded"} \cup Closed
          /\ worker'[w].outcome = "succeeded" /\ ~worker[w].free =>
                 Backed(worker[w].job[1])'
    BY <1>2
<1>4. UNCHANGED jobs
    OBVIOUS
<1>5. WorkerOK(w)'
    BY <1>1, <1>3, <1>4, GoesOnOK
<1>6. QED
    BY <1>5, LocalStep DEF GoesOn, Running

-----------------------------------------------------------------------------
(* The steps of a worker.                                                  *)

\* run_answer() reads a question that waits; it has been sent.
LEMMA LoadIInv == ASSUME IInv, NEW w \in Workers, Load(w) PROVE IInv'
<1>1. /\ TypeOK /\ WorkerOK(w) /\ ~Idle(w) /\ Running(w)
      /\ worker[w].job[1] \in Messages
    BY DEF IInv, WorkerOK, Load, Idle, Running, RunIds
<1>2. CASE Msg(w).status \in Waiting
  <2>1. Msg(w).attempt \in 1..MaxAttempt
      BY <1>1, <1>2 DEF IInv, MessageOK, TypeOK, Msg, Waiting
  <2> DEFINE run == <<worker[w].job[1], Msg(w).attempt>>
             rec == [worker[w] EXCEPT !.pc = "start", !.seen = Msg(w).status,
                                      !.run = run, !.free = Msg(w).free]
  <2>2. /\ Moves(w)
        /\ worker'[w].pc = "start"
        /\ worker'[w].job = worker[w].job
        /\ worker'[w].run = run
        /\ worker'[w].run \in RunIds
        /\ worker'[w].free = Msg(w).free
    <3>1. worker \in [Workers -> WorkerRecords]
        BY <1>1 DEF TypeOK, WorkerRecords
    <3>2. run \in RunIds /\ Msg(w).status \in Waiting /\ Msg(w).free \in BOOLEAN
        BY <1>1, <1>2, <2>1 DEF RunIds, Msg, TypeOK
    <3> HIDE DEF run
    <3>3. /\ rec \in WorkerRecords
          /\ rec.pc = "start" /\ rec.job = worker[w].job
          /\ rec.run = run /\ rec.free = Msg(w).free
        BY <3>1, <3>2, ZenonT(40) DEF WorkerRecords, Dispatched
    <3>4. worker' = [worker EXCEPT ![w] = rec]
        BY <1>2, <3>1 DEF Load, run
    <3> HIDE DEF rec
    <3>5. QED
        BY <3>1, <3>2, <3>3, <3>4 DEF Moves
  <2>3. WorkerOK(w)' /\ Running(w)'
      BY <1>1, <2>2, SMTT(40) DEF Load, WorkerOK, Idle, Running, Owns, Msg
  <2>4. QED
      BY <1>1, <2>2, <2>3, LocalStep DEF Load, IInv, TypeOK
<1>3. CASE Msg(w).status \notin Waiting
  <2>1. GoesOn(w) /\ worker'[w].pc = "finish"
      BY <1>1, <1>3, GotoMoves DEF Load, Dispatched
  <2>2. QED
      BY <1>1, <2>1, PlainStep DEF Load, Owns, IInv, TypeOK
<1>4. QED
    BY <1>2, <1>3

\* build_context(): a free question goes to the provider without an anchor.
LEMMA ContextIInv == ASSUME IInv, NEW w \in Workers, Context(w) PROVE IInv'
<1>1. TypeOK /\ Running(w)
    BY DEF IInv, Context, Running
<1>2. CASE Verdict(w, "failed")
  <2>1. GoesOn(w) /\ worker'[w].pc = "refresh" /\ worker'[w].outcome = "failed"
      BY <1>1, <1>2, VerdictMoves DEF Closed
  <2>2. QED
      BY <1>1, <2>1, PlainStep DEF Context, Owns, Closed, IInv, TypeOK
<1>3. CASE Goto(w, IF worker[w].free THEN "provider" ELSE "policy")
  <2>1. /\ GoesOn(w)
        /\ worker'[w].pc = IF worker[w].free THEN "provider" ELSE "policy"
      BY <1>1, <1>3, GotoMoves DEF Dispatched
  <2>2. Owns(w)'
      BY <2>1 DEF Owns, GoesOn
  <2>3. QED
      BY <1>1, <2>1, <2>2, PlainStep DEF Context, IInv, TypeOK
<1>4. QED
    BY <1>2, <1>3 DEF Context

\* Steps 1 and 1.5 of GenerationService.run() only decide.
LEMMA PolicyIInv == ASSUME IInv, NEW w \in Workers, Policy(w) PROVE IInv'
<1>1. TypeOK /\ Running(w)
    BY DEF IInv, Policy, Running
<1>2. CASE Verdict(w, "blocked")
  <2>1. GoesOn(w) /\ worker'[w].pc = "refresh" /\ worker'[w].outcome = "blocked"
      BY <1>1, <1>2, VerdictMoves DEF Closed
  <2>2. QED
      BY <1>1, <2>1, PlainStep DEF Policy, Owns, Closed, IInv, TypeOK
<1>3. CASE Goto(w, "retry")
  <2>1. GoesOn(w) /\ worker'[w].pc = "retry"
      BY <1>1, <1>3, GotoMoves DEF Dispatched
  <2>2. QED
      BY <1>1, <2>1, PlainStep DEF Policy, Owns, IInv, TypeOK
<1>4. CASE /\ Allowed
           /\ worker' = [worker EXCEPT ![w].pc = "anchor",
                                       ![w].decision = Evaluate]
  <2> DEFINE rec == [worker[w] EXCEPT !.pc = "anchor", !.decision = Evaluate]
  <2>1. worker \in [Workers -> WorkerRecords]
      BY <1>1 DEF TypeOK, WorkerRecords
  <2>2. /\ rec \in WorkerRecords /\ rec.pc = "anchor"
        /\ rec.job = worker[w].job /\ rec.run = worker[w].run
        /\ rec.free = worker[w].free
      BY <1>4, <2>1, ZenonT(40) DEF WorkerRecords, Allowed, Dispatched
  <2>3. worker' = [worker EXCEPT ![w] = rec]
      BY <1>4, <2>1
  <2>4. GoesOn(w) /\ worker'[w].pc = "anchor"
    <3> HIDE DEF rec
    <3> QED
        BY <2>1, <2>2, <2>3 DEF GoesOn, Moves
  <2>5. QED
      BY <1>1, <2>4, PlainStep DEF Policy, Owns, IInv, TypeOK
<1>5. QED
    BY <1>2, <1>3, <1>4 DEF Policy

\* _on_failure() turns an error code into a status or another attempt.
LEMMA OnFailureIInv == ASSUME IInv, NEW w \in Workers, OnFailure(w) PROVE IInv'
<1>1. TypeOK /\ Running(w)
    BY DEF IInv, OnFailure, Running
<1>2. CASE Goto(w, "retry")
  <2>1. GoesOn(w) /\ worker'[w].pc = "retry"
      BY <1>1, <1>2, GotoMoves DEF Dispatched
  <2>2. QED
      BY <1>1, <2>1, PlainStep DEF OnFailure, Owns, IInv, TypeOK
<1>3. ASSUME NEW s \in {"canceled", "failed"}, Verdict(w, s) PROVE IInv'
  <2>1. GoesOn(w) /\ worker'[w].pc = "refresh" /\ worker'[w].outcome = s
      BY <1>1, <1>3, VerdictMoves DEF Closed
  <2>2. QED
      BY <1>1, <2>1, PlainStep DEF OnFailure, Owns, Closed, IInv, TypeOK
<1>4. QED
    BY <1>2, <1>3 DEF OnFailure

\* An exception in _dispatch leads to another attempt.
LEMMA RaiseIInv == ASSUME IInv, NEW w \in Workers, Raise(w) PROVE IInv'
<1>1. TypeOK /\ Running(w) /\ faults' \in 0..MaxFaults
    BY BoundsAssumption DEF IInv, TypeOK, Raise, Running, Dispatched
<1>2. GoesOn(w) /\ worker'[w].pc = "retry"
    BY <1>1, GotoMoves DEF Raise
<1>3. QED
    BY <1>1, <1>2, PlainStep DEF Raise, Owns

\* The status of one question is all that changes.
LEMMA StatusWritten ==
    ASSUME TypeOK, NEW m \in Messages,
           NEW s \in {"none", "succeeded"} \cup Waiting \cup Closed,
           messages' = [messages EXCEPT ![m].status = s]
    PROVE  /\ messages' \in [Messages ->
                 [status: {"none", "succeeded"} \cup Waiting \cup Closed,
                  attempt: 0..MaxAttempt, demo: BOOLEAN, free: BOOLEAN]]
           /\ \A q \in Messages :
                 /\ q /= m => messages'[q] = messages[q]
                 /\ messages'[q].attempt = messages[q].attempt
                 /\ messages'[q].demo = messages[q].demo
                 /\ messages'[q].free = messages[q].free
           /\ messages'[m].status = s
    BY DEF TypeOK

\* A worker writes the status of its question.
LEMMA StatusStep ==
    ASSUME IInv, NEW w \in Workers, Running(w), GoesOn(w),
           worker'[w].pc \in {"context", "finish"},
           NEW s \in {"running", "succeeded"} \cup Closed,
           messages' = [messages EXCEPT ![worker[w].job[1]].status = s],
           s = "succeeded" /\ ~worker[w].free => Backed(worker[w].job[1]),
           UNCHANGED <<moneyVars, generations, jobs, canceling, faults>>
    PROVE  IInv'
<1> DEFINE m == worker[w].job[1]
<1>1. TypeOK /\ WorkerOK(w) /\ ~Idle(w) /\ m \in Messages
    BY DEF IInv, WorkerOK, Running, Idle, RunIds
<1>2. s \in {"none", "succeeded"} \cup Waiting \cup Closed
    BY DEF Waiting
<1>3. /\ messages' \in [Messages ->
            [status: {"none", "succeeded"} \cup Waiting \cup Closed,
             attempt: 0..MaxAttempt, demo: BOOLEAN, free: BOOLEAN]]
      /\ \A q \in Messages :
            /\ q /= m => messages'[q] = messages[q]
            /\ messages'[q].attempt = messages[q].attempt
            /\ messages'[q].demo = messages[q].demo
            /\ messages'[q].free = messages[q].free
      /\ messages'[m].status = s
    BY <1>1, <1>2, StatusWritten
<1>4. TypeOK'
    BY <1>1, <1>3 DEF TypeOK, GoesOn, Moves, WorkerRecords, moneyVars
<1>5. Stable
    BY <1>1, <1>3, SMTT(40) DEF Stable, TypeOK
<1>6. WorkerOK(w)'
    BY <1>4, <1>5, GoesOnOK DEF Owns
<1>7. ASSUME NEW q \in Messages PROVE messages'[q] = messages[q] \/ MessageOK(q)'
  <2>1. CASE q /= m
      BY <2>1, <1>3
  <2>2. CASE q = m
    <3>1. MessageOK(m) /\ messages[m].attempt >= 1
        BY <1>1 DEF IInv, WorkerOK
    <3>2. worker[w].free => messages[m].free
        BY <1>1 DEF WorkerOK
    <3>3. Backed(q) => Backed(q)'
        BY DEF Backed
    <3>4. /\ messages'[q].attempt >= 1 /\ messages'[q].status /= "none"
          /\ messages'[q].free => messages'[q].demo
        BY <2>2, <3>1, <1>3, <1>1 DEF MessageOK, Closed
    <3>5. messages'[q].status = "succeeded" /\ ~messages'[q].free => Backed(q)'
        BY <2>2, <3>2, <3>3, <1>3, <1>1
    <3>6. QED
        BY <3>4, <3>5 DEF MessageOK
  <2>3. QED
      BY <2>1, <2>2
<1>8. \A r \in RunIds : generations'[r] = generations[r] /\ Debits(r)' = Debits(r)
    BY DEF Debits, moneyVars
<1>9. TrialRunIsOne'
    BY DEF IInv, TrialRunIsOne, TrialRuns, moneyVars
<1>10. Running(w)' /\ UNCHANGED <<jobs, canceling>>
    BY DEF Running
<1>11. QED
    BY <1>4, <1>5, <1>6, <1>7, <1>8, <1>9, <1>10, BusyStep DEF GoesOn

\* status = 'running'
LEMMA StartIInv == ASSUME IInv, NEW w \in Workers, Start(w) PROVE IInv'
<1> DEFINE rec == [worker[w] EXCEPT !.pc = "context", !.seen = "none"]
<1>1. TypeOK /\ Running(w)
    BY DEF IInv, Start, Running
<1>2. worker \in [Workers -> WorkerRecords]
    BY <1>1 DEF TypeOK, WorkerRecords
<1>3. /\ rec \in WorkerRecords /\ rec.pc = "context"
      /\ rec.job = worker[w].job /\ rec.run = worker[w].run
      /\ rec.free = worker[w].free
    BY <1>2, ZenonT(40) DEF WorkerRecords, Dispatched
<1>4. worker' = [worker EXCEPT ![w] = rec]
    BY <1>2 DEF Start
<1>5. GoesOn(w) /\ worker'[w].pc = "context"
  <2> HIDE DEF rec
  <2> QED
      BY <1>2, <1>3, <1>4 DEF GoesOn, Moves
<1>6. CASE messages' = messages
    BY <1>1, <1>5, <1>6, PlainStep DEF Start, Owns, IInv, TypeOK
<1>7. CASE messages' = [messages EXCEPT ![worker[w].job[1]].status = "running"]
    BY <1>1, <1>5, <1>7, StatusStep DEF Start
<1>8. QED
    BY <1>6, <1>7 DEF Start

\* _finish() reads the status again ...
LEMMA RefreshIInv == ASSUME IInv, NEW w \in Workers, Refresh(w) PROVE IInv'
<1>1. TypeOK /\ WorkerOK(w) /\ Running(w) /\ Msg(w).status \in {"none", "succeeded"} \cup Waiting \cup Closed
    BY DEF IInv, TypeOK, Refresh, WorkerOK, Running, Idle, RunIds, Msg
<1>2. CASE Goto(w, "finish")
  <2>1. GoesOn(w) /\ worker'[w].pc = "finish"
      BY <1>1, <1>2, GotoMoves DEF Dispatched
  <2>2. QED
      BY <1>1, <2>1, PlainStep DEF Refresh, Owns, IInv, TypeOK
<1>3. CASE worker' = [worker EXCEPT ![w].pc = "write", ![w].seen = Msg(w).status]
  <2> DEFINE rec == [worker[w] EXCEPT !.pc = "write", !.seen = Msg(w).status]
  <2>1. worker \in [Workers -> WorkerRecords]
      BY <1>1 DEF TypeOK, WorkerRecords
  <2>2. /\ rec \in WorkerRecords /\ rec.pc = "write"
        /\ rec.job = worker[w].job /\ rec.run = worker[w].run
        /\ rec.free = worker[w].free /\ rec.outcome = worker[w].outcome
      BY <1>1, <2>1, ZenonT(40) DEF WorkerRecords, Dispatched
  <2>3. worker' = [worker EXCEPT ![w] = rec]
      BY <1>3, <2>1
  <2>4. /\ GoesOn(w) /\ worker'[w].pc = "write"
        /\ worker'[w].outcome = worker[w].outcome
    <3> HIDE DEF rec
    <3> QED
        BY <2>1, <2>2, <2>3 DEF GoesOn, Moves
  <2>5. QED
      BY <1>1, <2>4, PlainStep DEF Refresh, Owns, IInv, TypeOK, WorkerOK
<1>4. QED
    BY <1>2, <1>3 DEF Refresh

\* ... and writes the outcome if it differs.
LEMMA WriteIInv == ASSUME IInv, NEW w \in Workers, Write(w) PROVE IInv'
<1>1. TypeOK /\ WorkerOK(w) /\ Running(w)
    BY DEF IInv, Write, Running
<1>2. GoesOn(w) /\ worker'[w].pc = "finish"
    BY <1>1, GotoMoves DEF Write, Dispatched
<1>3. CASE messages' = messages
    BY <1>1, <1>2, <1>3, PlainStep DEF Write, Owns, IInv, TypeOK
<1>4. CASE messages' = [messages EXCEPT ![worker[w].job[1]].status =
                           worker[w].outcome]
    BY <1>1, <1>2, <1>4, StatusStep DEF Write, WorkerOK
<1>5. QED
    BY <1>3, <1>4 DEF Write

\* The status of one row of generations is all that changes.
LEMMA RowWritten ==
    ASSUME TypeOK, NEW run \in RunIds,
           NEW s \in {"none", "running", "succeeded", "failed"},
           generations' = [generations EXCEPT ![run].status = s]
    PROVE  /\ generations' \in [RunIds ->
                 [status: {"none", "running", "succeeded", "failed"},
                  billing: {"none", "trial", "credits", "unbilled"},
                  charged: {0, Price}, kept: BOOLEAN]]
           /\ \A r \in RunIds : r /= run => generations'[r] = generations[r]
           /\ generations'[run].status = s
           /\ generations'[run].charged = generations[run].charged
<1> DEFINE Row == [status: {"none", "running", "succeeded", "failed"},
                   billing: {"none", "trial", "credits", "unbilled"},
                   charged: {0, Price}, kept: BOOLEAN]
           row == [generations[run] EXCEPT !.status = s]
<1>1. generations \in [RunIds -> Row]
    BY DEF TypeOK
<1>2. row \in Row /\ row.status = s /\ row.charged = generations[run].charged
    BY <1>1
<1>3. generations' = [generations EXCEPT ![run] = row]
    BY <1>1
<1> HIDE DEF row, Row
<1>4. /\ generations' \in [RunIds -> Row]
      /\ \A r \in RunIds : r /= run => generations'[r] = generations[r]
      /\ generations'[run] = row
    BY <1>1, <1>2, <1>3
<1>5. QED
    BY <1>2, <1>4 DEF Row

\* A worker starts or fails a row that is not finalized: no money moves.
LEMMA RowStep ==
    ASSUME IInv, NEW w \in Workers, Running(w), GoesOn(w),
           worker'[w].pc \notin {"idle", "failentity", "settle", "refresh", "write"},
           NEW s \in {"running", "failed"},
           generations[worker[w].run].status /= "succeeded",
           generations' = [generations EXCEPT ![worker[w].run].status = s],
           worker'[w].pc \in {"provider", "orphan"} => s = "running",
           UNCHANGED <<moneyVars, messages, jobs, canceling, faults>>
    PROVE  IInv'
<1> DEFINE run == worker[w].run
<1>1. TypeOK /\ WorkerOK(w) /\ run \in RunIds
    BY DEF IInv, WorkerOK, Running, Idle
<1>2. /\ generations' \in [RunIds ->
            [status: {"none", "running", "succeeded", "failed"},
             billing: {"none", "trial", "credits", "unbilled"},
             charged: {0, Price}, kept: BOOLEAN]]
      /\ \A r \in RunIds : r /= run => generations'[r] = generations[r]
      /\ generations'[run].status = s
      /\ generations'[run].charged = generations[run].charged
    BY <1>1, RowWritten
<1>3. TypeOK'
    BY <1>1, <1>2 DEF TypeOK, GoesOn, Moves, WorkerRecords, moneyVars
<1>4. Stable
    BY <1>1, <1>2 DEF Stable, TypeOK
<1>5. \A r \in RunIds : Debits(r)' = Debits(r)
    BY DEF Debits, moneyVars
<1>6. ~(generations[run].charged > 0) /\ Debits(run) = {}
    BY <1>1 DEF IInv, RunOK, Charged
<1>7. Owns(w)'
    BY <1>1, <1>2, <1>6 DEF Owns, GoesOn, Debits, moneyVars
<1>8. WorkerOK(w)'
    BY <1>3, <1>4, <1>7, GoesOnOK
<1>9. ASSUME NEW r \in RunIds
      PROVE  \/ generations'[r] = generations[r] /\ Debits(r)' = Debits(r)
             \/ r = worker[w].run /\ Charged(r)'
  <2>1. CASE r /= run
      BY <2>1, <1>2, <1>5
  <2>2. CASE r = run
      BY <2>2, <1>2, <1>5, <1>6 DEF Charged
  <2>3. QED
      BY <2>1, <2>2
<1>10. TrialRuns' = TrialRuns
    BY <1>1, <1>2 DEF TrialRuns
<1>11. TrialRunIsOne'
    BY <1>10 DEF IInv, TrialRunIsOne, moneyVars
<1>12. Running(w)' /\ UNCHANGED <<jobs, canceling>>
       /\ \A m \in Messages : messages'[m] = messages[m]
    BY DEF Running
<1>13. QED
    BY <1>3, <1>4, <1>8, <1>9, <1>11, <1>12, BusyStep DEF GoesOn

\* anchor() and retry() start a row, a finished one is answered from.
LEMMA AnchorIInv == ASSUME IInv, NEW w \in Workers, Anchor(w) PROVE IInv'
<1> DEFINE g == generations[worker[w].run]
<1>1. /\ TypeOK /\ Running(w) /\ WorkerOK(w)
      /\ worker[w].run \in RunIds /\ worker[w].run[1] = worker[w].job[1]
      /\ g.status \in {"none", "running", "succeeded", "failed"}
    BY DEF IInv, TypeOK, Anchor, Running, WorkerOK, Idle
<1>2. CASE g.status \in {"none", "failed"}
  <2>1. /\ Goto(w, "provider")
        /\ generations' = [generations EXCEPT ![worker[w].run].status = "running"]
      BY <1>2 DEF Anchor, Existing, Anchored
  <2>2. GoesOn(w) /\ worker'[w].pc = "provider"
      BY <1>1, <2>1, GotoMoves DEF Dispatched
  <2>3. QED
      BY <1>1, <1>2, <2>1, <2>2, RowStep DEF Anchor
<1>3. CASE g.status = "running"
  <2>1. Goto(w, "orphan") /\ generations' = generations
      BY <1>3 DEF Anchor, Existing
  <2>2. GoesOn(w) /\ worker'[w].pc = "orphan"
      BY <1>1, <2>1, GotoMoves DEF Dispatched
  <2>3. Owns(w)'
      BY <1>3, <2>1, <2>2 DEF Owns, GoesOn
  <2>4. QED
      BY <1>1, <2>1, <2>2, <2>3, PlainStep DEF Anchor, IInv, TypeOK
<1>4. CASE g.status = "succeeded"
  <2>1. PICK s \in {"succeeded", "failed"} :
            Verdict(w, s) /\ generations' = generations
      BY <1>4 DEF Anchor, Existing
  <2>2. GoesOn(w) /\ worker'[w].pc = "refresh" /\ worker'[w].outcome = s
      BY <1>1, <2>1, VerdictMoves DEF Closed
  <2>3. Backed(worker[w].job[1])
      BY <1>1, <1>4 DEF Backed
  <2>4. Owns(w)'
      BY <2>2 DEF Owns
  <2>5. QED
      BY <1>1, <2>1, <2>2, <2>3, <2>4, PlainStep DEF Anchor, Closed, IInv, TypeOK
<1>5. QED
    BY <1>1, <1>2, <1>3, <1>4

\* An anchor older than the lease is failed, a younger one waited for.
LEMMA OrphanIInv == ASSUME IInv, NEW w \in Workers, Orphan(w) PROVE IInv'
<1>1. TypeOK /\ Running(w) /\ generations[worker[w].run].status = "running"
    BY DEF IInv, Orphan, Running, WorkerOK, Owns
<1>2. CASE generations' = FailedRow(worker[w].run) /\ Goto(w, "policy")
  <2>1. GoesOn(w) /\ worker'[w].pc = "policy"
      BY <1>1, <1>2, GotoMoves DEF Dispatched
  <2>2. QED
      BY <1>1, <1>2, <2>1, RowStep DEF Orphan, FailedRow
<1>3. CASE Goto(w, "retry") /\ UNCHANGED generations
  <2>1. GoesOn(w) /\ worker'[w].pc = "retry"
      BY <1>1, <1>3, GotoMoves DEF Dispatched
  <2>2. QED
      BY <1>1, <1>3, <2>1, PlainStep DEF Orphan, Owns, IInv, TypeOK
<1>4. QED
    BY <1>2, <1>3 DEF Orphan

\* The provider answers, fails, or finds the question canceled.
LEMMA ProviderIInv == ASSUME IInv, NEW w \in Workers, Provider(w) PROVE IInv'
<1>1. TypeOK /\ Running(w) /\ Owns(w) /\ worker[w].free \in BOOLEAN
    BY DEF IInv, TypeOK, Provider, Running, WorkerOK
<1>2. ASSUME NEW code \in {"retryable", "fatal", "canceled"},
             ProviderFails(w, code)
      PROVE  IInv'
  <2> DEFINE rec == [worker[w] EXCEPT !.pc = "onfailure", !.outcome = code]
  <2>1. worker \in [Workers -> WorkerRecords]
      BY <1>1 DEF TypeOK, WorkerRecords
  <2>2. /\ rec \in WorkerRecords /\ rec.pc = "onfailure"
        /\ rec.job = worker[w].job /\ rec.run = worker[w].run
        /\ rec.free = worker[w].free
      BY <2>1, ZenonT(40) DEF WorkerRecords, Dispatched, Closed
  <2>3. worker' = [worker EXCEPT ![w] = rec]
      BY <1>2, <2>1 DEF ProviderFails
  <2>4. GoesOn(w) /\ worker'[w].pc = "onfailure"
    <3> HIDE DEF rec
    <3> QED
        BY <2>1, <2>2, <2>3 DEF GoesOn, Moves
  <2>5. CASE worker[w].free
    <3>1. UNCHANGED generations
        BY <1>2, <2>5 DEF ProviderFails
    <3>2. QED
        BY <1>1, <2>4, <3>1, PlainStep DEF Provider, Owns, IInv, TypeOK
  <2>6. CASE ~worker[w].free
    <3>1. /\ generations[worker[w].run].status = "running"
          /\ generations' = [generations EXCEPT ![worker[w].run].status = "failed"]
        BY <1>1, <1>2, <2>6 DEF Provider, Owns, ProviderFails, FailedRow
    <3>2. QED
        BY <1>1, <2>4, <3>1, RowStep DEF Provider
  <2>7. QED
      BY <1>1, <2>5, <2>6
<1>3. CASE worker[w].free /\ Verdict(w, "succeeded") /\ UNCHANGED generations
  <2>1. GoesOn(w) /\ worker'[w].pc = "refresh" /\ worker'[w].outcome = "succeeded"
      BY <1>1, <1>3, VerdictMoves
  <2>2. QED
      BY <1>1, <1>3, <2>1, PlainStep DEF Provider, Owns, IInv, TypeOK
<1>4. CASE ~worker[w].free /\ Goto(w, "settle") /\ UNCHANGED generations
  <2>1. GoesOn(w) /\ worker'[w].pc = "settle"
      BY <1>1, <1>4, GotoMoves DEF Dispatched
  <2>2. Owns(w)'
      BY <1>1, <1>4, <2>1 DEF Provider, Owns, GoesOn, Debits, moneyVars
  <2>3. QED
      BY <1>1, <1>4, <2>1, <2>2, PlainStep DEF Provider, IInv, TypeOK
<1>5. QED
    BY <1>1, <1>2, <1>3, <1>4 DEF Provider

\* A debit row is found under its own key and under no other.
LEMMA DebitPosted ==
    ASSUME NEW run \in RunIds, posted' = posted \cup {DebitRow(run)}
    PROVE  /\ Debits(run)' = Debits(run) \cup {DebitRow(run)}
           /\ \A r \in RunIds \ {run} : Debits(r)' = Debits(r)
<1>1. \A r \in RunIds : DebitKey(r) = DebitKey(run) => r = run
    BY DEF DebitKey
<1>2. DebitRow(run).user = User /\ DebitRow(run).key = DebitKey(run)
    BY DEF DebitRow
<1>3. ASSUME NEW r \in RunIds
      PROVE  L!RowsAt(posted', User, DebitKey(r)) =
                 L!RowsAt(posted, User, DebitKey(r)) \cup
                     (IF r = run THEN {DebitRow(run)} ELSE {})
    BY <1>1, <1>2 DEF L!RowsAt
<1>4. QED
    BY <1>3 DEF Debits

\* The row of a debit is a row of the ledger.
LEMMA DebitIsRow == \A r \in RunIds : DebitRow(r) \in L!Rows
    BY BoundsAssumption DEF DebitRow, L!Rows, L!Types, LedgerKeys

\* The row of a top-up as well, under a key no run has.
LEMMA TopUpIsRow ==
    \A t \in TopUps : TopUpRow(t) \in L!Rows
    BY BoundsAssumption DEF TopUpRow, L!Rows, L!Types, LedgerKeys

\* The credit of a top-up is the debit of no run.
LEMMA TopUpPosted ==
    ASSUME NEW t \in TopUps, posted' = posted \cup {TopUpRow(t)}
    PROVE  \A r \in RunIds : Debits(r)' = Debits(r)
<1>1. \A r \in RunIds : TopUpRow(t).key /= DebitKey(r)
    BY DEF TopUpRow, TopUpKey, DebitKey
<1>2. QED
    BY <1>1 DEF Debits, L!RowsAt

\* Step 4: the trial, a debit or nothing, and the row that says which.
LEMMA SettleIInv == ASSUME IInv, NEW w \in Workers, Settle(w) PROVE IInv'
<1> DEFINE billing == Settlement(w)
<1>0. PICK run \in RunIds : run = worker[w].run
    BY DEF IInv, Settle, WorkerOK, Idle
<1>1. /\ TypeOK /\ Running(w) /\ WorkerOK(w)
      /\ run[1] = worker[w].job[1]
      /\ generations[run].status = "running" /\ Debits(run) = {}
    BY <1>0 DEF IInv, Settle, Running, WorkerOK, Idle, Owns
<1>2. GoesOn(w) /\ worker'[w].pc = "refresh" /\ worker'[w].outcome = "succeeded"
    BY <1>1, VerdictMoves DEF Settle
<1>3. /\ billing \in {"trial", "credits", "unbilled"}
      /\ billing = "trial" => ~trialUsed
      /\ billing = "credits" => funds[User] >= Price
    BY <1>0, <1>1 DEF Settlement, FlipsTrial, Debits
<1>4. /\ billing = "credits" => L!Post(DebitRow(run))
      /\ billing /= "credits" => UNCHANGED <<posted, funds>>
    BY <1>0, <1>1 DEF Settle, Debits
<1>5. PICK kept \in BOOLEAN : generations' = Finalized(run, billing, kept)
    BY <1>0 DEF Settle
<1>6. trialUsed' = (trialUsed \/ billing = "trial")
    BY DEF Settle
<1> HIDE DEF billing
<1>7. /\ generations' \in [RunIds ->
            [status: {"none", "running", "succeeded", "failed"},
             billing: {"none", "trial", "credits", "unbilled"},
             charged: {0, Price}, kept: BOOLEAN]]
      /\ \A r \in RunIds : r /= run => generations'[r] = generations[r]
      /\ generations'[run].status = "succeeded"
      /\ generations'[run].billing = billing
      /\ generations'[run].charged = IF billing = "credits" THEN Price ELSE 0
    BY <1>1, <1>3, <1>5 DEF TypeOK, Finalized
<1>8. /\ posted' \subseteq L!Rows
      /\ funds' \in [{User} -> Int]
      /\ Debits(run)' = IF billing = "credits" THEN {DebitRow(run)} ELSE {}
      /\ \A r \in RunIds : r /= run => Debits(r)' = Debits(r)
  <2>1. CASE billing = "credits"
    <3>1. /\ posted' = posted \cup {DebitRow(run)}
          /\ funds' = [funds EXCEPT ![User] = @ - Price]
        BY <2>1, <1>4 DEF L!Post, L!BalanceAfter, L!Signed, DebitRow
    <3>2. Debits(run)' = Debits(run) \cup {DebitRow(run)}
          /\ \A r \in RunIds \ {run} : Debits(r)' = Debits(r)
        BY <1>1, <3>1, DebitPosted
    <3>3. funds' \in [{User} -> Int]
        BY <1>1, <3>1, BoundsAssumption DEF TypeOK
    <3>4. posted' \subseteq L!Rows
        BY <1>1, <3>1, DebitIsRow DEF TypeOK
    <3>5. QED
        BY <2>1, <1>1, <3>2, <3>3, <3>4
  <2>2. CASE billing /= "credits"
      BY <2>2, <1>1, <1>4 DEF TypeOK, Debits
  <2>3. QED
      BY <2>1, <2>2
<1>9. TypeOK'
    BY <1>1, <1>2, <1>6, <1>7, <1>8 DEF TypeOK, Settle, GoesOn, Moves, WorkerRecords
<1>10. Stable
    BY <1>1, <1>7 DEF Stable, TypeOK, Settle
<1>11. WorkerOK(w)'
  <2>1. Backed(worker[w].job[1])'
      BY <1>1, <1>2, <1>7 DEF Backed, GoesOn
  <2>2. QED
      BY <1>1, <1>2, <1>9, <1>10, <2>1, GoesOnOK DEF Settle, Owns
<1>12. ASSUME NEW r \in RunIds
       PROVE  \/ generations'[r] = generations[r] /\ Debits(r)' = Debits(r)
              \/ r = worker[w].run /\ Charged(r)'
  <2>1. CASE r /= run
      BY <2>1, <1>7, <1>8
  <2>2. CASE r = run
      BY <2>2, <1>0, <1>7, <1>8, BoundsAssumption DEF Charged
  <2>3. QED
      BY <2>1, <2>2
<1>13. TrialRunIsOne'
  <2>1. run \notin TrialRuns
      BY <1>1 DEF TrialRuns
  <2>2. TrialRuns' = IF billing = "trial" THEN TrialRuns \cup {run} ELSE TrialRuns
      BY <1>1, <1>7, <2>1 DEF TrialRuns
  <2>3. CASE billing = "trial"
    <3>1. ~trialUsed /\ trialUsed' /\ TrialRuns' = {run}
        BY <2>3, <1>3, <1>6, <2>2 DEF IInv, TrialRunIsOne
    <3>2. QED
        BY <3>1 DEF TrialRunIsOne
  <2>4. CASE billing /= "trial"
    <3>1. trialUsed' = trialUsed /\ TrialRuns' = TrialRuns
        BY <2>4, <1>1, <1>6, <2>2 DEF TypeOK
    <3>2. QED
        BY <3>1 DEF IInv, TrialRunIsOne
  <2>5. QED
      BY <2>3, <2>4
<1>14. Running(w)' /\ UNCHANGED <<jobs, canceling>>
       /\ \A m \in Messages : messages'[m] = messages[m]
    BY <1>2 DEF Running, Settle
<1>15. QED
    BY <1>1, <1>2, <1>9, <1>10, <1>11, <1>12, <1>13, <1>14, BusyStep DEF GoesOn

\* What the ledger and the rows of generations say stays true while neither
\* changes.
LEMMA MoneyKept ==
    ASSUME IInv, UNCHANGED <<trialUsed, generations>>,
           \A r \in RunIds : Debits(r)' = Debits(r)
    PROVE  /\ \A r \in RunIds : Charged(r)'
           /\ TrialRunIsOne'
<1>1. ASSUME NEW r \in RunIds PROVE Charged(r)'
  <2>1. Charged(r) /\ Debits(r)' = Debits(r)
      BY DEF IInv, RunOK
  <2>2. QED
      BY <2>1 DEF Charged
<1>2. TrialRunIsOne'
    BY DEF IInv, TrialRunIsOne, TrialRuns
<1>3. QED
    BY <1>1, <1>2

\* A worker closes its job, or gives it back to the queue.
LEMMA LeaveStep ==
    ASSUME IInv, NEW w \in Workers, Running(w), Moves(w),
           \/ worker'[w] = IdleWorker
           \/ GoesOn(w) /\ worker'[w].pc = "failentity",
           NEW s \in {"done", "failed", "queued"},
           jobs' = [jobs EXCEPT ![worker[w].job].status = s],
           UNCHANGED <<moneyVars, generations, messages, canceling, faults>>
    PROVE  IInv'
<1>1. PICK job \in RunIds : job = worker[w].job
    BY DEF IInv, WorkerOK, Running, Idle
<1>2. /\ TypeOK /\ WorkerOK(w) /\ ~Idle(w) /\ job[1] \in Messages
      /\ jobs[job].status = "running"
    BY <1>1 DEF IInv, WorkerOK, Running, Idle, RunIds
<1>3. /\ jobs' \in [RunIds -> [status: {"none", "done", "failed"} \cup ActiveJob,
                               attempts: 0..JobAttempts]]
      /\ \A r \in RunIds : r /= job => jobs'[r] = jobs[r]
      /\ jobs'[job].status = s
    BY <1>1, <1>2 DEF TypeOK, ActiveJob
<1>4. TypeOK'
    BY <1>2, <1>3 DEF TypeOK, Moves, WorkerRecords, moneyVars
<1>5. Stable
    BY <1>2 DEF Stable, TypeOK
<1>6. \A r \in RunIds : Debits(r)' = Debits(r)
    BY DEF Debits, moneyVars
<1>7. ASSUME NEW v \in Workers PROVE WorkerOK(v)'
  <2>1. CASE v = w
    <3>1. CASE worker'[w] = IdleWorker
        BY <2>1, <3>1 DEF WorkerOK, Idle, IdleWorker, Running, Owns
    <3>2. CASE GoesOn(w) /\ worker'[w].pc = "failentity"
        BY <2>1, <3>2, <1>2 DEF WorkerOK, Idle, Running, Owns, GoesOn
    <3>3. QED
        BY <3>1, <3>2
  <2>2. CASE v /= w
    <3>1. worker'[v] = worker[v] /\ WorkerOK(v)
        BY <2>2 DEF Moves, IInv
    <3>2. Running(v) => worker[v].job \in RunIds /\ worker[v].job /= job
        BY <2>2, <1>1, <3>1 DEF IInv, OneRunner, WorkerOK, Running, Idle
    <3>3. Running(v) => jobs'[worker[v].job].status = "running"
        BY <3>1, <3>2, <1>3 DEF WorkerOK
    <3>4. Debits(worker[v].run)' = Debits(worker[v].run)
        BY <3>1 DEF Debits, moneyVars
    <3>5. QED
        BY <1>2, <1>4, <1>5, <3>1, <3>3, <3>4, WorkerKept
  <2>3. QED
      BY <2>1, <2>2
<1>8. ASSUME NEW m \in Messages PROVE MessageOK(m)'
    BY DEF IInv, MessageOK, Backed
<1>9. ASSUME NEW r \in RunIds PROVE RunOK(r)'
  <2>1. jobs'[r].status /= "none" => messages'[r[1]].attempt >= 1
      BY <1>1, <1>2, <1>3 DEF IInv, RunOK, WorkerOK
  <2>2. QED
      BY <2>1, <1>6, MoneyKept DEF RunOK, moneyVars
<1>10. OneActiveJob'
    BY <1>2, <1>3 DEF IInv, OneActiveJob, ActiveJob
<1>11. OneRunner'
    BY DEF IInv, OneRunner, Moves, Running, IdleWorker
<1>12. TrialRunIsOne'
    BY <1>6, MoneyKept DEF moneyVars
<1>13. QED
    BY <1>4, <1>7, <1>8, <1>9, <1>10, <1>11, <1>12 DEF IInv

\* jobs.finish()
LEMMA FinishIInv == ASSUME IInv, NEW w \in Workers, Finish(w) PROVE IInv'
<1>1. TypeOK /\ Running(w)
    BY DEF IInv, Finish, Running
<1>2. Moves(w) /\ worker'[w] = IdleWorker
    BY <1>1, ReleaseMoves DEF Finish
<1>3. QED
    BY <1>1, <1>2, LeaveStep DEF Finish

\* _retry_or_fail()
LEMMA RetryOrFailIInv ==
    ASSUME IInv, NEW w \in Workers, RetryOrFail(w) PROVE IInv'
<1>1. TypeOK /\ Running(w)
    BY DEF IInv, RetryOrFail, Running
<1>2. CASE IsLast(w)
  <2>1. GoesOn(w) /\ worker'[w].pc = "failentity"
      BY <1>1, <1>2, GotoMoves DEF RetryOrFail
  <2>2. QED
      BY <1>1, <1>2, <2>1, LeaveStep DEF RetryOrFail, GoesOn
<1>3. CASE ~IsLast(w)
  <2>1. Moves(w) /\ worker'[w] = IdleWorker
      BY <1>1, <1>3, ReleaseMoves DEF RetryOrFail
  <2>2. QED
      BY <1>1, <1>3, <2>1, LeaveStep DEF RetryOrFail
<1>4. QED
    BY <1>2, <1>3

\* A worker without a job, or no worker, moves, and no money does.
LEMMA RestStep ==
    ASSUME IInv, TypeOK', Stable, UNCHANGED <<trialUsed, generations>>,
           \A r \in RunIds : Debits(r)' = Debits(r),
           \A v \in Workers : worker'[v] = worker[v] \/ WorkerOK(v)',
           \A r \in RunIds : jobs[r].status = "running" => jobs'[r].status = "running",
           \A m \in Messages : MessageOK(m)',
           \A r \in RunIds :
               jobs'[r].status /= "none" => messages'[r[1]].attempt >= 1,
           OneActiveJob', OneRunner'
    PROVE  IInv'
<1>1. ASSUME NEW v \in Workers PROVE WorkerOK(v)'
  <2>1. CASE worker'[v] = worker[v]
    <3>1. TypeOK /\ WorkerOK(v)
        BY DEF IInv
    <3>2. Running(v) => worker[v].job \in RunIds /\ worker[v].run \in RunIds
        BY <3>1 DEF WorkerOK, Running, Idle
    <3>3. Running(v) => jobs'[worker[v].job].status = "running"
        BY <3>1, <3>2 DEF WorkerOK
    <3>4. PICK run : run = worker[v].run
        OBVIOUS
    <3>5. Running(v) => Debits(worker[v].run)' = Debits(worker[v].run)
      <4>1. Running(v) => Debits(run)' = Debits(run)
          BY <3>2, <3>4
      <4>2. QED
          BY <4>1, <3>4, <2>1 DEF Debits
    <3>6. QED
        BY <2>1, <3>1, <3>3, <3>5, WorkerKept
  <2>2. QED
      BY <2>1
<1>2. ASSUME NEW r \in RunIds PROVE RunOK(r)'
    BY MoneyKept DEF RunOK
<1>3. QED
    BY <1>1, <1>2, MoneyKept DEF IInv

\* A released worker has nothing to keep.
LEMMA IdleOK ==
    ASSUME NEW w \in Workers, worker'[w] = IdleWorker
    PROVE  WorkerOK(w)' /\ ~Running(w)'
    BY DEF WorkerOK, Idle, IdleWorker, Running, Owns

\* A kill leaves the job running and the row anchored.
LEMMA DieIInv == ASSUME IInv, NEW w \in Workers, Die(w) PROVE IInv'
<1>1. TypeOK /\ faults' \in 0..MaxFaults
    BY BoundsAssumption DEF IInv, TypeOK, Die
<1>2. Moves(w) /\ worker'[w] = IdleWorker
    BY <1>1, ReleaseMoves DEF Die
<1>3. TypeOK' /\ Stable
    BY <1>1, <1>2 DEF TypeOK, Die, Moves, WorkerRecords, moneyVars, Stable
<1>4. \A v \in Workers : worker'[v] = worker[v] \/ WorkerOK(v)'
    BY <1>2, IdleOK DEF Moves
<1>5. /\ \A r \in RunIds : Debits(r)' = Debits(r)
      /\ \A r \in RunIds :
             jobs'[r].status /= "none" => messages'[r[1]].attempt >= 1
      /\ OneActiveJob'
    BY DEF Die, Debits, moneyVars, IInv, RunOK, OneActiveJob
<1>6. \A m \in Messages : MessageOK(m)'
    BY DEF Die, IInv, MessageOK, Backed
<1>7. OneRunner'
    BY <1>2, IdleOK DEF IInv, OneRunner, Moves, Running
<1>8. QED
    BY <1>3, <1>4, <1>5, <1>6, <1>7, RestStep DEF Die, moneyVars

\* _fail_entity()
LEMMA FailEntityIInv == ASSUME IInv, NEW w \in Workers, FailEntity(w) PROVE IInv'
<1>1. PICK m \in Messages : m = worker[w].job[1]
    BY DEF IInv, FailEntity, WorkerOK, Idle, RunIds
<1>2. /\ TypeOK /\ MessageOK(m)
      /\ UNCHANGED <<moneyVars, generations, jobs, canceling, faults>>
    BY DEF IInv, FailEntity
<1>3. Moves(w) /\ worker'[w] = IdleWorker
    BY <1>2, ReleaseMoves DEF FailEntity
<1>4. PICK s \in {"none", "succeeded"} \cup Waiting \cup Closed :
          /\ messages' = [messages EXCEPT ![m].status = s]
          /\ (s = "failed" /\ messages[m].status \in Waiting) \/ s = messages[m].status
    BY <1>1, <1>2 DEF FailEntity, TypeOK, Closed
<1>5. /\ messages' \in [Messages ->
            [status: {"none", "succeeded"} \cup Waiting \cup Closed,
             attempt: 0..MaxAttempt, demo: BOOLEAN, free: BOOLEAN]]
      /\ \A q \in Messages :
            /\ q /= m => messages'[q] = messages[q]
            /\ messages'[q].attempt = messages[q].attempt
            /\ messages'[q].demo = messages[q].demo
            /\ messages'[q].free = messages[q].free
      /\ messages'[m].status = s
    BY <1>2, <1>4, StatusWritten
<1>6. TypeOK' /\ Stable
    BY <1>2, <1>3, <1>5 DEF TypeOK, Moves, WorkerRecords, moneyVars, Stable
<1>7. \A v \in Workers : worker'[v] = worker[v] \/ WorkerOK(v)'
    BY <1>3, IdleOK DEF Moves
<1>8. ASSUME NEW q \in Messages PROVE MessageOK(q)'
  <2>1. MessageOK(q) /\ (Backed(q) => Backed(q)')
      BY DEF IInv, FailEntity, Backed
  <2>2. messages'[q].status /= "none" <=> messages[q].status /= "none"
      BY <1>4, <1>5 DEF Waiting
  <2>3. messages'[q].status = "succeeded" => messages[q].status = "succeeded"
      BY <1>4, <1>5
  <2>4. QED
      BY <2>1, <2>2, <2>3, <1>2, <1>5 DEF MessageOK
<1>9. /\ \A r \in RunIds : Debits(r)' = Debits(r)
      /\ \A r \in RunIds :
             jobs'[r].status /= "none" => messages'[r[1]].attempt >= 1
      /\ OneActiveJob'
    BY <1>5 DEF FailEntity, Debits, moneyVars, IInv, RunOK, OneActiveJob, RunIds
<1>10. OneRunner'
    BY <1>3, IdleOK DEF IInv, OneRunner, Moves, Running
<1>11. QED
    BY <1>6, <1>7, <1>8, <1>9, <1>10, RestStep DEF FailEntity, moneyVars

\* A job nobody holds is claimed: no other worker runs one of its question.
LEMMA ClaimIInv ==
    ASSUME IInv, NEW w \in Workers, NEW r \in RunIds, Claim(w, r) PROVE IInv'
<1> DEFINE rec == [worker[w] EXCEPT !.pc = "load", !.job = r, !.run = r]
<1>1. /\ TypeOK /\ worker[w].free = FALSE /\ jobs[r].status \in ActiveJob
    BY DEF IInv, WorkerOK, Claim, ActiveJob, IdleWorker
<1>2. /\ Moves(w)
      /\ worker'[w].pc = "load"
      /\ worker'[w].job = r
      /\ worker'[w].run = r
      /\ worker'[w].free = FALSE
  <2>1. worker \in [Workers -> WorkerRecords]
      BY <1>1 DEF TypeOK, WorkerRecords
  <2>2. /\ rec \in WorkerRecords /\ rec.pc = "load"
        /\ rec.job = r /\ rec.run = r /\ rec.free = FALSE
      BY <1>1, <2>1, ZenonT(40) DEF WorkerRecords, Dispatched
  <2>3. worker' = [worker EXCEPT ![w] = rec]
      BY <2>1 DEF Claim
  <2> HIDE DEF rec
  <2>4. QED
      BY <2>1, <2>2, <2>3 DEF Moves
<1>3. /\ jobs' \in [RunIds -> [status: {"none", "done", "failed"} \cup ActiveJob,
                               attempts: 0..JobAttempts]]
      /\ \A q \in RunIds : q /= r => jobs'[q] = jobs[q]
      /\ jobs'[r].status = "running"
  <2> DEFINE Job == [status: {"none", "done", "failed"} \cup ActiveJob,
                     attempts: 0..JobAttempts]
             n == IF jobs[r].attempts < JobAttempts THEN jobs[r].attempts + 1
                  ELSE jobs[r].attempts
             job == [jobs[r] EXCEPT !.status = "running", !.attempts = n]
  <2>1. jobs \in [RunIds -> Job] /\ n \in 0..JobAttempts
      BY <1>1, BoundsAssumption DEF TypeOK
  <2>2. job \in Job /\ job.status = "running"
    <3> HIDE DEF n
    <3> QED
        BY <2>1 DEF ActiveJob
  <2>3. jobs' = [jobs EXCEPT ![r] = job]
      BY <2>1 DEF Claim
  <2> HIDE DEF job, Job
  <2>4. jobs' \in [RunIds -> Job] /\ jobs'[r] = job
        /\ \A q \in RunIds : q /= r => jobs'[q] = jobs[q]
      BY <2>1, <2>2, <2>3
  <2>5. QED
      BY <2>2, <2>4 DEF Job
<1>4. TypeOK' /\ Stable
    BY <1>1, <1>2, <1>3 DEF TypeOK, Claim, Moves, WorkerRecords, moneyVars, Stable
<1>5. RunOK(r)
    BY DEF IInv
<1>6. WorkerOK(w)'
    BY <1>1, <1>2, <1>3, <1>5 DEF WorkerOK, Idle, Running, Owns, RunOK, Claim, ActiveJob
<1>7. ASSUME NEW v \in Workers \ {w}, Running(v)
      PROVE  worker[v].job[1] /= r[1]
  <2>1. ~Idle(v) /\ worker[v].job \in RunIds
        /\ jobs[worker[v].job].status = "running"
      BY <1>7 DEF IInv, WorkerOK, Running, Idle
  <2>2. worker[v].job /= r
      BY <2>1 DEF Claim, Held
  <2>3. QED
      BY <1>1, <2>1, <2>2 DEF IInv, OneActiveJob, ActiveJob
<1>8. OneRunner'
    BY <1>2, <1>7 DEF IInv, OneRunner, Moves, Running
<1>9. OneActiveJob'
    BY <1>1, <1>3 DEF IInv, OneActiveJob, ActiveJob
<1>10. /\ \A q \in RunIds : Debits(q)' = Debits(q)
       /\ \A q \in RunIds :
              jobs'[q].status /= "none" => messages'[q[1]].attempt >= 1
    BY <1>1, <1>3 DEF Claim, Debits, moneyVars, IInv, RunOK, ActiveJob
<1>11. \A m \in Messages : MessageOK(m)'
    BY DEF Claim, IInv, MessageOK, Backed
<1>12. QED
    BY <1>2, <1>3, <1>4, <1>6, <1>8, <1>9, <1>10, <1>11, RestStep
    DEF Claim, moneyVars, Moves

-----------------------------------------------------------------------------
(* The steps of the user.                                                  *)

\* Enqueueing respects the index and takes no running job away.
LEMMA EnqueueKeeps ==
    ASSUME TypeOK, OneActiveJob, NEW r \in RunIds, Enqueue(r)
    PROVE  /\ jobs' \in [RunIds -> [status: {"none", "done", "failed"} \cup ActiveJob,
                                    attempts: 0..JobAttempts]]
           /\ \A q \in RunIds :
                 /\ jobs[q].status = "running" => jobs'[q].status = "running"
                 /\ jobs'[q].status /= "none" => jobs[q].status /= "none" \/ q = r
           /\ OneActiveJob'
<1>1. CASE HasActiveJob(r[1])
    BY <1>1 DEF Enqueue, TypeOK, OneActiveJob
<1>2. CASE ~HasActiveJob(r[1])
  <2>1. jobs' = [jobs EXCEPT ![r] = [status |-> "queued", attempts |-> 0]]
      BY <1>2 DEF Enqueue
  <2>2. \A q \in RunIds : q[1] = r[1] => jobs[q].status \notin ActiveJob
      BY <1>2 DEF HasActiveJob
  <2>3. /\ jobs' \in [RunIds -> [status: {"none", "done", "failed"} \cup ActiveJob,
                                 attempts: 0..JobAttempts]]
        /\ \A q \in RunIds : q /= r => jobs'[q] = jobs[q]
        /\ jobs'[r].status = "queued"
      BY <2>1, BoundsAssumption DEF TypeOK, ActiveJob
  <2>4. OneActiveJob'
      BY <2>2, <2>3 DEF OneActiveJob
  <2>5. QED
      BY <2>2, <2>3, <2>4 DEF ActiveJob
<1>3. QED
    BY <1>1, <1>2

\* A question is sent, for the first time or again.
LEMMA SubmitIInv ==
    ASSUME IInv, NEW m \in Messages, NEW demo \in BOOLEAN, NEW free \in BOOLEAN,
           free => demo, messages[m].free => free, Submit(m, demo, free)
    PROVE  IInv'
<1>1. TypeOK /\ UNCHANGED <<moneyVars, generations, canceling, worker, faults>>
    BY DEF IInv, Submit
<1>2. PICK n \in 1..MaxAttempt : n = messages[m].attempt + 1
    BY <1>1, BoundsAssumption DEF Submit, TypeOK
<1>3. PICK status \in {"queued", "blocked"} :
          /\ messages' = [messages EXCEPT ![m] =
                [status |-> status, attempt |-> n, demo |-> demo, free |-> free]]
          /\ IF status = "queued" THEN Enqueue(<<m, n>>) ELSE UNCHANGED jobs
    BY <1>2 DEF Submit
<1>4. /\ messages' \in [Messages ->
            [status: {"none", "succeeded"} \cup Waiting \cup Closed,
             attempt: 0..MaxAttempt, demo: BOOLEAN, free: BOOLEAN]]
      /\ \A q \in Messages : q /= m => messages'[q] = messages[q]
      /\ messages'[m].status \in {"queued", "blocked"} /\ messages'[m].attempt = n
      /\ messages'[m].demo = demo /\ messages'[m].free = free
    BY <1>1, <1>2, <1>3 DEF TypeOK, Waiting, Closed
<1>5. <<m, n>> \in RunIds
    BY DEF RunIds
<1>6. /\ jobs' \in [RunIds -> [status: {"none", "done", "failed"} \cup ActiveJob,
                               attempts: 0..JobAttempts]]
      /\ \A q \in RunIds :
            /\ jobs[q].status = "running" => jobs'[q].status = "running"
            /\ jobs'[q].status /= "none" => jobs[q].status /= "none" \/ q = <<m, n>>
      /\ OneActiveJob'
  <2>1. CASE status = "queued"
      BY <2>1, <1>1, <1>3, <1>5, EnqueueKeeps DEF IInv
  <2>2. CASE status /= "queued"
      BY <2>2, <1>1, <1>3 DEF IInv, TypeOK, OneActiveJob
  <2>3. QED
      BY <2>1, <2>2
<1>7. TypeOK'
    BY <1>1, <1>4, <1>6 DEF TypeOK, moneyVars
<1>8. Stable
    BY <1>1, <1>2, <1>4 DEF Stable, TypeOK
<1>9. ASSUME NEW q \in Messages PROVE MessageOK(q)'
  <2>1. MessageOK(q) /\ (Backed(q) => Backed(q)')
      BY <1>1 DEF IInv, Backed
  <2>2. QED
      BY <2>1, <1>1, <1>2, <1>4 DEF MessageOK
<1>10. ASSUME NEW r \in RunIds, jobs'[r].status /= "none"
       PROVE  messages'[r[1]].attempt >= 1
  <2>1. r[1] \in Messages /\ (jobs[r].status /= "none" \/ r[1] = m)
      BY <1>6, <1>10 DEF RunIds
  <2>2. CASE r[1] = m
      BY <2>2, <1>2, <1>4
  <2>3. CASE r[1] /= m
      BY <2>1, <2>3, <1>4 DEF IInv, RunOK
  <2>4. QED
      BY <2>2, <2>3
<1>11. \A r \in RunIds : Debits(r)' = Debits(r)
    BY <1>1 DEF Debits, moneyVars
<1>12. OneRunner'
    BY <1>1 DEF IInv, OneRunner, Running
<1>13. QED
    BY <1>1, <1>6, <1>7, <1>8, <1>9, <1>10, <1>11, <1>12, RestStep DEF moneyVars

\* ask() and retry(): a demo question that was free stays free.
LEMMA AskIInv ==
    ASSUME IInv, NEW m \in Messages, NEW demo \in BOOLEAN, Ask(m, demo) \/ Retry(m)
    PROVE  IInv'
<1>1. TypeOK /\ MessageOK(m) /\ messages[m].demo \in BOOLEAN
    BY DEF IInv, TypeOK
<1>2. CASE Retry(m)
  <2>1. PICK free \in BOOLEAN :
            free = (messages[m].demo /\ (messages[m].free \/ DemoFreeLeft))
      OBVIOUS
  <2>2. (free => messages[m].demo) /\ (messages[m].free => free)
      BY <1>1, <2>1 DEF MessageOK
  <2>3. Submit(m, messages[m].demo, free)
      BY <1>2, <2>1 DEF Retry
  <2>4. QED
      BY <1>1, <2>2, <2>3, SubmitIInv
<1>3. CASE Ask(m, demo)
  <2>1. PICK free \in BOOLEAN : free = (demo /\ DemoFreeLeft)
      OBVIOUS
  <2>2. Submit(m, demo, free) /\ ~messages[m].free
      BY <1>1, <1>3, <2>1 DEF Ask, MessageOK
  <2>3. free => demo
      BY <2>1
  <2>4. QED
      BY <2>2, <2>3, SubmitIInv
<1>4. QED
    BY <1>2, <1>3

\* cancel() reads the status of a question that waits ...
LEMMA CancelReadIInv ==
    ASSUME IInv, NEW m \in Messages, CancelRead(m) PROVE IInv'
<1>1. TypeOK /\ MessageOK(m)
    BY DEF IInv
<1>2. TypeOK' /\ Stable
    BY <1>1 DEF CancelRead, TypeOK, moneyVars, Stable
<1>3. ASSUME NEW q \in Messages PROVE MessageOK(q)'
  <2>1. MessageOK(q) /\ (Backed(q) => Backed(q)')
      BY DEF IInv, CancelRead, Backed
  <2>2. QED
      BY <1>1, <2>1 DEF CancelRead, MessageOK, Waiting
<1>4. /\ \A r \in RunIds : Debits(r)' = Debits(r)
      /\ \A r \in RunIds :
             jobs'[r].status /= "none" => messages'[r[1]].attempt >= 1
      /\ OneActiveJob' /\ OneRunner'
    BY DEF CancelRead, Debits, moneyVars, IInv, RunOK, OneActiveJob, OneRunner, Running
<1>5. QED
    BY <1>2, <1>3, <1>4, RestStep DEF CancelRead, moneyVars

\* ... and overwrites it; a job that runs goes on.
LEMMA CancelWriteIInv ==
    ASSUME IInv, NEW m \in Messages, CancelWrite(m) PROVE IInv'
<1>1. /\ TypeOK /\ MessageOK(m) /\ m \in canceling
      /\ canceling' = canceling \ {m}
      /\ UNCHANGED <<moneyVars, generations, worker, faults>>
      /\ messages' = [messages EXCEPT ![m].status = "canceled"]
    BY DEF IInv, CancelWrite
<1>2. "canceled" \in {"none", "succeeded"} \cup Waiting \cup Closed
    BY DEF Closed
<1>3. /\ messages' \in [Messages ->
            [status: {"none", "succeeded"} \cup Waiting \cup Closed,
             attempt: 0..MaxAttempt, demo: BOOLEAN, free: BOOLEAN]]
      /\ \A q \in Messages :
            /\ q /= m => messages'[q] = messages[q]
            /\ messages'[q].attempt = messages[q].attempt
            /\ messages'[q].demo = messages[q].demo
            /\ messages'[q].free = messages[q].free
      /\ messages'[m].status = "canceled"
    BY <1>1, <1>2, StatusWritten
<1>4. /\ jobs' \in [RunIds -> [status: {"none", "done", "failed"} \cup ActiveJob,
                               attempts: 0..JobAttempts]]
      /\ \A r \in RunIds :
            \/ jobs'[r] = jobs[r]
            \/ jobs[r].status = "queued" /\ jobs'[r].status = "done"
  <2> DEFINE Job == [status: {"none", "done", "failed"} \cup ActiveJob,
                     attempts: 0..JobAttempts]
  <2>1. jobs \in [RunIds -> Job]
      BY <1>1 DEF TypeOK
  <2>2. jobs' = [r \in RunIds |->
                    IF r[1] = m /\ jobs[r].status = "queued"
                      THEN [jobs[r] EXCEPT !.status = "done"] ELSE jobs[r]]
      BY DEF CancelWrite, CancelQueued
  <2>3. ASSUME NEW r \in RunIds
        PROVE  /\ [jobs[r] EXCEPT !.status = "done"] \in Job
               /\ [jobs[r] EXCEPT !.status = "done"].status = "done"
      BY <2>1
  <2> HIDE DEF Job
  <2>4. jobs' \in [RunIds -> Job]
      BY <2>1, <2>2, <2>3
  <2>5. QED
      BY <2>2, <2>3, <2>4 DEF Job
<1>5. TypeOK' /\ Stable
    BY <1>1, <1>3, <1>4 DEF TypeOK, moneyVars, Stable
<1>6. ASSUME NEW q \in Messages PROVE MessageOK(q)'
  <2>1. MessageOK(q) /\ (Backed(q) => Backed(q)')
      BY <1>1 DEF IInv, Backed
  <2>2. QED
      BY <2>1, <1>1, <1>3 DEF MessageOK
<1>7. \A r \in RunIds : Debits(r)' = Debits(r)
    BY <1>1 DEF Debits, moneyVars
<1>8. ASSUME NEW r \in RunIds, jobs'[r].status /= "none"
      PROVE  messages'[r[1]].attempt >= 1
    BY <1>3, <1>4, <1>8 DEF IInv, RunOK, RunIds
<1>9. OneActiveJob'
    BY <1>4 DEF IInv, OneActiveJob, ActiveJob
<1>10. OneRunner'
    BY <1>1 DEF IInv, OneRunner, Running
<1>11. \A r \in RunIds : jobs[r].status = "running" => jobs'[r].status = "running"
    BY <1>4
<1>12. QED
    BY <1>1, <1>5, <1>6, <1>7, <1>8, <1>9, <1>10, <1>11, RestStep DEF moneyVars

\* Access changes and credits arrive under keys of their own.
LEMMA AccessIInv ==
    ASSUME IInv, sub' \in {"none", "active", "expired"},
           \/ UNCHANGED <<posted, funds>>
           \/ \E t \in TopUps : L!Post(TopUpRow(t)),
           UNCHANGED <<trialUsed, generations, messages, jobs, canceling,
                       worker, faults>>
    PROVE  IInv'
<1>1. TypeOK
    BY DEF IInv
<1>2. /\ posted' \subseteq L!Rows /\ funds' \in [{User} -> Int]
      /\ \A r \in RunIds : Debits(r)' = Debits(r)
  <2>1. CASE UNCHANGED <<posted, funds>>
      BY <1>1, <2>1 DEF TypeOK, Debits
  <2>2. ASSUME NEW t \in TopUps, L!Post(TopUpRow(t))
        PROVE  /\ posted' \subseteq L!Rows /\ funds' \in [{User} -> Int]
               /\ \A r \in RunIds : Debits(r)' = Debits(r)
    <3>1. /\ posted' = posted \cup {TopUpRow(t)}
          /\ funds' = [funds EXCEPT ![User] = @ + TopUpAmount]
        BY <2>2 DEF L!Post, L!BalanceAfter, L!Signed, TopUpRow
    <3>2. funds' \in [{User} -> Int]
        BY <1>1, <3>1, BoundsAssumption DEF TypeOK
    <3>3. posted' \subseteq L!Rows
        BY <1>1, <3>1, TopUpIsRow DEF TypeOK
    <3>4. QED
        BY <3>1, <3>2, <3>3, TopUpPosted
  <2>3. QED
      BY <2>1, <2>2
<1>3. TypeOK' /\ Stable
    BY <1>1, <1>2 DEF TypeOK, Stable
<1>4. \A m \in Messages : MessageOK(m)'
    BY DEF IInv, MessageOK, Backed
<1>5. /\ \A r \in RunIds :
             jobs'[r].status /= "none" => messages'[r[1]].attempt >= 1
      /\ OneActiveJob' /\ OneRunner'
    BY DEF IInv, RunOK, OneActiveJob, OneRunner, Running
<1>6. QED
    BY <1>2, <1>3, <1>4, <1>5, RestStep

\* Every step of the user preserves the inductive invariant.
LEMMA UserIInv == ASSUME IInv, UserStep PROVE IInv'
<1>1. sub \in {"none", "active", "expired"}
    BY DEF IInv, TypeOK
<1>2. ASSUME NEW t \in TopUps, TopUp(t) \/ GrantSubscription(t) PROVE IInv'
    BY <1>1, <1>2, AccessIInv DEF TopUp, GrantSubscription
<1>3. ASSUME NEW status \in {"active", "expired"}, Subscription(status) PROVE IInv'
    BY <1>3, AccessIInv DEF Subscription
<1>4. QED
    BY <1>2, <1>3, AskIInv, CancelReadIInv, CancelWriteIInv DEF UserStep

-----------------------------------------------------------------------------
(* The invariant, and what follows from it.                                *)

\* The initial state satisfies the inductive invariant.
LEMMA InitIInv == Init => IInv
<1> SUFFICES ASSUME Init PROVE IInv
    OBVIOUS
<1>1. TypeOK
  <2>1. worker \in [Workers -> WorkerRecords]
      BY DEF Init, WorkerRecords, IdleWorker
  <2>2. /\ posted \subseteq L!Rows /\ funds \in [{User} -> Int]
        /\ faults \in 0..MaxFaults
      BY BoundsAssumption DEF Init, L!LedgerInit
  <2>3. generations \in [RunIds ->
            [status: {"none", "running", "succeeded", "failed"},
             billing: {"none", "trial", "credits", "unbilled"},
             charged: {0, Price}, kept: BOOLEAN]]
      BY DEF Init, NoGeneration
  <2>4. messages \in [Messages ->
            [status: {"none", "succeeded"} \cup Waiting \cup Closed,
             attempt: 0..MaxAttempt, demo: BOOLEAN, free: BOOLEAN]]
      BY BoundsAssumption DEF Init
  <2>5. jobs \in [RunIds -> [status: {"none", "done", "failed"} \cup ActiveJob,
                            attempts: 0..JobAttempts]]
      BY BoundsAssumption DEF Init
  <2>6. QED
      BY <2>1, <2>2, <2>3, <2>4, <2>5 DEF Init, TypeOK, WorkerRecords
<1>2. \A w \in Workers : WorkerOK(w) /\ ~Running(w)
    BY DEF Init, WorkerOK, Idle, IdleWorker, Running, Owns
<1>3. \A m \in Messages : MessageOK(m)
    BY DEF Init, MessageOK
<1>4. \A r \in RunIds : RunOK(r)
    BY DEF Init, RunOK, Charged, Debits, NoGeneration, L!LedgerInit, L!RowsAt
<1>5. OneActiveJob /\ OneRunner /\ TrialRunIsOne
    BY <1>2 DEF Init, OneActiveJob, ActiveJob, OneRunner, TrialRunIsOne, TrialRuns,
                NoGeneration
<1>6. QED
    BY <1>1, <1>2, <1>3, <1>4, <1>5 DEF IInv

\* Every step preserves it.
LEMMA NextIInv == IInv /\ [Next]_vars => IInv'
<1> SUFFICES ASSUME IInv, [Next]_vars PROVE IInv'
    OBVIOUS
<1>1. CASE UNCHANGED vars
  <2>1. UNCHANGED <<sub, trialUsed, posted, funds, generations, messages, jobs,
                    canceling, worker, faults>>
      BY <1>1 DEF vars, moneyVars
  <2>2. sub' \in {"none", "active", "expired"}
      BY <2>1 DEF IInv, TypeOK
  <2>3. QED
      BY <2>1, <2>2, AccessIInv
<1>2. ASSUME NEW w \in Workers, WorkerStep(w) PROVE IInv'
    BY <1>2, LoadIInv, StartIInv, ContextIInv, PolicyIInv, AnchorIInv, OrphanIInv,
       ProviderIInv, SettleIInv, OnFailureIInv, RefreshIInv, WriteIInv, FinishIInv,
       RetryOrFailIInv, FailEntityIInv DEF WorkerStep
<1>3. QED
    BY <1>1, <1>2, UserIInv, DieIInv, RaiseIInv, ClaimIInv DEF Next

\* Every reachable state satisfies the inductive invariant.
LEMMA Invariance == Spec => []IInv
    BY InitIInv, NextIInv, PTL DEF Spec

\* Every variable keeps its type, and a run that is loaded exists.
THEOREM TypeCorrect == Spec => []TypeOK
<1>1. IInv => TypeOK
    BY DEF IInv
<1>2. QED
    BY <1>1, Invariance, PTL

\* Two workers never process one question at the same time: enqueue(), the
\* lease of claim() and the closing of a job, for any number of workers.
THEOREM OneRunnerHolds == Spec => []OneRunner
<1>1. IInv => OneRunner
    BY DEF IInv
<1>2. QED
    BY <1>1, Invariance, PTL

\* The row a worker is about to settle is the one it anchored, unpaid.
THEOREM AnchorOwnedHolds == Spec => []AnchorOwned
<1>1. IInv => AnchorOwned
    BY DEF IInv, WorkerOK, Owns, AnchorOwned
<1>2. QED
    BY <1>1, Invariance, PTL

\* A debit for every charged run, a charged run for every debit (BR-7).
THEOREM ChargesRecordedHolds == Spec => []ChargesRecorded
<1>1. IInv => ChargesRecorded
    BY DEF IInv, RunOK, Charged, ChargesRecorded
<1>2. QED
    BY <1>1, Invariance, PTL

\* One run is the trial's once trial_used is set, and none before.
LEMMA TrialCounted == TrialRunIsOne => TrialSpentOnce
<1>1. TrialSpentOnce <=> Cardinality(TrialRuns) = IF trialUsed THEN 1 ELSE 0
    BY DEF TrialSpentOnce, TrialRuns
<1>2. \A r \in RunIds : Cardinality({r}) = 1
    BY FS_Singleton
<1>3. Cardinality({}) = 0
    BY FS_EmptySet
<1>4. QED
    BY <1>1, <1>2, <1>3 DEF TrialRunIsOne

\* Questions that race for one trial and one balance are each billed once.
THEOREM BilledOnceHolds == Spec => []BilledOnce
<1>1. IInv => ChargesRecorded
    BY DEF IInv, RunOK, Charged, ChargesRecorded
<1>2. IInv => TrialSpentOnce
    BY TrialCounted DEF IInv
<1>3. IInv => BilledOnce
    BY <1>1, <1>2 DEF BilledOnce
<1>4. QED
    BY <1>3, Invariance, PTL

\* An answer shown as succeeded outside the free demo was produced.
THEOREM AnswerBackedHolds == Spec => []AnswerBacked
<1>1. IInv => AnswerBacked
    BY DEF IInv, MessageOK, Backed, AnswerBacked
<1>2. QED
    BY <1>1, Invariance, PTL

-----------------------------------------------------------------------------
(* A step changes a finished run never, and money only as the wallet does. *)

FinalStays ==
    \A r \in RunIds : generations[r].status = "succeeded" =>
                          generations'[r] = generations[r]

\* The rows of a worker that writes one are not finalized.
LEMMA WorkerFinal == ASSUME IInv, NEW w \in Workers, WorkerStep(w) PROVE FinalStays
<1>1. TypeOK /\ WorkerOK(w)
    BY DEF IInv
<1>2. ASSUME generations[worker[w].run].status /= "succeeded",
             \E row : generations' = [generations EXCEPT ![worker[w].run] = row]
      PROVE  FinalStays
    BY <1>1, <1>2 DEF FinalStays, TypeOK
<1>3. CASE Anchor(w)
    BY <1>1, <1>2, <1>3 DEF Anchor, Existing, Anchored, FinalStays
<1>4. CASE Orphan(w)
    BY <1>1, <1>2, <1>4 DEF Orphan, FailedRow, FinalStays, WorkerOK, Owns
<1>5. CASE Provider(w)
    BY <1>1, <1>2, <1>5
    DEF Provider, ProviderFails, FailedRow, FinalStays, WorkerOK, Owns
<1>6. CASE Settle(w)
    BY <1>1, <1>2, <1>6 DEF Settle, Finalized, WorkerOK, Owns
<1>7. CASE UNCHANGED generations
    BY <1>7 DEF FinalStays
<1>8. QED
    BY <1>3, <1>4, <1>5, <1>6, <1>7
    DEF WorkerStep, Load, Start, Context, Policy, OnFailure, Refresh, Write, Finish,
        RetryOrFail, FailEntity

\* A finalized run is never started, failed or finalized again: no crash,
\* retry or cancellation takes an answer or its charge back.
THEOREM FinalizedForGood == Spec => [][FinalStays]_vars
<1>1. IInv /\ [Next]_vars => [FinalStays]_vars
  <2> SUFFICES ASSUME IInv, Next PROVE FinalStays
      OBVIOUS
  <2>1. CASE UNCHANGED generations
      BY <2>1 DEF FinalStays
  <2>2. QED
      BY <2>1, WorkerFinal
      DEF Next, UserStep, Ask, Retry, Submit, CancelRead, CancelWrite, TopUp,
          GrantSubscription, Subscription, Die, Raise, Claim
<1>2. QED
    BY <1>1, Invariance, PTL DEF Spec

\* The questions use the wallet as module Ledger promises it: each step posts
\* one row, with an amount and a key of the ledger, or moves no money.
THEOREM UsesLedger == Spec => L!LedgerSpec
<1>1. Init => L!LedgerInit
    BY DEF Init
<1>2. IInv /\ [Next]_vars => [L!LedgerNext]_<<posted, funds>>
  <2> SUFFICES ASSUME IInv, [Next]_vars
               PROVE  L!LedgerNext \/ UNCHANGED <<posted, funds>>
      OBVIOUS
  <2>1. ASSUME NEW w \in Workers, Settle(w)
        PROVE  L!LedgerNext \/ UNCHANGED <<posted, funds>>
    <3>1. DebitRow(worker[w].run) \in L!Rows
        BY <2>1, DebitIsRow DEF IInv, WorkerOK, Idle, Settle
    <3>2. QED
        BY <2>1, <3>1 DEF Settle, L!LedgerNext
  <2>2. ASSUME NEW t \in TopUps, TopUp(t) \/ GrantSubscription(t)
        PROVE  L!LedgerNext
      BY <2>2, TopUpIsRow DEF TopUp, GrantSubscription, L!LedgerNext
  <2>3. ASSUME NEW w \in Workers, WorkerStep(w)
        PROVE  Settle(w) \/ UNCHANGED <<posted, funds>>
      BY <2>3
      DEF WorkerStep, Load, Start, Context, Policy, Anchor, Orphan, Provider, OnFailure,
          Refresh, Write, Finish, RetryOrFail, FailEntity, moneyVars
  <2>4. ASSUME UserStep
        PROVE  \/ \E t \in TopUps : TopUp(t) \/ GrantSubscription(t)
               \/ UNCHANGED <<posted, funds>>
      BY <2>4
      DEF UserStep, Ask, Retry, Submit, CancelRead, CancelWrite, Subscription, moneyVars
  <2>5. ASSUME NEW w \in Workers, NEW r \in RunIds, Claim(w, r)
        PROVE  UNCHANGED <<posted, funds>>
      BY <2>5 DEF Claim, moneyVars
  <2>6. CASE UNCHANGED vars
      BY <2>6 DEF vars, moneyVars
  <2>7. CASE \E w \in Workers : Die(w) \/ Raise(w)
      BY <2>7 DEF Die, Raise, moneyVars
  <2>8. QED
      BY <2>1, <2>2, <2>3, <2>4, <2>5, <2>6, <2>7 DEF Next
<1>3. QED
    BY <1>1, <1>2, Invariance, PTL DEF Spec, L!LedgerSpec, L!ledgerVars

=============================================================================
