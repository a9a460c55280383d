--------------------------- MODULE JobEvents_proofs ---------------------------
(***************************************************************************)
(* Theorems about JobEvents for every set of streams, every script that     *)
(* satisfies ScriptAssumption and every buffer size; where every report has *)
(* to be received, for buffers that hold as many events as the script has   *)
(* steps.                                                                   *)
(***************************************************************************)
EXTENDS JobEvents, FiniteSetTheorems, TLAPS

-----------------------------------------------------------------------------
(* Facts about the vocabulary *)

\* The step of a job nobody has picked up is not a step of the table.
LEMMA StepNoneIsNoStep == StepNone \notin StepNames
  BY DEF StepNone, StepNames, StepProgress

\* Every step of the script has its percentage from the table.
LEMMA ScriptProgress ==
  \A i \in 1 .. Len(Script) :
    /\ Script[i] \in StepNames
    /\ Progress(Script[i]) = StepProgress[Script[i]]
    /\ Progress(Script[i]) \in Nat
    /\ Progress(Script[i]) > 0
    /\ Progress(Script[i]) <= 100
  <1> SUFFICES ASSUME NEW i \in 1 .. Len(Script)
               PROVE  /\ Script[i] \in StepNames
                      /\ Progress(Script[i]) = StepProgress[Script[i]]
                      /\ Progress(Script[i]) \in Nat
                      /\ Progress(Script[i]) > 0
                      /\ Progress(Script[i]) <= 100
    OBVIOUS
  <1>1. Script[i] \in StepNames
    BY ScriptAssumption
  <1>2. Progress(Script[i]) = StepProgress[Script[i]]
    BY <1>1, StepNoneIsNoStep DEF Progress
  <1>3. StepProgress[Script[i]] \in 1 .. 100
    BY ScriptAssumption
  <1> DEFINE p == Progress(Script[i])
  <1>4. p \in 1 .. 100
    BY <1>2, <1>3
  <1> HIDE DEF p
  <1>5. p \in Nat /\ p > 0 /\ p <= 100
    BY <1>4
  <1> QED
    BY <1>1, <1>2, <1>5 DEF p

\* The percentages of the table.
LEMMA ProgressType ==
  \A p \in StepNames \cup {StepNone} : Progress(p) \in Nat /\ Progress(p) <= 100
  <1>1. StepNames = {"cloning", "configuring", "resizing", "adding_disks",
                     "starting", "waiting_for_running", "ready", "backing_up",
                     "stopping", "deleting", "restoring"}
    BY DEF StepNames, StepProgress
  <1>2. \A p \in StepNames : StepProgress[p] \in Nat /\ StepProgress[p] <= 100
    BY <1>1 DEF StepProgress
  <1> QED
    BY <1>2 DEF Progress

\* The outcome ranks above every step.
LEMMA RankType ==
  ASSUME NEW e \in Events
  PROVE  /\ Rank(e) \in Nat
         /\ Rank(e) <= 101
         /\ Rank(e) = 101 <=> e.status \in TerminalStatuses
  <1>1. Progress(e.step) \in Nat /\ Progress(e.step) <= 100
    BY ProgressType DEF Events
  <1> QED
    BY <1>1 DEF Rank

-----------------------------------------------------------------------------
(* Type correctness *)

\* While a stream is inside Unsubscribe the list is not empty, its array is as
\* long as the copy being moved, and only slots before the last are to be
\* written.
LockInv ==
  mu # NoStream =>
    /\ nsubs > 0
    /\ shift.todo \subseteq 1 .. nsubs - 1
    /\ Len(shift.from) = Len(slots)

TypeInv == TypeOK /\ LockInv

\* A job nobody has created is a record like any other.
LEMMA NoJobType == NoJob \in Events
  BY DEF NoJob, Events, JobStatuses

\* The publisher's locals after its loop are well typed.
LEMMA IdleType ==
  ASSUME NEW e \in Events
  PROVE  /\ Idle(e) \in Sends
         /\ Idle(e).ev = e
         /\ Idle(e).arr = <<>>
         /\ Idle(e).shared = TRUE
         /\ Idle(e).len = 0
         /\ Idle(e).pos = 1
  <1>1. <<>> \in Slots
    BY DEF Slots
  <1> QED
    BY <1>1 DEF Idle, Sends

\* The store starts well typed ...
LEMMA InitTypeInv == Init => TypeInv
  <1> SUFFICES ASSUME Init PROVE TypeInv
    OBVIOUS
  <1>1. send \in Sends
    BY NoJobType, IdleType DEF Init
  <1>2. send.len <= Len(SendSlots)
    <2>1. send.len = 0 /\ send.shared = TRUE
      BY NoJobType, IdleType DEF Init
    <2> QED
      BY <2>1 DEF Init, SendSlots
  <1>3. next \in 1 .. Len(Script) + 1
    BY ScriptAssumption DEF Init
  <1>4. slots \in Slots /\ nsubs \in 0 .. Len(slots)
    BY DEF Init, Slots
  <1>5. shift \in [from : Slots, todo : SUBSET Nat]
    BY DEF Init, Slots
  <1>6. chan \in [Streams -> Seq(Events)]
    BY DEF Init
  <1>7. pc \in [Streams -> PCs] /\ last \in [Streams -> Events]
    BY NoJobType DEF Init, PCs
  <1> QED
    BY <1>1, <1>2, <1>3, <1>4, <1>5, <1>6, <1>7, NoJobType
    DEF Init, TypeInv, TypeOK, LockInv

\* A copy of the list taken for a report is within the array it points to.
LEMMA PublishType ==
  ASSUME TypeInv, NEW e \in Events, Publish(e), slots' = slots
  PROVE  send' \in Sends /\ send'.len <= Len(SendSlots')
  <1> DEFINE idle == Idle(e)
  <1>1. /\ idle \in Sends
        /\ idle.shared = TRUE
    BY IdleType
  <1>2. send' = [idle EXCEPT !.len = nsubs]
    BY DEF Publish
  <1>3. nsubs \in Nat /\ nsubs <= Len(slots)
    BY DEF TypeInv, TypeOK, Slots
  <1> HIDE DEF idle
  <1>4. send' \in Sends /\ send'.len = nsubs /\ send'.shared = TRUE
    BY <1>1, <1>2, <1>3 DEF Sends
  <1> QED
    BY <1>3, <1>4 DEF SendSlots

\* The array append returns when the old one is full.
LEMMA GrownType ==
  ASSUME TypeInv, NEW s \in Streams
  PROVE  /\ Grown(s) \in Slots
         /\ Len(Grown(s)) > Len(slots)
         /\ \A i \in 1 .. nsubs : Grown(s)[i] = slots[i]
  <1> DEFINE cap == IF Len(slots) = 0 THEN 1 ELSE 2 * Len(slots)
  <1>1. Len(slots) \in Nat /\ nsubs \in 0 .. Len(slots)
    BY DEF TypeInv, TypeOK, Slots
  <1>2. cap \in Nat /\ cap > Len(slots)
    BY <1>1
  <1>3. Grown(s) = [i \in 1 .. cap |-> IF i <= nsubs THEN slots[i]
                    ELSE IF i = nsubs + 1 THEN s ELSE NoStream]
    BY DEF Grown
  <1>4. \A i \in 1 .. nsubs : slots[i] \in Streams \cup {NoStream}
    BY <1>1 DEF TypeInv, TypeOK, Slots
  <1> HIDE DEF cap
  <1>5. \A i \in 1 .. cap : Grown(s)[i] \in Streams \cup {NoStream}
    BY <1>1, <1>2, <1>3, <1>4
  <1>6. Grown(s) \in Slots /\ Len(Grown(s)) = cap
    BY <1>2, <1>3, <1>5 DEF Slots
  <1> QED
    BY <1>1, <1>2, <1>3, <1>6

\* ... and every step keeps it so.
LEMMA NextTypeInv == TypeInv /\ [Next]_vars => TypeInv'
  <1> SUFFICES ASSUME TypeInv, [Next]_vars
               PROVE  TypeInv'
    OBVIOUS
  <1> USE StreamAssumption DEF TypeInv, LockInv, storeVars, workerVars, streamVars
  <1>1. CASE Create
    <2>1. job' \in Events
      BY <1>1, NoJobType DEF Create, Events, JobStatuses, NoJob
    <2> QED
      BY <1>1, <2>1 DEF Create, TypeOK, SendSlots
  <1>2. CASE UpdateStep
    <2>1. job' \in Events
      <3>1. next \in 1 .. Len(Script)
        BY <1>2, ScriptAssumption DEF UpdateStep, TypeOK
      <3>2. Script[next] \in StepNames
        BY <3>1, ScriptProgress
      <3>3. job' = [job EXCEPT !.step = Script[next],
                               !.status = IF Script[next] = "ready"
                                            THEN "completed" ELSE "running"]
        BY <1>2 DEF UpdateStep
      <3> QED
        BY <3>2, <3>3 DEF TypeOK, Events, JobStatuses
    <2>2. next' \in 1 .. Len(Script) + 1
      BY <1>2, ScriptAssumption DEF UpdateStep, TypeOK
    <2>3. send' \in Sends /\ send'.len <= Len(SendSlots')
      BY <1>2, <2>1, PublishType DEF UpdateStep, StepEvent
    <2> QED
      BY <1>2, <2>1, <2>2, <2>3 DEF UpdateStep, TypeOK
  <1>3. CASE SetError
    <2>1. job' \in Events /\ ErrorEvent(job') \in Events
      BY <1>3 DEF SetError, Failed, TypeOK, Events, JobStatuses, ErrorEvent
    <2>2. send' \in Sends /\ send'.len <= Len(SendSlots')
      BY <1>3, <2>1, PublishType DEF SetError
    <2> QED
      BY <1>3, <2>1, <2>2 DEF SetError, TypeOK
  <1>4. CASE SetIP
    <2>1. job' \in Events
      BY <1>4 DEF SetIP, TypeOK, Events
    <2> QED
      BY <1>4, <2>1 DEF SetIP, TypeOK, SendSlots
  <1>5. CASE SendNext
    <2>1. send.ev \in Events
      BY DEF TypeOK, Sends
    <2>2. send' \in Sends /\ send'.len <= Len(SendSlots')
      <3>1. CASE send.pos = send.len
        <4>1. send' = Idle(send.ev)
          BY <1>5, <3>1 DEF SendNext
        <4>2. send' \in Sends /\ send'.len = 0 /\ send'.shared = TRUE
          BY <2>1, <4>1, IdleType
        <4> QED
          BY <1>5, <4>2 DEF SendNext, SendSlots, TypeOK, Slots
      <3>2. CASE send.pos # send.len
        <4>1. send' = [send EXCEPT !.pos = @ + 1]
          BY <1>5, <3>2 DEF SendNext
        <4>a. send \in Sends /\ send.pos + 1 \in Nat \ {0}
          BY DEF TypeOK, Sends
        <4>2. send' \in Sends /\ send'.len = send.len
          BY <4>1, <4>a DEF Sends
        <4>3. send'.shared = send.shared /\ send'.arr = send.arr
          BY <4>1 DEF TypeOK, Sends
        <4> QED
          BY <1>5, <4>2, <4>3 DEF SendNext, SendSlots, TypeOK
      <3> QED
        BY <3>1, <3>2
    <2>3. chan' \in [Streams -> Seq(Events)]
      <3> DEFINE t == SendSlots[send.pos]
      <3>1. CASE chan' = chan
        BY <3>1 DEF TypeOK
      <3>2. CASE chan' # chan
        <4>1. chan' = [chan EXCEPT ![t] = Enqueue(@, send.ev)]
          BY <1>5, <3>2 DEF SendNext
        <4>2. \A s \in Streams : Enqueue(chan[s], send.ev) \in Seq(Events)
          BY <2>1 DEF TypeOK, Enqueue
        <4> HIDE DEF t
        <4> QED
          BY <4>1, <4>2 DEF TypeOK
      <3> QED
        BY <3>1, <3>2
    <2>4. crashed' \in BOOLEAN
      BY <1>5 DEF SendNext
    <2> QED
      BY <1>5, <2>2, <2>3, <2>4 DEF SendNext, TypeOK
  <1>6. ASSUME NEW s \in Streams, Request(s)
        PROVE  TypeInv'
    <2>1. pc' \in [Streams -> PCs] /\ last' \in [Streams -> Events]
      BY <1>6 DEF Request, TypeOK, PCs
    <2> QED
      BY <1>6, <2>1 DEF Request, TypeOK, SendSlots
  <1>7. ASSUME NEW s \in Streams, Subscribe(s)
        PROVE  TypeInv'
    <2>1. pc' \in [Streams -> PCs] /\ since' \in [Streams -> Nat]
      <3>1. Rank(job) \in Nat
        <4>1. job \in Events
          BY DEF TypeOK
        <4> QED
          BY <4>1, RankType
      <3> QED
        BY <1>7, <3>1 DEF Subscribe, TypeOK, PCs
    <2>2. /\ slots' \in Slots /\ nsubs' \in 0 .. Len(slots')
          /\ Len(slots') >= Len(slots)
      <3>1. CASE nsubs < Len(slots)
        <4>1. /\ slots' = [slots EXCEPT ![nsubs + 1] = s]
              /\ nsubs' = nsubs + 1
          BY <1>7, <3>1 DEF Subscribe
        <4>2. slots \in Seq(Streams \cup {NoStream}) /\ nsubs \in 0 .. Len(slots)
          BY DEF TypeOK, Slots
        <4>3. slots' \in Seq(Streams \cup {NoStream}) /\ Len(slots') = Len(slots)
          BY <3>1, <4>1, <4>2
        <4> QED
          BY <3>1, <4>1, <4>2, <4>3 DEF Slots
      <3>2. CASE ~(nsubs < Len(slots))
        BY <1>7, <3>2, GrownType DEF Subscribe, TypeOK, Slots
      <3> QED
        BY <3>1, <3>2
    <2>3. send' \in Sends /\ send'.len <= Len(SendSlots')
      <3>1. CASE send' = send
        BY <3>1, <2>2 DEF TypeOK, SendSlots, Sends, Slots
      <3>2. CASE send' # send
        <4>1. send.shared /\ send' = [send EXCEPT !.arr = slots, !.shared = FALSE]
          BY <1>7, <3>2 DEF Subscribe
        <4> QED
          BY <4>1 DEF TypeOK, SendSlots, Sends
      <3> QED
        BY <3>1, <3>2
    <2> QED
      BY <1>7, <2>1, <2>2, <2>3 DEF Subscribe, TypeOK
  <1>8. ASSUME NEW s \in Streams, Receive(s)
        PROVE  TypeInv'
    <2>1. chan[s] \in Seq(Events) /\ chan[s] # <<>>
      BY <1>8 DEF Receive, TypeOK
    <2>2. Head(chan[s]) \in Events /\ Tail(chan[s]) \in Seq(Events)
      BY <2>1
    <2>3. chan' \in [Streams -> Seq(Events)] /\ last' \in [Streams -> Events]
      BY <1>8, <2>2 DEF Receive, TypeOK
    <2>4. pc' \in [Streams -> PCs]
      BY <1>8 DEF Receive, TypeOK, PCs
    <2> QED
      BY <1>8, <2>3, <2>4 DEF Receive, TypeOK, SendSlots
  <1>9. ASSUME NEW s \in Streams, ClientGone(s)
        PROVE  TypeInv'
    <2>1. pc' \in [Streams -> PCs]
      BY <1>9 DEF ClientGone, TypeOK, PCs
    <2> QED
      BY <1>9, <2>1 DEF ClientGone, TypeOK, SendSlots
  <1>10. ASSUME NEW s \in Streams, Unsubscribe(s)
         PROVE  TypeInv'
    <2>1. PICK i \in 1 .. nsubs :
            shift' = [from |-> slots, todo |-> i .. nsubs - 1]
      BY <1>10 DEF Unsubscribe, MovedSlots
    <2>2. /\ shift' \in [from : Slots, todo : SUBSET Nat]
          /\ nsubs > 0
          /\ shift'.todo \subseteq 1 .. nsubs - 1
          /\ shift'.from = slots
      BY <2>1 DEF TypeOK, Slots
    <2>3. pc' \in [Streams -> PCs]
      BY <1>10 DEF Unsubscribe, TypeOK, PCs
    <2> QED
      BY <1>10, <2>2, <2>3 DEF Unsubscribe, TypeOK, SendSlots
  <1>11. ASSUME NEW s \in Streams, MoveSlot(s)
         PROVE  TypeInv'
    <2>1. PICK j \in shift.todo :
            /\ slots' = [slots EXCEPT ![j] = shift.from[j + 1]]
            /\ shift' = [shift EXCEPT !.todo = @ \ {j}]
      BY <1>11 DEF MoveSlot
    <2>2. j \in 1 .. nsubs - 1 /\ Len(shift.from) = Len(slots) /\ nsubs \in 0 .. Len(slots)
      BY <1>11, <2>1 DEF MoveSlot, TypeOK
    <2>3. shift.from[j + 1] \in Streams \cup {NoStream}
      BY <2>2 DEF TypeOK, Slots
    <2>4. slots' \in Slots /\ Len(slots') = Len(slots)
      BY <2>1, <2>2, <2>3 DEF TypeOK, Slots
    <2>5. /\ shift' \in [from : Slots, todo : SUBSET Nat]
          /\ shift'.from = shift.from
          /\ shift'.todo \subseteq shift.todo
      BY <2>1 DEF TypeOK
    <2>6. send.len <= Len(SendSlots')
      BY <1>11, <2>4 DEF MoveSlot, TypeOK, SendSlots
    <2>7. raced' \in BOOLEAN
      BY <1>11 DEF MoveSlot
    <2> QED
      BY <1>11, <2>2, <2>4, <2>5, <2>6, <2>7 DEF MoveSlot, TypeOK
  <1>12. ASSUME NEW s \in Streams, Close(s)
         PROVE  TypeInv'
    <2>1. chan' \in [Streams -> Seq(Events)] /\ pc' \in [Streams -> PCs]
      BY <1>12 DEF Close, TypeOK, PCs
    <2>2. nsubs' \in 0 .. Len(slots)
      BY <1>12 DEF Close, TypeOK, Slots
    <2>3. shift' \in [from : Slots, todo : SUBSET Nat]
      BY <1>12 DEF Close, Slots
    <2> QED
      BY <1>12, <2>1, <2>2, <2>3 DEF Close, TypeOK, SendSlots
  <1>13. CASE UNCHANGED vars
    BY <1>13 DEF vars, TypeOK, SendSlots
  <1> QED
    BY <1>1, <1>2, <1>3, <1>4, <1>5, <1>6, <1>7, <1>8, <1>9, <1>10, <1>11,
       <1>12, <1>13
    DEF Next, Publisher, Handler, Client

\* The variables of the store, its publisher and its streams keep their types.
THEOREM TypeCorrect == Spec => []TypeOK
  <1>1. TypeInv => TypeOK
    BY DEF TypeInv
  <1> QED
    BY <1>1, InitTypeInv, NextTypeInv, PTL DEF Spec

-----------------------------------------------------------------------------
(* The job and the worker's place in its script *)

\* The job changes in four actions only.
LEMMA JobChanges ==
  [Next]_vars => \/ Create \/ UpdateStep \/ SetError \/ SetIP
                 \/ UNCHANGED workerVars
  BY DEF Next, Publisher, Handler, Client, SendNext, Request, Subscribe,
         Receive, ClientGone, Unsubscribe, MoveSlot, Close, vars, workerVars

\* The step UpdateStep reports ranks above the job's present state.
LEMMA UpdateStepAdvances ==
  ASSUME TypeInv, WorkerInv, UpdateStep
  PROVE  /\ WorkerInv'
         /\ Progress(job.step) < Progress(job'.step)
         /\ Progress(job'.step) \in Nat
         /\ Progress(job'.step) <= 100
         /\ job'.status = "completed" <=> job'.step = "ready"
         /\ job'.status \in {"running", "completed"}
         /\ job'.step = "ready" <=> Progress(job'.step) = 100
         /\ job'.step = "ready" => job.status = "running"
  <1>1. job \in Events /\ next \in 1 .. Len(Script) /\ next' = next + 1
    BY ScriptAssumption DEF TypeInv, TypeOK, UpdateStep
  <1>2. /\ job'.step = Script[next]
        /\ job'.status = IF Script[next] = "ready" THEN "completed" ELSE "running"
    BY <1>1 DEF UpdateStep, Events
  <1>3. Script[next] = "ready" <=> next = Len(Script)
    BY <1>1, ScriptAssumption
  <1>4. WorkerInv'
    BY <1>1, <1>2, <1>3, ScriptAssumption DEF WorkerInv
  <1>5. Progress(job.step) < Progress(job'.step)
    <2>1. CASE job.status = "pending"
      <3>1. Progress(job.step) = 0
        BY <2>1 DEF WorkerInv, Progress
      <3> QED
        BY <1>1, <1>2, <3>1, ScriptProgress, SMT
    <2>2. CASE job.status = "running"
      <3>1. next - 1 \in 1 .. Len(Script) /\ job.step = Script[next - 1]
        BY <1>1, <2>2 DEF WorkerInv
      <3>2. StepProgress[Script[next - 1]] < StepProgress[Script[next]]
        BY <1>1, <3>1, ScriptAssumption
      <3> QED
        BY <1>1, <1>2, <3>1, <3>2, ScriptProgress
    <2> QED
      BY <2>1, <2>2 DEF UpdateStep, LiveStatuses
  <1>6. Progress(job'.step) \in Nat /\ Progress(job'.step) <= 100
    BY <1>1, <1>2, ScriptProgress
  <1>7. job'.step = "ready" <=> Progress(job'.step) = 100
    BY <1>1, <1>2, <1>3, ScriptAssumption, ScriptProgress
  <1>8. job'.step = "ready" => job.status = "running"
    BY <1>1, <1>2, <1>3, ScriptAssumption DEF WorkerInv, UpdateStep, LiveStatuses
  <1> QED
    BY <1>2, <1>4, <1>5, <1>6, <1>7, <1>8

\* Whatever happens, the job moves forward, an outcome is final, and the job
\* stands still while a report is being sent.
LEMMA JobStep ==
  ASSUME TypeInv, WorkerInv, [Next]_vars
  PROVE  /\ WorkerInv'
         /\ Rank(job) <= Rank(job')
         /\ job.status \in TerminalStatuses => job' = job
         /\ Sending => Rank(job') = Rank(job)
  <1>1. job \in Events /\ job' \in Events
    BY NextTypeInv DEF TypeInv, TypeOK
  <1>2. Rank(job) \in Nat /\ Rank(job) <= 101 /\ Rank(job') \in Nat
    BY <1>1, RankType
  <1>3. CASE Create
    <2>1. job.status = "none" /\ job' = [NoJob EXCEPT !.status = "pending"]
      BY <1>3 DEF Create
    <2>2. job'.status = "pending" /\ job'.step = StepNone
      BY <2>1 DEF NoJob
    <2>3. WorkerInv'
      BY <1>3, <2>1, <2>2 DEF WorkerInv, Create
    <2>4. Rank(job) = 0 /\ Rank(job') = 0
      <3>1. job.step = StepNone
        BY <2>1 DEF WorkerInv
      <3>2. Rank(job) = Progress(job.step)
        BY <2>1 DEF Rank, TerminalStatuses
      <3>3. Rank(job') = Progress(job'.step)
        BY <2>2 DEF Rank, TerminalStatuses
      <3> QED
        BY <2>2, <3>1, <3>2, <3>3 DEF Progress
    <2> QED
      BY <1>2, <2>1, <2>3, <2>4 DEF TerminalStatuses
  <1>4. CASE UpdateStep
    <2>1. job.status \notin TerminalStatuses /\ ~Sending
      BY <1>4 DEF UpdateStep, LiveStatuses, TerminalStatuses
    <2>2. Rank(job) <= Rank(job')
      BY <1>1, <1>2, <1>4, <2>1, UpdateStepAdvances, ProgressType DEF Rank, Events
    <2> QED
      BY <1>4, <2>1, <2>2, UpdateStepAdvances
  <1>5. CASE SetError
    <2>1. job.status \notin TerminalStatuses /\ ~Sending
      BY <1>5 DEF SetError, LiveStatuses, TerminalStatuses
    <2>2. job'.status = "failed"
      BY <1>1, <1>5 DEF SetError, Failed, Events
    <2>3. Rank(job') = 101 /\ WorkerInv'
      BY <2>2 DEF Rank, TerminalStatuses, WorkerInv
    <2> QED
      BY <1>2, <2>1, <2>3
  <1>6. CASE SetIP
    <2>1. job.status = "running" /\ ~Sending
      BY <1>6 DEF SetIP
    <2>2. job'.status = job.status /\ job'.step = job.step /\ next' = next
      BY <1>1, <1>6 DEF SetIP, Events
    <2>3. Rank(job') = Rank(job) /\ WorkerInv'
      BY <2>2 DEF Rank, WorkerInv
    <2> QED
      BY <1>2, <2>1, <2>3 DEF TerminalStatuses
  <1>7. CASE UNCHANGED workerVars
    BY <1>2, <1>7 DEF workerVars, WorkerInv
  <1> QED
    BY <1>3, <1>4, <1>5, <1>6, <1>7, JobChanges

\* The worker's place in its script agrees with the job at all times.
LEMMA WorkerInvariant == Spec => [](TypeInv /\ WorkerInv)
  <1>1. Init => WorkerInv
    BY DEF Init, WorkerInv, NoJob
  <1>2. TypeInv /\ WorkerInv /\ [Next]_vars => TypeInv' /\ WorkerInv'
    BY NextTypeInv, JobStep
  <1> QED
    BY <1>1, <1>2, InitTypeInv, PTL DEF Spec

-----------------------------------------------------------------------------
(* The events in flight *)

\* What EventOK says, of the job after a step.
StillOK(e) ==
  /\ Rank(e) <= Rank(job')
  /\ e.status \in TerminalStatuses => job'.status = e.status
  /\ e.status = "completed" => e.ip = job'.ip

\* What was true of an event stays true whatever the next step is.
LEMMA EventOKStable ==
  ASSUME TypeInv, WorkerInv, [Next]_vars, NEW e \in Events, EventOK(e)
  PROVE  StillOK(e)
  <1>1. job \in Events /\ job' \in Events
    BY NextTypeInv DEF TypeInv, TypeOK
  <1>2. Rank(job) \in Nat /\ Rank(job') \in Nat /\ Rank(e) \in Nat
    BY <1>1, RankType
  <1>3. Rank(e) <= Rank(job')
    BY <1>2, JobStep DEF EventOK
  <1>4. CASE e.status \in TerminalStatuses
    <2>1. job.status = e.status
      BY <1>4 DEF EventOK
    <2>2. job' = job
      BY <1>4, <2>1, JobStep
    <2> QED
      BY <1>3, <2>2 DEF EventOK, StillOK
  <1>5. CASE e.status \notin TerminalStatuses
    BY <1>3, <1>5 DEF TerminalStatuses, StillOK
  <1> QED
    BY <1>4, <1>5

\* Ranks are numbers: each is at most itself.
LEMMA RankReflexive == \A e \in Events : Rank(e) <= Rank(e)
  <1> SUFFICES ASSUME NEW e \in Events PROVE Rank(e) <= Rank(e)
    OBVIOUS
  <1> DEFINE n == Rank(e)
  <1>1. n \in Nat
    BY RankType
  <1> HIDE DEF n
  <1>2. n <= n
    BY <1>1
  <1> QED
    BY <1>2 DEF n

\* The job's own record is an event that is true of it.
LEMMA JobIsOK ==
  ASSUME job \in Events
  PROVE  EventOK(job)
  BY RankReflexive DEF EventOK

\* The part of EventInv about one stream.
StreamInv(s) ==
  /\ EventOK(last[s])
  /\ pc[s] \in {"new", "snapshot"} => chan[s] = <<>>
  /\ \A i \in 1 .. Len(chan[s]) :
       /\ EventOK(chan[s][i])
       /\ Rank(last[s]) <= Rank(chan[s][i])
       /\ \A j \in 1 .. i : Rank(chan[s][j]) <= Rank(chan[s][i])

SendInv ==
  Sending => EventOK(send.ev) /\ Rank(send.ev) = Rank(job)

SlotInv ==
  /\ OnlySubscribed(slots) /\ OnlySubscribed(send.arr)
  /\ OnlySubscribed(shift.from)

\* The invariant on events, in its three parts.
LEMMA EventInvParts ==
  EventInv <=> SendInv /\ SlotInv /\ \A s \in Streams : StreamInv(s)
  BY DEF EventInv, SendInv, SlotInv, StreamInv

\* A stream none of whose variables change keeps its part of the invariant.
LEMMA StreamInvStable ==
  ASSUME TypeInv, WorkerInv, [Next]_vars, NEW s \in Streams, StreamInv(s),
         last'[s] = last[s], chan'[s] = chan[s],
         pc'[s] \in {"new", "snapshot"} => pc[s] \in {"new", "snapshot"}
  PROVE  StreamInv(s)'
  <1>1. last[s] \in Events /\ \A i \in 1 .. Len(chan[s]) : chan[s][i] \in Events
    BY DEF TypeInv, TypeOK
  <1>2. EventOK(last[s])'
    BY <1>1, EventOKStable DEF EventOK, StillOK, StreamInv
  <1>3. \A i \in 1 .. Len(chan[s]) : EventOK(chan[s][i])'
    BY <1>1, EventOKStable DEF EventOK, StillOK, StreamInv
  <1> QED
    BY <1>2, <1>3 DEF StreamInv

\* The slots of an array stay subscribed when no handler goes back.
LEMMA OnlySubscribedStable ==
  ASSUME NEW a \in Slots, OnlySubscribed(a),
         \A s \in Streams :
           pc'[s] \in {"new", "snapshot"} => pc[s] \in {"new", "snapshot"}
  PROVE  \A i \in 1 .. Len(a) :
           a[i] \in Streams => pc'[a[i]] \notin {"new", "snapshot"}
  BY DEF OnlySubscribed

\* No handler goes back to before its subscription.
LEMMA HandlersGoForward ==
  ASSUME TypeInv, [Next]_vars, NEW s \in Streams,
         pc'[s] \in {"new", "snapshot"}
  PROVE  pc[s] \in {"new", "snapshot"}
  <1>1. pc \in [Streams -> PCs]
    BY DEF TypeInv, TypeOK
  <1>2. CASE pc' = pc
    BY <1>2
  <1>3. ASSUME NEW r \in Streams, Request(r)
        PROVE  pc[s] \in {"new", "snapshot"}
    BY <1>1, <1>3 DEF Request
  <1>4. ASSUME NEW r \in Streams,
               Subscribe(r) \/ Receive(r) \/ ClientGone(r) \/ Unsubscribe(r)
               \/ Close(r)
        PROVE  pc[s] \in {"new", "snapshot"}
    <2>1. PICK v \in {"loop", "leaving", "removing", "done"} :
            pc' = [pc EXCEPT ![r] = v]
      BY <1>4 DEF Subscribe, Receive, ClientGone, Unsubscribe, Close
    <2> QED
      BY <1>1, <2>1
  <1>5. CASE \/ Create \/ UpdateStep \/ SetError \/ SetIP \/ SendNext
             \/ UNCHANGED vars \/ \E r \in Streams : MoveSlot(r)
    BY <1>2, <1>5 DEF Create, UpdateStep, SetError, SetIP, SendNext, MoveSlot,
                      vars, streamVars
  <1> QED
    BY <1>3, <1>4, <1>5 DEF Next, Publisher, Handler, Client

\* No array holds a stream that has not subscribed.
LEMMA NextSlotInv ==
  ASSUME TypeInv, SlotInv, [Next]_vars
  PROVE  SlotInv'
  <1> DEFINE Late(a) == \A i \in 1 .. Len(a) :
                          a[i] \in Streams => pc'[a[i]] \notin {"new", "snapshot"}
  <1>1. slots \in Slots /\ send.arr \in Slots /\ shift.from \in Slots
    BY DEF TypeInv, TypeOK, Sends
  <1>2. Late(slots) /\ Late(send.arr) /\ Late(shift.from)
    BY <1>1, HandlersGoForward, OnlySubscribedStable DEF SlotInv
  <1>3. Late(<<>>)
    OBVIOUS
  <1>4. SUFFICES Late(slots') /\ Late(send'.arr) /\ Late(shift'.from)
    BY DEF SlotInv, OnlySubscribed
  <1>5. CASE send' = send /\ slots' = slots /\ shift' = shift
    BY <1>2, <1>5
  <1>6. CASE UpdateStep \/ SetError
    <2>1. job' \in Events /\ ErrorEvent(job') \in Events
      BY NextTypeInv DEF TypeInv, TypeOK, Events, ErrorEvent
    <2>2. PICK e \in Events : Publish(e)
      BY <1>6, <2>1 DEF UpdateStep, SetError, StepEvent
    <2>3. send'.arr = <<>>
      <3> DEFINE idle == Idle(e)
      <3>1. idle \in Sends /\ idle.arr = <<>> /\ send' = [idle EXCEPT !.len = nsubs]
        BY <2>2, IdleType DEF Publish
      <3> HIDE DEF idle
      <3> QED
        BY <3>1 DEF Sends
    <2> QED
      BY <1>2, <1>3, <1>6, <2>3 DEF UpdateStep, SetError, storeVars
  <1>7. CASE SendNext
    <2>1. send'.arr \in {<<>>, send.arr}
      <3>1. send \in Sends /\ send.ev \in Events
        BY DEF TypeInv, TypeOK, Sends
      <3>2. CASE send.pos = send.len
        BY <1>7, <3>1, <3>2, IdleType DEF SendNext
      <3>3. CASE send.pos # send.len
        BY <1>7, <3>1, <3>3 DEF SendNext, Sends
      <3> QED
        BY <3>2, <3>3
    <2> QED
      BY <1>2, <1>3, <1>7, <2>1 DEF SendNext, storeVars
  <1>8. ASSUME NEW s \in Streams, Subscribe(s)
        PROVE  Late(slots') /\ Late(send'.arr) /\ Late(shift'.from)
    <2>1. pc'[s] = "loop"
      BY <1>8 DEF Subscribe, TypeInv, TypeOK
    <2>2. Late(send'.arr) /\ shift' = shift
      <3>1. send \in Sends
        BY DEF TypeInv, TypeOK
      <3>2. send'.arr \in {send.arr, slots}
        BY <1>8, <3>1 DEF Subscribe, Sends
      <3> QED
        BY <1>2, <1>8, <3>2 DEF Subscribe
    <2>3. Late(slots')
      <3>1. nsubs \in 0 .. Len(slots)
        BY DEF TypeInv, TypeOK
      <3>2. CASE nsubs < Len(slots)
        <4>1. slots' = [slots EXCEPT ![nsubs + 1] = s]
          BY <1>8, <3>2 DEF Subscribe
        <4> QED
          BY <1>1, <1>2, <2>1, <3>1, <3>2, <4>1 DEF Slots
      <3>3. CASE ~(nsubs < Len(slots))
        <4>1. slots' = Grown(s)
          BY <1>8, <3>3 DEF Subscribe
        <4>2. \A i \in 1 .. Len(Grown(s)) :
                \/ i \in 1 .. Len(slots) /\ Grown(s)[i] = slots[i]
                \/ Grown(s)[i] \in {s, NoStream}
          <5> DEFINE cap == IF Len(slots) = 0 THEN 1 ELSE 2 * Len(slots)
          <5>1. Len(slots) \in Nat
            BY <1>1 DEF Slots
          <5>2. cap \in Nat
            BY <5>1
          <5> HIDE DEF cap
          <5>3. Grown(s) = [i \in 1 .. cap |-> IF i <= nsubs THEN slots[i]
                              ELSE IF i = nsubs + 1 THEN s ELSE NoStream]
            BY DEF Grown, cap
          <5>4. Len(Grown(s)) = cap
            BY <5>2, <5>3
          <5> QED
            BY <3>1, <5>1, <5>2, <5>3, <5>4
        <4> QED
          BY <1>2, <2>1, <4>1, <4>2, StreamAssumption
      <3> QED
        BY <3>2, <3>3
    <2> QED
      BY <1>2, <2>2, <2>3
  <1>9. ASSUME NEW s \in Streams, Unsubscribe(s)
        PROVE  Late(slots') /\ Late(send'.arr) /\ Late(shift'.from)
    <2>1. shift'.from = slots /\ slots' = slots /\ send' = send
      BY <1>9 DEF Unsubscribe
    <2> QED
      BY <1>2, <2>1
  <1>10. ASSUME NEW s \in Streams, MoveSlot(s)
         PROVE  Late(slots') /\ Late(send'.arr) /\ Late(shift'.from)
    <2>1. PICK j \in shift.todo :
            /\ slots' = [slots EXCEPT ![j] = shift.from[j + 1]]
            /\ shift' = [shift EXCEPT !.todo = @ \ {j}]
      BY <1>10 DEF MoveSlot
    <2>2. j \in 1 .. nsubs - 1 /\ Len(shift.from) = Len(slots) /\ nsubs \in 0 .. Len(slots)
      BY <1>10, <2>1, StreamAssumption DEF MoveSlot, TypeInv, LockInv, TypeOK
    <2>3. Late(slots')
      BY <1>1, <1>2, <2>1, <2>2 DEF Slots
    <2>4. shift'.from = shift.from /\ send' = send
      BY <1>10, <2>1 DEF MoveSlot, TypeInv, TypeOK
    <2> QED
      BY <1>2, <2>3, <2>4
  <1>11. ASSUME NEW s \in Streams, Close(s)
         PROVE  Late(slots') /\ Late(send'.arr) /\ Late(shift'.from)
    <2>1. shift'.from = <<>> /\ slots' = slots /\ send' = send
      BY <1>11 DEF Close
    <2> QED
      BY <1>2, <1>3, <2>1
  <1>12. CASE \/ Create \/ SetIP \/ UNCHANGED vars
              \/ \E s \in Streams : Receive(s) \/ Request(s) \/ ClientGone(s)
    BY <1>5, <1>12 DEF Create, SetIP, Receive, Request, ClientGone, vars, storeVars
  <1> QED
    BY <1>6, <1>7, <1>8, <1>9, <1>10, <1>11, <1>12
    DEF Next, Publisher, Handler, Client

\* The event being sent is the job's present state.
LEMMA NextSendInv ==
  ASSUME TypeInv, WorkerInv, SendInv, [Next]_vars
  PROVE  SendInv'
  <1>1. job' \in Events /\ send \in Sends /\ send.ev \in Events
    BY NextTypeInv DEF TypeInv, TypeOK, Sends
  <1>2. CASE UpdateStep
    <2>1. StepEvent(job') = job' /\ StillOK(job')
      BY <1>1, RankReflexive DEF StepEvent, StillOK
    <2> DEFINE idle == Idle(job')
    <2>2. idle \in Sends /\ idle.ev = job'
      BY <1>1, IdleType
    <2>3. send' = [idle EXCEPT !.len = nsubs]
      BY <1>2, <2>1 DEF UpdateStep, Publish
    <2> HIDE DEF idle
    <2>4. send'.ev = job'
      BY <2>2, <2>3 DEF Sends
    <2> QED
      BY <2>1, <2>4 DEF SendInv, EventOK, StillOK
  <1>3. CASE SetError
    <2> DEFINE e == ErrorEvent(job')  idle == Idle(e)
    <2>1. e \in Events /\ e.status = job'.status /\ e.step = job'.step
      BY <1>1 DEF ErrorEvent, Events
    <2>2. job'.status = "failed"
      BY <1>3 DEF SetError, Failed, TypeInv, TypeOK, Events
    <2>3. Rank(e) = Rank(job') /\ Rank(e) \in Nat
      BY <2>1, RankType DEF Rank
    <2>4. StillOK(e)
      BY <1>1, <2>1, <2>2, <2>3, RankReflexive DEF StillOK
    <2>5. idle \in Sends /\ idle.ev = e
      BY <2>1, IdleType
    <2>6. send' = [idle EXCEPT !.len = nsubs]
      BY <1>3 DEF SetError, Publish
    <2> HIDE DEF idle
    <2>7. send'.ev = e
      BY <2>5, <2>6 DEF Sends
    <2> QED
      BY <2>3, <2>4, <2>7 DEF SendInv, EventOK, StillOK
  <1>4. CASE SendNext
    <2>1. job' = job
      BY <1>4 DEF SendNext, workerVars
    <2>2. Sending /\ send'.ev = send.ev
      <3>1. CASE send.pos = send.len
        BY <1>1, <1>4, <3>1, IdleType DEF SendNext
      <3>2. CASE send.pos # send.len
        BY <1>1, <1>4, <3>2 DEF SendNext, Sends
      <3> QED
        BY <1>4, <3>1, <3>2 DEF SendNext
    <2> QED
      BY <2>1, <2>2 DEF SendInv, EventOK
  <1>5. CASE send'.ev = send.ev /\ (Sending' => Sending)
    <2>1. SUFFICES ASSUME Sending
                   PROVE  EventOK(send.ev)' /\ Rank(send.ev) = Rank(job')
      BY <1>5 DEF SendInv, EventOK
    <2>2. EventOK(send.ev) /\ Rank(send.ev) = Rank(job)
      BY <2>1 DEF SendInv
    <2>3. Rank(job') = Rank(job)
      BY <2>1, JobStep
    <2> QED
      BY <1>1, <1>5, <2>2, <2>3, EventOKStable DEF EventOK, StillOK
  <1>6. ASSUME NEW s \in Streams, Subscribe(s)
        PROVE  SendInv'
    <2>1. send'.ev = send.ev /\ send'.pos = send.pos /\ send'.len = send.len
      BY <1>1, <1>6 DEF Subscribe, Sends
    <2> QED
      BY <1>5, <2>1 DEF Sending
  <1>7. CASE send' = send
    BY <1>5, <1>7 DEF Sending
  <1> QED
    BY <1>2, <1>3, <1>4, <1>6, <1>7
    DEF Next, Publisher, Handler, Client, Create, SetIP, Receive, Request,
        ClientGone, Unsubscribe, MoveSlot, Close, vars

\* Every stream's events stay in the job's order.
LEMMA NextStreamInv ==
  ASSUME TypeInv, WorkerInv, SendInv, SlotInv, [Next]_vars,
         NEW s \in Streams, StreamInv(s)
  PROVE  StreamInv(s)'
  <1>1. /\ job \in Events /\ job' \in Events
        /\ last \in [Streams -> Events] /\ chan \in [Streams -> Seq(Events)]
        /\ pc \in [Streams -> PCs]
    BY NextTypeInv DEF TypeInv, TypeOK
  <1>2. CASE last'[s] = last[s] /\ chan'[s] = chan[s]
    BY <1>2, StreamInvStable, HandlersGoForward
  <1>3. CASE SendNext
    <2> DEFINE t == SendSlots[send.pos]
    <2>1. send \in Sends /\ send.ev \in Events
      BY DEF TypeInv, TypeOK, Sends
    <2>2. CASE chan'[s] # chan[s]
      <3>1. t = s /\ chan'[s] = Append(chan[s], send.ev)
        <4>1. chan' = [chan EXCEPT ![t] = Enqueue(@, send.ev)]
          BY <1>3, <2>2 DEF SendNext
        <4> HIDE DEF t
        <4> QED
          BY <1>1, <2>2, <4>1 DEF Enqueue
      <3>2. send.pos \in 1 .. Len(SendSlots)
        BY <1>3, <2>1 DEF SendNext, Sending, Sends, TypeInv, TypeOK, SendSlots, Slots
      <3>3. pc[s] \notin {"new", "snapshot"}
        BY <3>1, <3>2 DEF SlotInv, OnlySubscribed, SendSlots
      <3>4. job' = job /\ last' = last /\ pc' = pc
        BY <1>3 DEF SendNext, workerVars, streamVars
      <3>5. EventOK(send.ev) /\ Rank(send.ev) = Rank(job)
        BY <1>3 DEF SendInv, SendNext
      <3> DEFINE q == chan[s]  r == Append(q, send.ev)
      <3>6. q \in Seq(Events) /\ Len(r) = Len(q) + 1 /\ r[Len(q) + 1] = send.ev
            /\ \A i \in 1 .. Len(q) : r[i] = q[i]
        BY <1>1, <2>1
      <3>7. /\ EventOK(last[s])
            /\ \A i \in 1 .. Len(q) :
                 /\ EventOK(q[i])
                 /\ Rank(last[s]) <= Rank(q[i])
                 /\ \A j \in 1 .. i : Rank(q[j]) <= Rank(q[i])
        BY DEF StreamInv
      <3> HIDE DEF q, r
      <3>8. \A i \in 1 .. Len(r) : EventOK(r[i])
        BY <3>5, <3>6, <3>7
      <3>9. \A i \in 1 .. Len(r) : Rank(last[s]) <= Rank(r[i])
        BY <3>5, <3>6, <3>7 DEF EventOK
      <3>10. \A i \in 1 .. Len(r) : \A j \in 1 .. i : Rank(r[j]) <= Rank(r[i])
        <4> SUFFICES ASSUME NEW i \in 1 .. Len(r), NEW j \in 1 .. i
                     PROVE  Rank(r[j]) <= Rank(r[i])
          OBVIOUS
        <4>1. CASE i \in 1 .. Len(q)
          <5>1. j \in 1 .. Len(q)
            BY <3>6, <4>1
          <5> QED
            BY <3>6, <3>7, <4>1, <5>1
        <4>2. CASE i = Len(q) + 1
          <5>1. j \in 1 .. Len(r) /\ Rank(r[j]) <= Rank(job)
            BY <3>6, <3>8, <4>2 DEF EventOK
          <5> QED
            BY <3>5, <3>6, <4>2, <5>1
        <4> QED
          BY <3>6, <4>1, <4>2
      <3> QED
        BY <3>1, <3>3, <3>4, <3>7, <3>8, <3>9, <3>10 DEF StreamInv, EventOK, r, q
    <2>3. CASE chan'[s] = chan[s]
      BY <1>2, <1>3, <2>3 DEF SendNext, streamVars
    <2> QED
      BY <2>2, <2>3
  <1>4. CASE Request(s)
    <2>1. last'[s] = job /\ chan'[s] = <<>> /\ job' = job
      BY <1>1, <1>4 DEF Request, StreamInv, workerVars
    <2> QED
      BY <1>1, <2>1, JobIsOK DEF StreamInv, EventOK
  <1>5. CASE Receive(s)
    <2> DEFINE q == chan[s]  r == Tail(q)
    <2>1. q \in Seq(Events) /\ q # <<>> /\ last'[s] = Head(q) /\ chan'[s] = r
      BY <1>1, <1>5 DEF Receive
    <2>2. /\ job' = job
          /\ pc'[s] \notin {"new", "snapshot"}
      BY <1>1, <1>5 DEF Receive, workerVars
    <2>3. /\ Len(r) = Len(q) - 1 /\ Len(q) > 0 /\ Len(q) \in Nat
          /\ Head(q) = q[1]
          /\ \A i \in 1 .. Len(r) : r[i] = q[i + 1]
      BY <2>1
    <2>4. \A i \in 1 .. Len(q) :
            EventOK(q[i]) /\ \A j \in 1 .. i : Rank(q[j]) <= Rank(q[i])
      BY DEF StreamInv
    <2> HIDE DEF q, r
    <2>5. EventOK(Head(q)) /\ \A i \in 1 .. Len(r) : EventOK(r[i])
      BY <2>3, <2>4
    <2>6. \A i \in 1 .. Len(r) :
            /\ Rank(Head(q)) <= Rank(r[i])
            /\ \A j \in 1 .. i : Rank(r[j]) <= Rank(r[i])
      BY <2>3, <2>4
    <2> QED
      BY <2>1, <2>2, <2>5, <2>6 DEF StreamInv, EventOK
  <1>6. ASSUME NEW r \in Streams, Request(r) \/ Receive(r), r # s
        PROVE  StreamInv(s)'
    BY <1>1, <1>2, <1>6 DEF Request, Receive
  <1>7. ASSUME NEW r \in Streams, Close(r)
        PROVE  StreamInv(s)'
    <2>1. last' = last /\ (chan'[s] = chan[s] \/ chan'[s] = <<>>)
      BY <1>1, <1>7 DEF Close
    <2>2. CASE chan'[s] = <<>>
      <3>1. EventOK(last[s])'
        BY <1>1, <2>1, EventOKStable DEF StreamInv, EventOK, StillOK
      <3> QED
        BY <2>1, <2>2, <3>1 DEF StreamInv
    <2> QED
      BY <1>2, <2>1, <2>2
  <1>8. CASE chan' = chan /\ last' = last
    BY <1>2, <1>8
  <1> QED
    BY <1>3, <1>4, <1>5, <1>6, <1>7, <1>8
    DEF Next, Publisher, Handler, Client, Create, UpdateStep, SetError, SetIP,
        Subscribe, ClientGone, Unsubscribe, MoveSlot, vars, streamVars

-----------------------------------------------------------------------------
(* The theorems *)

\* The inductive invariant.
Inv == TypeInv /\ WorkerInv /\ EventInv

\* The inductive invariant holds at first ...
LEMMA InitInv == Init => Inv
  <1> SUFFICES ASSUME Init PROVE Inv
    OBVIOUS
  <1>1. TypeInv /\ WorkerInv
    BY InitTypeInv DEF Init, WorkerInv, NoJob
  <1>2. job \in Events /\ EventOK(job)
    BY NoJobType, JobIsOK DEF Init
  <1>3. ~Sending
    <2>1. send.len = 0 /\ send.pos = 1
      BY NoJobType, IdleType DEF Init
    <2> QED
      BY <2>1 DEF Sending
  <1>4. send.arr = <<>>
    BY NoJobType, IdleType DEF Init
  <1>5. SlotInv
    BY <1>4 DEF Init, SlotInv, OnlySubscribed
  <1>6. \A s \in Streams : StreamInv(s)
    BY <1>2 DEF Init, StreamInv
  <1> QED
    BY <1>1, <1>3, <1>5, <1>6, EventInvParts DEF Inv, SendInv

\* ... is kept by every step ...
LEMMA NextInv == Inv /\ [Next]_vars => Inv'
  <1> SUFFICES ASSUME Inv, [Next]_vars PROVE Inv'
    OBVIOUS
  <1>1. TypeInv /\ WorkerInv /\ SendInv /\ SlotInv /\ \A s \in Streams : StreamInv(s)
    BY EventInvParts DEF Inv
  <1>2. TypeInv' /\ WorkerInv'
    BY <1>1, NextTypeInv, JobStep
  <1>3. SendInv' /\ SlotInv' /\ \A s \in Streams : StreamInv(s)'
    BY <1>1, NextSendInv, NextSlotInv, NextStreamInv
  <1>4. EventInv'
    BY <1>3 DEF EventInv, SendInv, SlotInv, StreamInv
  <1> QED
    BY <1>2, <1>4 DEF Inv

\* ... and so holds always.
LEMMA Invariance == Spec => []Inv
  BY InitInv, NextInv, PTL DEF Spec

\* An outcome a client was shown is the job's: StreamJobEvents never reports
\* a completion or a failure that the store later takes back.
THEOREM OutcomesAreFinal == Spec => []OutcomeIsFinal
  <1>1. Inv => OutcomeIsFinal
    BY DEF Inv, EventInv, EventOK, OutcomeIsFinal
  <1> QED
    BY <1>1, Invariance, PTL

\* A client told that its machine is ready is told its address.
THEOREM AddressIsShown == Spec => []ReadyCarriesAddress
  <1>1. Inv => ReadyCarriesAddress
    BY DEF Inv, EventInv, EventOK, ReadyCarriesAddress
  <1> QED
    BY <1>1, Invariance, PTL

\* However many streams subscribe, leave and share the list's array while
\* events are sent, and whatever the size of their buffers, no client is shown
\* an earlier state of the job after a later one.
THEOREM NeverBack == Spec => ClientNeverGoesBack
  <1>1. ASSUME Inv, [Next]_vars
        PROVE  [\A s \in Streams : Rank(last'[s]) >= Rank(last[s])]_vars
    <2>1. SUFFICES ASSUME NEW s \in Streams
                   PROVE  Rank(last'[s]) >= Rank(last[s])
      OBVIOUS
    <2>2. /\ last \in [Streams -> Events] /\ chan \in [Streams -> Seq(Events)]
          /\ job \in Events
      BY <1>1 DEF Inv, TypeInv, TypeOK
    <2>3. CASE last' = last
      <3> DEFINE n == Rank(last[s])
      <3>1. n \in Nat
        BY <2>2, RankType
      <3> HIDE DEF n
      <3>2. n >= n
        BY <3>1
      <3> QED
        BY <2>3, <3>2 DEF n
    <2>4. ASSUME NEW r \in Streams, Request(r) \/ Receive(r), last' # last, r # s
          PROVE  last'[s] = last[s]
      BY <2>2, <2>4 DEF Request, Receive
    <2>5. CASE Request(s)
      <3>1. last'[s] = job
        BY <2>2, <2>5 DEF Request
      <3>2. Rank(last[s]) <= Rank(job)
        BY <1>1 DEF Inv, EventInv, EventOK
      <3>3. Rank(last[s]) \in Nat /\ Rank(job) \in Nat
        BY <2>2, RankType
      <3> QED
        BY <3>1, <3>2, <3>3
    <2>6. CASE Receive(s)
      <3> DEFINE q == chan[s]
      <3>1. q \in Seq(Events) /\ q # <<>> /\ last'[s] = Head(q)
        BY <2>2, <2>6 DEF Receive
      <3>2. 1 \in 1 .. Len(q) /\ Head(q) = q[1] /\ q[1] \in Events
        BY <3>1
      <3>3. Rank(last[s]) <= Rank(q[1])
        BY <1>1, <3>2 DEF Inv, EventInv
      <3>4. Rank(last[s]) \in Nat /\ Rank(q[1]) \in Nat
        BY <2>2, <3>2, RankType
      <3> QED
        BY <3>1, <3>2, <3>3, <3>4
    <2>7. last'[s] = last[s] => Rank(last'[s]) >= Rank(last[s])
      <3>1. Rank(last[s]) \in Nat
        BY <2>2, RankType
      <3> QED
        BY <3>1
    <2> QED
      BY <1>1, <2>3, <2>4, <2>5, <2>6, <2>7
      DEF Next, Publisher, Handler, Client, Create, UpdateStep, SetError,
          SetIP, SendNext, Subscribe, ClientGone, Unsubscribe, MoveSlot,
          Close, vars, streamVars
  <1> QED
    BY <1>1, Invariance, PTL DEF Spec, ClientNeverGoesBack

\* The store's job goes through the abstract life cycle of JobLifecycle.
THEOREM Refinement == Spec => ImplementsLifecycle
  <1>1. Init => Lifecycle!Init
    BY DEF Init, Lifecycle!Init, NoJob, Progress
  <1>2. ASSUME TypeInv, WorkerInv, [Next]_vars
        PROVE  [Lifecycle!Next]_(Lifecycle!vars)
    <2>1. job \in Events /\ job' \in Events
      BY <1>2, NextTypeInv DEF TypeInv, TypeOK
    <2>2. CASE Create
      <3>1. job.status = "none" /\ job' = [NoJob EXCEPT !.status = "pending"]
        BY <2>2 DEF Create
      <3>2. job'.status = "pending" /\ Progress(job'.step) = 0
        BY <3>1 DEF NoJob, Progress
      <3> QED
        BY <3>1, <3>2 DEF Lifecycle!Next, Lifecycle!Queue
    <2>3. CASE UpdateStep
      <3> DEFINE p == Progress(job.step)  q == Progress(job'.step)
      <3>1. /\ p < q /\ q \in Nat /\ q <= 100
            /\ job'.status = "completed" <=> job'.step = "ready"
            /\ job'.status \in {"running", "completed"}
            /\ job'.step = "ready" <=> q = 100
            /\ job'.step = "ready" => job.status = "running"
        BY <1>2, <2>3, UpdateStepAdvances
      <3>2. p \in Nat
        BY <2>1, ProgressType DEF Events
      <3>3. job.status \in {"pending", "running"}
        BY <2>3 DEF UpdateStep, LiveStatuses
      <3> HIDE DEF p, q
      <3>4. CASE job'.step = "ready"
        <4>1. job.status = "running" /\ job'.status = "completed" /\ q = 100
          BY <3>1, <3>4
        <4> QED
          BY <4>1 DEF Lifecycle!Next, Lifecycle!Complete, q
      <3>5. CASE job'.step # "ready"
        <4>1. job'.status = "running" /\ q \in (p + 1) .. 99
          BY <3>1, <3>2, <3>5
        <4> QED
          BY <3>3, <4>1 DEF Lifecycle!Next, Lifecycle!Advance, p, q
      <3> QED
        BY <3>4, <3>5
    <2>4. CASE SetError
      <3>1. job'.status = "failed" /\ job'.step = job.step
        BY <2>1, <2>4 DEF SetError, Failed, Events
      <3> QED
        BY <2>4, <3>1 DEF SetError, LiveStatuses, Lifecycle!Next, Lifecycle!Fail
    <2>5. CASE SetIP
      <3>1. job'.status = job.status /\ job'.step = job.step
        BY <2>1, <2>5 DEF SetIP, Events
      <3> QED
        BY <3>1 DEF Lifecycle!vars
    <2>6. CASE UNCHANGED workerVars
      BY <2>6 DEF workerVars, Lifecycle!vars
    <2> QED
      BY <1>2, <2>2, <2>3, <2>4, <2>5, <2>6, JobChanges
  <1> QED
    BY <1>1, <1>2, WorkerInvariant, PTL
    DEF Spec, ImplementsLifecycle, Lifecycle!Spec

-----------------------------------------------------------------------------
(* The list of subscribers                                                  *)

\* The first n elements of a are the elements of S, each once.
Listed(a, n, S) ==
  /\ \A i \in 1 .. n : a[i] \in S
  /\ \A i, j \in 1 .. n : a[i] = a[j] => i = j
  /\ \A s \in S : \E i \in 1 .. n : a[i] = s

Members == {s \in Streams : pc[s] \in {"loop", "leaving", "removing"}}

\* The array while slot i is removed: what is not yet overwritten is as it was,
\* what is has the element after it.
Moved(i) ==
  \A j \in 1 .. nsubs :
    slots[j] = IF j < i \/ j \in shift.todo \/ j = nsubs
                 THEN shift.from[j] ELSE shift.from[j + 1]

\* The list holds the members while the lock is free, and the copy it is being
\* moved from does while one of them is removed.
ListInv ==
  /\ \A s \in Streams : pc[s] = "removing" <=> s = mu
  /\ mu = NoStream => Listed(slots, nsubs, Members)
  /\ mu # NoStream =>
       /\ Listed(shift.from, nsubs, Members)
       /\ \E i \in 1 .. nsubs :
            shift.from[i] = mu /\ shift.todo \subseteq i .. nsubs - 1 /\ Moved(i)

\* A list with an element appended.
LEMMA ListedAppend ==
  ASSUME NEW n \in Nat, NEW a, NEW b, NEW S, NEW s, s \notin S,
         Listed(a, n, S), b[n + 1] = s, \A i \in 1 .. n : b[i] = a[i]
  PROVE  Listed(b, n + 1, S \cup {s})
  <1>1. \A i \in 1 .. n + 1 : i = n + 1 \/ i \in 1 .. n
    OBVIOUS
  <1>2. n + 1 \in 1 .. n + 1 /\ \A i \in 1 .. n : i \in 1 .. n + 1
    OBVIOUS
  <1>3. \A i \in 1 .. n + 1 : b[i] \in S \cup {s}
    BY <1>1 DEF Listed
  <1>4. \A i, j \in 1 .. n + 1 : b[i] = b[j] => i = j
    BY <1>1 DEF Listed
  <1>5. \A x \in S \cup {s} : \E i \in 1 .. n + 1 : b[i] = x
    BY <1>2 DEF Listed
  <1> QED
    BY <1>3, <1>4, <1>5 DEF Listed

\* A list with its i-th element taken out.
LEMMA ListedRemove ==
  ASSUME NEW n \in Nat, NEW a, NEW b, NEW S, NEW i \in 1 .. n, Listed(a, n, S),
         \A j \in 1 .. n - 1 : b[j] = IF j < i THEN a[j] ELSE a[j + 1]
  PROVE  Listed(b, n - 1, S \ {a[i]})
  <1> DEFINE at(j) == IF j < i THEN j ELSE j + 1
  <1>1. \A j \in 1 .. n - 1 : at(j) \in 1 .. n /\ at(j) # i /\ b[j] = a[at(j)]
    OBVIOUS
  <1>2. \A j, k \in 1 .. n - 1 : at(j) = at(k) => j = k
    OBVIOUS
  <1>3. \A k \in 1 .. n : k # i => \E j \in 1 .. n - 1 : at(j) = k
    <2> SUFFICES ASSUME NEW k \in 1 .. n, k # i
                 PROVE  \E j \in 1 .. n - 1 : at(j) = k
      OBVIOUS
    <2>1. CASE k < i
      <3>1. k \in 1 .. n - 1 /\ at(k) = k
        BY <2>1
      <3> QED
        BY <3>1
    <2>2. CASE k > i
      <3>1. k - 1 \in 1 .. n - 1 /\ at(k - 1) = k
        BY <2>2
      <3> QED
        BY <3>1
    <2> QED
      BY <2>1, <2>2
  <1> HIDE DEF at
  <1>4. \A j \in 1 .. n - 1 : b[j] \in S \ {a[i]}
    BY <1>1 DEF Listed
  <1>5. \A j, k \in 1 .. n - 1 : b[j] = b[k] => j = k
    BY <1>1, <1>2 DEF Listed
  <1>6. \A x \in S \ {a[i]} : \E j \in 1 .. n - 1 : b[j] = x
    <2> SUFFICES ASSUME NEW x \in S, x # a[i]
                 PROVE  \E j \in 1 .. n - 1 : b[j] = x
      OBVIOUS
    <2>1. PICK k \in 1 .. n : a[k] = x
      BY DEF Listed
    <2>2. k # i
      BY <2>1
    <2> QED
      BY <1>1, <1>3, <2>1, <2>2
  <1> QED
    BY <1>4, <1>5, <1>6 DEF Listed

\* The size of a list is the number of its elements.
LEMMA ListedCardinality ==
  ASSUME NEW n \in Nat, NEW a, NEW S, Listed(a, n, S)
  PROVE  {a[i] : i \in 1 .. n} = S /\ Cardinality(S) = n
  <1> DEFINE f == [i \in 1 .. n |-> a[i]]
  <1>1. f \in Bijection(1 .. n, S)
    <2>1. f \in [1 .. n -> S]
      BY DEF Listed
    <2>2. \A i, j \in 1 .. n : f[i] = f[j] => i = j
      BY DEF Listed
    <2>3. \A s \in S : \E i \in 1 .. n : f[i] = s
      BY DEF Listed
    <2> HIDE DEF f
    <2> QED
      BY <2>1, <2>2, <2>3 DEF Bijection, Injection, Surjection, IsInjective
  <1>2. Cardinality(S) = n
    BY <1>1, FS_CountingElements DEF ExistsBijection
  <1>3. {a[i] : i \in 1 .. n} = S
    BY DEF Listed
  <1> QED
    BY <1>2, <1>3

\* The array after Subscribe.
LEMMA SubscribedSlots ==
  ASSUME TypeInv, NEW s \in Streams, Subscribe(s)
  PROVE  /\ \A i \in 1 .. nsubs : slots'[i] = slots[i]
         /\ slots'[nsubs + 1] = s
         /\ nsubs' = nsubs + 1
  <1>1. slots \in Slots /\ Len(slots) \in Nat /\ nsubs \in 0 .. Len(slots)
    BY DEF TypeInv, TypeOK, Slots
  <1>2. CASE nsubs < Len(slots)
    BY <1>1, <1>2 DEF Subscribe, Slots
  <1>3. CASE ~ (nsubs < Len(slots))
    <2> DEFINE cap == IF Len(slots) = 0 THEN 1 ELSE 2 * Len(slots)
    <2>1. slots' = Grown(s)
      BY <1>3 DEF Subscribe
    <2>2. nsubs + 1 \in 1 .. cap /\ cap \in Nat
      BY <1>1, <1>3
    <2> HIDE DEF cap
    <2>3. Grown(s) = [i \in 1 .. cap |-> IF i <= nsubs THEN slots[i]
                      ELSE IF i = nsubs + 1 THEN s ELSE NoStream]
      BY DEF Grown, cap
    <2>4. Grown(s)[nsubs + 1] = s
      BY <1>1, <2>2, <2>3
    <2> QED
      BY <1>3, <2>1, <2>4, GrownType DEF Subscribe
  <1> QED
    BY <1>2, <1>3 DEF Subscribe

\* Steps that leave the list and its members alone.
LEMMA ListKept ==
  ASSUME TypeInv, ListInv, UNCHANGED <<slots, nsubs, mu, shift>>,
         \A s \in Streams : pc'[s] = "removing" <=> pc[s] = "removing",
         \A s \in Streams : pc'[s] \in {"loop", "leaving"}
                              <=> pc[s] \in {"loop", "leaving"}
  PROVE  ListInv'
  <1>1. Members' = Members
    BY DEF Members
  <1> QED
    BY <1>1 DEF ListInv, Listed, Moved

\* Every step keeps the list exact, or on its way to being so.
LEMMA NextListInv ==
  ASSUME TypeInv, ListInv, [Next]_vars
  PROVE  ListInv'
  <1>0. /\ pc \in [Streams -> PCs] /\ NoStream \notin Streams
        /\ slots \in Slots /\ Len(slots) \in Nat /\ nsubs \in 0 .. Len(slots)
        /\ shift \in [from : Slots, todo : SUBSET Nat]
    BY StreamAssumption DEF TypeInv, TypeOK, Slots
  <1>1. ASSUME NEW s \in Streams, Subscribe(s)
        PROVE  ListInv'
    <2>1. /\ mu = NoStream /\ mu' = mu /\ pc[s] = "snapshot"
          /\ pc' = [pc EXCEPT ![s] = "loop"]
      BY <1>1 DEF Subscribe
    <2>2. s \notin Members /\ Members' = Members \cup {s}
      BY <1>0, <2>1 DEF Members
    <2>3. Listed(slots', nsubs + 1, Members \cup {s})
      BY <1>0, <1>1, <2>1, <2>2, SubscribedSlots, ListedAppend DEF ListInv
    <2>4. nsubs' = nsubs + 1
      BY <1>1 DEF Subscribe
    <2> QED
      BY <1>0, <2>1, <2>2, <2>3, <2>4 DEF ListInv, Listed
  <1>2. ASSUME NEW s \in Streams, Unsubscribe(s)
        PROVE  ListInv'
    <2>1. PICK i \in 1 .. nsubs :
            slots[i] = s /\ shift' = [from |-> slots, todo |-> i .. nsubs - 1]
      BY <1>2 DEF Unsubscribe, MovedSlots
    <2>2. /\ mu = NoStream /\ mu' = s /\ pc[s] = "leaving"
          /\ pc' = [pc EXCEPT ![s] = "removing"]
          /\ slots' = slots /\ nsubs' = nsubs
      BY <1>2 DEF Unsubscribe
    <2>3. Members' = Members
      BY <1>0, <2>2 DEF Members
    <2>4. shift'.from = slots /\ shift'.todo = i .. nsubs - 1
      BY <2>1
    <2>5. Moved(i)'
      BY <1>0, <2>2, <2>4 DEF Moved
    <2>6. Listed(slots, nsubs, Members)
      BY <2>2 DEF ListInv
    <2>7. \A r \in Streams : pc'[r] = "removing" <=> r = s
      BY <1>0, <2>2 DEF ListInv
    <2> QED
      BY <1>0, <2>1, <2>2, <2>3, <2>4, <2>5, <2>6, <2>7 DEF ListInv, Listed
  <1>3. ASSUME NEW s \in Streams, MoveSlot(s)
        PROVE  ListInv'
    <2>1. PICK j \in shift.todo :
            /\ slots' = [slots EXCEPT ![j] = shift.from[j + 1]]
            /\ shift' = [shift EXCEPT !.todo = @ \ {j}]
      BY <1>3 DEF MoveSlot
    <2>2. mu = s /\ mu' = s /\ pc' = pc /\ nsubs' = nsubs
      BY <1>3 DEF MoveSlot, streamVars
    <2>3. PICK i \in 1 .. nsubs :
            shift.from[i] = mu /\ shift.todo \subseteq i .. nsubs - 1 /\ Moved(i)
      BY <1>0, <2>2 DEF ListInv
    <2>4. shift'.from = shift.from /\ shift'.todo = shift.todo \ {j}
      BY <1>0, <2>1
    <2>5. j \in i .. nsubs - 1 /\ j \in 1 .. Len(slots)
      BY <1>0, <2>1, <2>3
    <2>6. slots'[j] = shift.from[j + 1]
          /\ \A k \in 1 .. nsubs : k # j => slots'[k] = slots[k]
      BY <1>0, <2>1, <2>5 DEF Slots
    <2>7. Moved(i)'
      BY <2>2, <2>3, <2>4, <2>5, <2>6 DEF Moved
    <2>8. Members' = Members
      BY <2>2 DEF Members
    <2> QED
      BY <1>0, <2>2, <2>3, <2>4, <2>7, <2>8 DEF ListInv, Listed
  <1>4. ASSUME NEW s \in Streams, Close(s)
        PROVE  ListInv'
    <2>1. /\ mu = s /\ mu' = NoStream /\ shift.todo = {} /\ nsubs' = nsubs - 1
          /\ pc' = [pc EXCEPT ![s] = "done"] /\ slots' = slots
      BY <1>4 DEF Close
    <2>2. PICK i \in 1 .. nsubs : shift.from[i] = s /\ Moved(i)
      BY <1>0, <2>1 DEF ListInv
    <2>3. Listed(shift.from, nsubs, Members)
      BY <1>0, <2>1 DEF ListInv
    <2>4. \A j \in 1 .. nsubs - 1 :
            slots[j] = IF j < i THEN shift.from[j] ELSE shift.from[j + 1]
      BY <1>0, <2>1, <2>2 DEF Moved
    <2>5. Listed(slots, nsubs - 1, Members \ {s})
      BY <1>0, <2>2, <2>3, <2>4, ListedRemove
    <2>6. Members' = Members \ {s}
      BY <1>0, <2>1 DEF Members
    <2>7. \A r \in Streams : pc'[r] # "removing"
      BY <1>0, <2>1 DEF ListInv
    <2> QED
      BY <1>0, <2>1, <2>5, <2>6, <2>7 DEF ListInv, Listed
  <1>5. ASSUME NEW s \in Streams, Request(s)
        PROVE  ListInv'
    <2>1. /\ pc[s] = "new"
          /\ pc' \in {[pc EXCEPT ![s] = "done"], [pc EXCEPT ![s] = "snapshot"]}
      BY <1>5 DEF Request
    <2> QED
      BY <1>0, <1>5, <2>1, ListKept DEF Request, storeVars
  <1>6. ASSUME NEW s \in Streams, Receive(s) \/ ClientGone(s)
        PROVE  ListInv'
    <2>1. /\ pc[s] = "loop"
          /\ pc' \in {[pc EXCEPT ![s] = "loop"], [pc EXCEPT ![s] = "leaving"]}
      BY <1>6 DEF Receive, ClientGone
    <2> QED
      BY <1>0, <1>6, <2>1, ListKept DEF Receive, ClientGone, storeVars
  <1>7. CASE Create \/ UpdateStep \/ SetError \/ SetIP \/ SendNext \/ UNCHANGED vars
    BY <1>7, ListKept DEF Create, UpdateStep, SetError, SetIP, SendNext, vars,
                          storeVars, streamVars
  <1> QED
    BY <1>1, <1>2, <1>3, <1>4, <1>5, <1>6, <1>7 DEF Next, Publisher, Handler, Client

\* The list and its members, at all times.
LEMMA ListInvariant == Spec => []ListInv
  <1>1. Init => ListInv
    BY StreamAssumption DEF Init, ListInv, Listed, Members
  <1>2. TypeInv /\ ListInv /\ [Next]_vars => ListInv'
    BY NextListInv
  <1> QED
    BY InitTypeInv, NextTypeInv, <1>1, <1>2, PTL DEF Spec

\* Whenever the lock is free the list holds the streams that have subscribed and
\* not unsubscribed, each once (ListIsExact).
THEOREM ListCorrect == Spec => []ListIsExact
  <1>1. TypeInv /\ ListInv => ListIsExact
    <2> SUFFICES ASSUME TypeInv, ListInv, mu = NoStream
                 PROVE  LET L == {slots[i] : i \in 1 .. nsubs} IN
                          /\ L = {s \in Streams : pc[s] \in {"loop", "leaving"}}
                          /\ Cardinality(L) = nsubs
      BY DEF ListIsExact
    <2>1. nsubs \in Nat /\ Listed(slots, nsubs, Members)
      BY DEF TypeInv, TypeOK, ListInv, Slots
    <2>2. {slots[i] : i \in 1 .. nsubs} = Members /\ Cardinality(Members) = nsubs
      BY <2>1, ListedCardinality
    <2>3. Members = {s \in Streams : pc[s] \in {"loop", "leaving"}}
      BY StreamAssumption DEF ListInv, Members
    <2> QED
      BY <2>2, <2>3
  <1> QED
    BY InitTypeInv, NextTypeInv, ListInvariant, <1>1, PTL DEF Spec
-----------------------------------------------------------------------------
(* What a report reaches                                                    *)

\* How many reports the worker has made.
Reports == next - 1 + (IF job.status = "failed" THEN 1 ELSE 0)

\* The positions of the publisher's copy of the list it has yet to send to.
Ahead == send.pos .. send.len

\* The publisher will still send to s, at a position that no append reuses.
Due(s) == \E p \in Ahead : SendSlots[p] = s /\ (send.shared => p <= nsubs)

\* A worker that has failed had steps left to report, and a report is being
\* sent only after it was made.
ReportsInv ==
  /\ job.status = "failed" => next <= Len(Script)
  /\ Sending => Reports > 0

\* No slot of the array the publisher reads has been moved yet.
StillInv ==
  mu # NoStream /\ Sending /\ send.shared =>
    \A i \in 1 .. nsubs : shift.from[i] = mu => shift.todo = i .. nsubs - 1

\* The publisher has different streams before it ...
AheadInv ==
  /\ \A p \in Ahead : SendSlots[p] \in Streams
  /\ \A p, q \in Ahead : SendSlots[p] = SendSlots[q] => p = q

\* ... none of which has been sent the present report; nobody was sent more
\* than the reports made.
RoomInv ==
  /\ \A s \in Streams : Len(chan[s]) <= Reports
  /\ \A p \in Ahead : Len(chan[SendSlots[p]]) < Reports

\* A stream in its loop is up to date or about to be.
DueInv == \A s \in Streams : pc[s] = "loop" => UpToDate(s) \/ Due(s)

\* All of it, as long as no removal has raced with a send.
ReachInv ==
  /\ ReportsInv
  /\ ~raced /\ ~crashed => StillInv /\ AheadInv /\ RoomInv /\ DueInv

\* The number of reports is a number, and no script is exceeded.
LEMMA ReportsType ==
  ASSUME TypeInv, ReportsInv
  PROVE  Reports \in Nat /\ Reports <= Len(Script)
  <1>1. next \in 1 .. Len(Script) + 1 /\ Len(Script) \in Nat
    BY ScriptAssumption DEF TypeInv, TypeOK
  <1> QED
    BY <1>1 DEF Reports, ReportsInv

\* Only a report starts sends.
LEMMA SendingOnlyAfterReport ==
  ASSUME TypeInv, [Next]_vars, ~ (UpdateStep \/ SetError)
  PROVE  Sending' => Sending
  <1>1. send \in Sends /\ send.ev \in Events
    BY DEF TypeInv, TypeOK, Sends
  <1>2. CASE SendNext
    BY <1>2 DEF SendNext
  <1>3. ASSUME NEW s \in Streams, Subscribe(s)
        PROVE  Sending' => Sending
    <2>1. send' \in {send, [send EXCEPT !.arr = slots, !.shared = FALSE]}
      BY <1>3 DEF Subscribe
    <2> QED
      BY <1>1, <2>1 DEF Sending, Sends
  <1>4. CASE send' = send
    BY <1>4 DEF Sending
  <1> QED
    BY <1>2, <1>3, <1>4
    DEF Next, Publisher, Handler, Client, Create, SetIP, Request, Receive,
        ClientGone, Unsubscribe, MoveSlot, Close, vars

\* Reports are counted by the two actions that make them.
LEMMA ReportsStep ==
  ASSUME TypeInv, WorkerInv, ReportsInv, [Next]_vars
  PROVE  /\ ReportsInv'
         /\ UpdateStep \/ SetError => Reports' = Reports + 1
         /\ ~ (UpdateStep \/ SetError) => Reports' = Reports
  <1>1. /\ next \in 1 .. Len(Script) + 1 /\ Len(Script) \in Nat /\ Len(Script) > 1
        /\ job \in Events /\ send \in Sends
    BY ScriptAssumption DEF TypeInv, TypeOK
  <1>2. CASE UpdateStep
    <2>1. /\ next' = next + 1 /\ next <= Len(Script)
          /\ job'.status \in {"running", "completed"}
          /\ job.status \in {"pending", "running"}
      BY <1>1, <1>2 DEF UpdateStep, LiveStatuses, Events
    <2>2. ~ SetError
      <3>1. SetError => job'.status = "failed"
        BY <1>1 DEF SetError, Failed, Events
      <3> QED
        BY <2>1, <3>1
    <2> QED
      BY <1>1, <1>2, <2>1, <2>2 DEF Reports, ReportsInv
  <1>3. CASE SetError
    <2>1. /\ next' = next /\ job'.status = "failed"
          /\ job.status \in {"pending", "running"}
      BY <1>1, <1>3 DEF SetError, LiveStatuses, Events, Failed
    <2>2. next <= Len(Script)
      BY <1>1, <2>1 DEF WorkerInv
    <2> QED
      BY <1>1, <1>3, <2>1, <2>2 DEF Reports, ReportsInv
  <1>4. CASE ~ (UpdateStep \/ SetError)
    <2>1. next' = next /\ (job'.status = "failed" <=> job.status = "failed")
      BY <1>1, <1>4, JobChanges
      DEF Create, SetIP, workerVars, Events, NoJob
    <2>2. Sending' => Sending
      BY <1>1, <1>4, SendingOnlyAfterReport
    <2>3. Reports' = Reports
      BY <2>1 DEF Reports
    <2> QED
      BY <1>4, <2>1, <2>2, <2>3 DEF ReportsInv
  <1> QED
    BY <1>2, <1>3, <1>4
\* Steps that only take events from channels and streams from their loops.
LEMMA ReachKept ==
  ASSUME StillInv, AheadInv, RoomInv, DueInv, TypeInv, TypeInv',
         UNCHANGED <<slots, nsubs, send, mu, shift>>,
         Reports' = Reports, Reports \in Nat, Rank(job') = Rank(job),
         \A s \in Streams : Len(chan'[s]) <= Len(chan[s]),
         \A s \in Streams : pc'[s] = "loop" =>
           /\ pc[s] = "loop" /\ since'[s] = since[s]
           /\ Newest(s)' = Newest(s)
  PROVE  StillInv' /\ AheadInv' /\ RoomInv' /\ DueInv'
  <1>1. /\ Sending' = Sending /\ Ahead' = Ahead /\ SendSlots' = SendSlots
    BY DEF Sending, Ahead, SendSlots
  <1>2. StillInv' /\ AheadInv'
    BY <1>1 DEF StillInv, AheadInv
  <1>3. \A s \in Streams : Len(chan'[s]) \in Nat /\ Len(chan[s]) \in Nat
    BY DEF TypeInv, TypeOK
  <1>4. RoomInv'
    BY <1>1, <1>3 DEF RoomInv, AheadInv
  <1>5. \A s \in Streams : Due(s)' = Due(s)
    BY <1>1 DEF Due
  <1>6. DueInv'
    BY <1>5 DEF DueInv, UpToDate
  <1> QED
    BY <1>2, <1>4, <1>6

\* A report: every stream in its loop is on the list that is copied.
LEMMA ReportReaches ==
  ASSUME TypeInv, ListInv, RoomInv, Reports \in Nat, Reports' = Reports + 1,
         NEW e \in Events, mu = NoStream, Publish(e),
         UNCHANGED <<chan, storeVars, streamVars>>
  PROVE  StillInv' /\ AheadInv' /\ RoomInv' /\ DueInv'
  <1>1. nsubs \in Nat /\ \A s \in Streams : Len(chan[s]) \in Nat
    BY DEF TypeInv, TypeOK, Slots
  <1> DEFINE idle == Idle(e)
  <1>2. idle \in Sends /\ idle.shared = TRUE /\ idle.pos = 1
    BY IdleType
  <1>3. send' = [idle EXCEPT !.len = nsubs]
    BY DEF Publish
  <1> HIDE DEF idle
  <1>4. send'.pos = 1 /\ send'.len = nsubs /\ send'.shared = TRUE
    BY <1>2, <1>3 DEF Sends
  <1>5. Ahead' = 1 .. nsubs /\ SendSlots' = slots
    BY <1>4 DEF Ahead, SendSlots, storeVars
  <1>6. Listed(slots, nsubs, Members) /\ Members \subseteq Streams
    BY DEF ListInv, Members
  <1>7. StillInv'
    BY DEF StillInv, storeVars
  <1>8. AheadInv'
    BY <1>5, <1>6 DEF AheadInv, Listed
  <1>9. RoomInv'
    BY <1>1, <1>5, <1>6 DEF RoomInv, Listed
  <1>10. ASSUME NEW s \in Streams, pc'[s] = "loop"
         PROVE  Due(s)'
    <2>1. s \in Members
      BY <1>10 DEF Members, streamVars
    <2>2. PICK p \in 1 .. nsubs : slots[p] = s
      BY <1>6, <2>1 DEF Listed
    <2>3. p <= nsubs'
      BY <1>1, <2>2 DEF storeVars
    <2> QED
      BY <1>5, <2>2, <2>3 DEF Due
  <1>11. DueInv'
    BY <1>10 DEF DueInv
  <1> QED
    BY <1>7, <1>8, <1>9, <1>11

\* One send: there is room in the channel, and its stream is then up to date.
LEMMA SendReaches ==
  ASSUME TypeInv, TypeInv', SendInv, Len(Script) <= ChanCap, Reports \in Nat,
         Reports <= Len(Script), Reports' = Reports, AheadInv, RoomInv, DueInv,
         StillInv, SendNext, ~crashed'
  PROVE  StillInv' /\ AheadInv' /\ RoomInv' /\ DueInv'
  <1>1. /\ send \in Sends /\ send.ev \in Events /\ send.pos \in Nat
        /\ send.len \in Nat /\ nsubs \in Nat
        /\ chan \in [Streams -> Seq(Events)]
        /\ Len(Script) \in Nat /\ ChanCap \in Nat
    <2>1. send \in Sends /\ nsubs \in Nat /\ chan \in [Streams -> Seq(Events)]
      BY DEF TypeInv, TypeOK, Slots
    <2>2. /\ send.ev \in Events /\ send.pos \in Nat /\ send.len \in Nat
      BY <2>1 DEF Sends
    <2>3. Len(Script) \in Nat /\ ChanCap \in Nat
      BY ScriptAssumption, StreamAssumption
    <2> QED
      BY <2>1, <2>2, <2>3
  <1>2. send.pos \in Ahead /\ send.pos <= send.len
    BY <1>1 DEF Ahead, SendNext, Sending
  <1>3. PICK t \in Streams : /\ t = SendSlots[send.pos] /\ t \notin closed
                             /\ Len(chan[t]) < Reports
    <2>1. SendSlots[send.pos] \in Streams
      BY <1>2 DEF AheadInv
    <2>2. Len(chan[SendSlots[send.pos]]) < Reports
      BY <1>2 DEF RoomInv
    <2>3. SendSlots[send.pos] \notin closed
      BY DEF SendNext
    <2> QED
      BY <2>1, <2>2, <2>3
  <1>4. chan' = [chan EXCEPT ![t] = Append(chan[t], send.ev)]
    <2>1. Len(chan[t]) \in Nat
      BY <1>1
    <2>2. Len(chan[t]) < ChanCap
      BY <1>1, <1>3, <2>1
    <2> QED
      BY <1>3, <2>2 DEF SendNext, Enqueue
  <1>5. /\ chan'[t] = Append(chan[t], send.ev)
        /\ \A s \in Streams : s # t => chan'[s] = chan[s]
    BY <1>1, <1>3, <1>4
  <1>6. /\ Len(chan'[t]) = Len(chan[t]) + 1
        /\ \A s \in Streams : Len(chan[s]) \in Nat
        /\ chan'[t] # <<>>
        /\ chan'[t][Len(chan'[t])] = send.ev
    BY <1>1, <1>3, <1>5
  <1>7. Rank(send.ev) = Rank(job) /\ job' = job /\ since' = since /\ pc' = pc
        /\ last' = last /\ slots' = slots /\ nsubs' = nsubs
    BY DEF SendInv, SendNext, workerVars, streamVars, storeVars
  <1>8. UpToDate(t)'
    BY <1>6, <1>7 DEF UpToDate, Newest
  <1>9. \A s \in Streams : s # t => UpToDate(s)' = UpToDate(s)
    BY <1>5, <1>7 DEF UpToDate, Newest
  <1>10. Ahead' \subseteq Ahead \ {send.pos}
         /\ (Ahead' # {} => /\ Ahead' = Ahead \ {send.pos}
                            /\ SendSlots' = SendSlots
                            /\ send'.shared = send.shared)
         /\ (Ahead' = {} => Ahead = {send.pos})
    <2>1. CASE send.pos = send.len
      <3>1. send' = Idle(send.ev)
        BY <2>1 DEF SendNext
      <3>2. send'.pos = 1 /\ send'.len = 0
        BY <1>1, <3>1, IdleType
      <3>3. Ahead' = {}
        BY <3>2 DEF Ahead
      <3>4. Ahead = {send.pos}
        BY <1>1, <2>1 DEF Ahead
      <3> QED
        BY <3>3, <3>4
    <2>2. CASE send.pos # send.len
      <3>1. send' = [send EXCEPT !.pos = @ + 1]
        BY <2>2 DEF SendNext
      <3>2. /\ send'.pos = send.pos + 1 /\ send'.len = send.len
            /\ send'.shared = send.shared /\ send'.arr = send.arr
        BY <1>1, <3>1 DEF Sends
      <3>3. SendSlots' = SendSlots
        BY <1>7, <3>2 DEF SendSlots
      <3>4. Ahead' = Ahead \ {send.pos}
        BY <1>1, <3>2 DEF Ahead
      <3>5. send.pos + 1 \in Ahead'
        BY <1>1, <1>2, <2>2, <3>2 DEF Ahead
      <3> QED
        BY <3>2, <3>3, <3>4, <3>5
    <2> QED
      BY <2>1, <2>2
  <1>11. \A p \in Ahead' : p \in Ahead /\ SendSlots[p] # t /\ SendSlots'[p] = SendSlots[p]
    BY <1>2, <1>3, <1>10 DEF AheadInv
  <1>12. AheadInv'
    BY <1>11 DEF AheadInv
  <1>13. RoomInv'
    <2>1. \A s \in Streams : Len(chan'[s]) <= Reports
      BY <1>3, <1>5, <1>6 DEF RoomInv
    <2>2. \A p \in Ahead' : Len(chan'[SendSlots'[p]]) < Reports
      BY <1>5, <1>11 DEF RoomInv, AheadInv
    <2> QED
      BY <2>1, <2>2 DEF RoomInv
  <1>14. ASSUME NEW s \in Streams, s # t, Due(s)
         PROVE  Due(s)'
    <2>1. PICK p \in Ahead : SendSlots[p] = s /\ (send.shared => p <= nsubs)
      BY <1>14 DEF Due
    <2>2. p # send.pos
      BY <1>3, <1>14, <2>1
    <2>3. Ahead' # {} /\ p \in Ahead'
      BY <1>10, <2>2
    <2> QED
      BY <1>7, <1>10, <2>1, <2>3 DEF Due
  <1>15. DueInv'
    BY <1>7, <1>8, <1>9, <1>14 DEF DueInv
  <1>16. StillInv'
    <2>1. Sending' /\ send'.shared => Sending /\ send.shared
      <3>1. Sending' => send'.pos \in Ahead'
        <4>1. send' \in Sends
          BY DEF TypeInv, TypeOK
        <4> QED
          BY <4>1 DEF Ahead, Sending, Sends
      <3> QED
        BY <1>10, <3>1 DEF SendNext
    <2> QED
      BY <1>7, <2>1 DEF StillInv, SendNext, storeVars
  <1> QED
    BY <1>12, <1>13, <1>15, <1>16

\* The publisher's positions are positions of its array.
LEMMA AheadInArray ==
  ASSUME TypeInv
  PROVE  \A p \in Ahead : p \in 1 .. Len(SendSlots)
  <1>1. /\ send \in Sends /\ slots \in Slots /\ send.arr \in Slots
        /\ send.len <= Len(SendSlots)
    BY DEF TypeInv, TypeOK, Sends
  <1>2. SendSlots \in Slots
    BY <1>1 DEF SendSlots
  <1>3. Len(SendSlots) \in Nat /\ send.pos \in Nat \ {0} /\ send.len \in Nat
    BY <1>1, <1>2 DEF Slots, Sends
  <1> QED
    BY <1>1, <1>3 DEF Ahead

\* What the publisher has still to read when a stream subscribes: the slot
\* behind the list is the only one that can change under it, and only while it
\* shares the array.
LEMMA SubscribedAhead ==
  ASSUME TypeInv, NEW s \in Streams, Subscribe(s)
  PROVE  /\ Ahead' = Ahead
         /\ send'.shared => send.shared
         /\ \A p \in Ahead :
              \/ SendSlots'[p] = SendSlots[p]
              \/ SendSlots'[p] = s /\ send.shared /\ p = nsubs + 1
  <1>1. send \in Sends /\ nsubs \in Nat /\ send.pos \in Nat \ {0}
        /\ send.len \in Nat
    BY DEF TypeInv, TypeOK, Sends, Slots
  <1>2. /\ send'.pos = send.pos /\ send'.len = send.len
        /\ (send'.shared => send.shared)
    <2>1. send' \in {send, [send EXCEPT !.arr = slots, !.shared = FALSE]}
      BY DEF Subscribe
    <2> QED
      BY <1>1, <2>1 DEF Sends
  <1>3. Ahead' = Ahead
    BY <1>2 DEF Ahead
  <1>4. \A p \in Ahead : \/ SendSlots'[p] = SendSlots[p]
                         \/ SendSlots'[p] = s /\ send.shared /\ p = nsubs + 1
    <2>1. CASE nsubs < Len(slots)
      <3>1. slots' = [slots EXCEPT ![nsubs + 1] = s] /\ send' = send
        BY <2>1 DEF Subscribe
      <3>2. slots \in Slots /\ nsubs + 1 \in 1 .. Len(slots)
        BY <1>1, <2>1 DEF TypeInv, TypeOK
      <3>3. /\ slots'[nsubs + 1] = s
            /\ \A p \in 1 .. Len(slots) : p # nsubs + 1 => slots'[p] = slots[p]
        BY <3>1, <3>2 DEF Slots
      <3> QED
        BY <3>1, <3>3, AheadInArray DEF SendSlots
    <2>2. CASE ~ (nsubs < Len(slots))
      <3>1. send' = IF Sending /\ send.shared
                      THEN [send EXCEPT !.arr = slots, !.shared = FALSE]
                      ELSE send
        BY <2>2 DEF Subscribe
      <3>2. CASE Sending /\ send.shared
        <4>1. send'.shared = FALSE /\ send'.arr = slots
          BY <1>1, <3>1, <3>2 DEF Sends
        <4> QED
          BY <3>2, <4>1 DEF SendSlots
      <3>3. CASE Sending /\ ~ send.shared
        BY <3>1, <3>3 DEF SendSlots
      <3>4. CASE ~ Sending
        <4>1. Ahead = {}
          BY <1>1, <3>4 DEF Ahead, Sending
        <4> QED
          BY <4>1
      <3> QED
        BY <3>2, <3>3, <3>4
    <2> QED
      BY <2>1, <2>2
  <1> QED
    BY <1>2, <1>3, <1>4

\* A stream subscribes: it is up to date, and no position the publisher still
\* reads changes under it, whether append reuses the array or replaces it.
LEMMA SubscribeReaches ==
  ASSUME TypeInv, SlotInv, ReportsInv, Reports \in Nat,
         Reports' = Reports, StillInv, AheadInv, RoomInv, DueInv,
         NEW s \in Streams, StreamInv(s), Subscribe(s)
  PROVE  StillInv' /\ AheadInv' /\ RoomInv' /\ DueInv'
  <1>1. /\ send \in Sends /\ nsubs \in Nat /\ send.pos \in Nat \ {0}
        /\ send.len \in Nat /\ send.shared \in BOOLEAN
    BY DEF TypeInv, TypeOK, Sends, Slots
  <1>2. /\ pc \in [Streams -> PCs] /\ pc[s] = "snapshot" /\ chan[s] = <<>>
        /\ pc' = [pc EXCEPT ![s] = "loop"] /\ chan' = chan /\ last' = last
        /\ job' = job /\ mu' = NoStream /\ nsubs' = nsubs + 1
    BY DEF TypeInv, TypeOK, Subscribe, StreamInv, workerVars
  <1>3. /\ since \in [Streams -> Nat]
        /\ since' = [since EXCEPT ![s] = Rank(job)]
    BY DEF TypeInv, TypeOK, Subscribe
  <1>4. send'.shared => send.shared
    BY SubscribedAhead
  <1>5. Ahead' = Ahead
    BY SubscribedAhead
  <1>6. \A p \in Ahead : SendSlots[p] # s
    <2>1. SendSlots \in {slots, send.arr}
      BY DEF SendSlots
    <2> QED
      BY <1>2, <2>1, AheadInArray DEF SlotInv, OnlySubscribed
  <1>7. \A p \in Ahead : \/ SendSlots'[p] = SendSlots[p]
                         \/ SendSlots'[p] = s /\ send.shared /\ p = nsubs + 1
    BY SubscribedAhead
  <1>8. StillInv'
    BY <1>2 DEF StillInv
  <1>9. AheadInv'
    BY <1>5, <1>6, <1>7 DEF AheadInv
  <1>10. RoomInv'
    <2>1. \A r \in Streams : Len(chan'[r]) <= Reports
      BY <1>2 DEF RoomInv
    <2>2. ASSUME NEW p \in Ahead
          PROVE  Len(chan'[SendSlots'[p]]) < Reports
      <3>1. Reports > 0
        BY <1>1, <2>2 DEF Ahead, Sending, ReportsInv
      <3>2. Len(chan[s]) < Reports
        BY <1>2, <3>1
      <3> QED
        BY <1>2, <1>7, <2>2, <3>2 DEF RoomInv
    <2> QED
      BY <1>5, <2>1, <2>2 DEF RoomInv
  <1>11. UpToDate(s)'
    BY <1>2, <1>3 DEF UpToDate
  <1>12. ASSUME NEW r \in Streams, r # s, pc'[r] = "loop"
         PROVE  UpToDate(r)' \/ Due(r)'
    <2>1. pc[r] = "loop" /\ UpToDate(r)' = UpToDate(r)
      BY <1>2, <1>3, <1>12 DEF UpToDate, Newest
    <2>2. ASSUME Due(r)
          PROVE  Due(r)'
      <3>1. PICK p \in Ahead : SendSlots[p] = r /\ (send.shared => p <= nsubs)
        BY <2>2 DEF Due
      <3>2. p \in Nat
        BY <1>1 DEF Ahead
      <3>3. SendSlots'[p] = r
        BY <1>1, <1>7, <3>1, <3>2
      <3>4. send'.shared => p <= nsubs'
        BY <1>1, <1>2, <1>4, <3>1, <3>2
      <3> QED
        BY <1>5, <3>1, <3>3, <3>4 DEF Due
    <2> QED
      BY <2>1, <2>2 DEF DueInv
  <1>13. DueInv'
    BY <1>11, <1>12 DEF DueInv
  <1> QED
    BY <1>8, <1>9, <1>10, <1>13

\* A removal starts: the list is as it was, and its own slot is only one.
LEMMA UnsubscribeReaches ==
  ASSUME TypeInv, ListInv, Reports' = Reports, AheadInv, RoomInv, DueInv,
         NEW s \in Streams, Unsubscribe(s)
  PROVE  StillInv' /\ AheadInv' /\ RoomInv' /\ DueInv'
  <1>1. PICK i \in 1 .. nsubs :
          slots[i] = s /\ shift' = [from |-> slots, todo |-> i .. nsubs - 1]
    BY DEF Unsubscribe, MovedSlots
  <1>2. /\ mu = NoStream /\ mu' = s /\ pc' = [pc EXCEPT ![s] = "removing"]
        /\ UNCHANGED <<job, slots, nsubs, send, chan, last, since>>
    BY DEF Unsubscribe, workerVars
  <1>3. Listed(slots, nsubs, Members)
    BY <1>2 DEF ListInv
  <1>4. StillInv'
    BY <1>1, <1>2, <1>3 DEF StillInv, Listed
  <1>5. Ahead' = Ahead /\ SendSlots' = SendSlots
    BY <1>2 DEF Ahead, SendSlots
  <1>6. AheadInv' /\ RoomInv'
    BY <1>2, <1>5 DEF AheadInv, RoomInv
  <1>7. pc \in [Streams -> PCs]
    BY DEF TypeInv, TypeOK
  <1>8. \A r \in Streams : /\ pc'[r] = "loop" => pc[r] = "loop"
                           /\ UpToDate(r)' = UpToDate(r) /\ Due(r)' = Due(r)
    BY <1>2, <1>5, <1>7 DEF UpToDate, Newest, Due
  <1>9. DueInv'
    BY <1>8 DEF DueInv
  <1> QED
    BY <1>4, <1>6, <1>9

\* A slot is moved, and the publisher does not read that array.
LEMMA MoveReaches ==
  ASSUME TypeInv, Reports' = Reports, AheadInv, RoomInv, DueInv,
         NEW s \in Streams, MoveSlot(s), ~raced'
  PROVE  StillInv' /\ AheadInv' /\ RoomInv' /\ DueInv'
  <1>1. send \in Sends
    BY DEF TypeInv, TypeOK
  <1>2. ~ (Sending /\ send.shared)
        /\ UNCHANGED <<job, nsubs, send, chan, pc, last, since>>
    BY DEF MoveSlot, workerVars, streamVars
  <1>3. StillInv'
    BY <1>2 DEF StillInv, Sending
  <1>4. Ahead' = Ahead /\ \A p \in Ahead : SendSlots'[p] = SendSlots[p]
    <2>1. CASE Sending
      BY <1>2, <2>1 DEF Ahead, SendSlots
    <2>2. CASE ~ Sending
      <3>1. Ahead = {}
        BY <1>1, <2>2 DEF Ahead, Sending, Sends
      <3> QED
        BY <1>2, <3>1 DEF Ahead
    <2> QED
      BY <2>1, <2>2
  <1>5. AheadInv' /\ RoomInv'
    BY <1>2, <1>4 DEF AheadInv, RoomInv
  <1>6. \A r \in Streams : UpToDate(r)' = UpToDate(r) /\ (Due(r) => Due(r)')
    BY <1>2, <1>4 DEF UpToDate, Newest, Due
  <1>7. DueInv'
    BY <1>2, <1>6 DEF DueInv
  <1> QED
    BY <1>3, <1>5, <1>7

\* A removal ends.  If the publisher reads the array none of its slots was
\* moved, so the stream removed was the last, and the shorter list has all the
\* positions where streams in their loops are due.
LEMMA CloseReaches ==
  ASSUME TypeInv, ListInv, ReportsInv, Reports \in Nat, Reports' = Reports,
         StillInv, AheadInv, RoomInv, DueInv, NEW s \in Streams, Close(s)
  PROVE  StillInv' /\ AheadInv' /\ RoomInv' /\ DueInv'
  <1>1. /\ send \in Sends /\ nsubs \in Nat /\ send.pos \in Nat
        /\ send.len \in Nat /\ send.shared \in BOOLEAN
        /\ pc \in [Streams -> PCs] /\ chan \in [Streams -> Seq(Events)]
    BY DEF TypeInv, TypeOK, Sends, Slots
  <1>2. /\ mu = s /\ mu' = NoStream /\ shift.todo = {} /\ nsubs' = nsubs - 1
        /\ pc' = [pc EXCEPT ![s] = "done"] /\ chan' = [chan EXCEPT ![s] = <<>>]
        /\ UNCHANGED <<job, slots, send, last, since>>
    BY DEF Close, workerVars
  <1>3. Ahead' = Ahead /\ SendSlots' = SendSlots
    BY <1>2 DEF Ahead, SendSlots
  <1>4. StillInv' /\ AheadInv'
    BY <1>2, <1>3 DEF StillInv, AheadInv
  <1>5. \A r \in Streams : chan'[r] = IF r = s THEN <<>> ELSE chan[r]
    BY <1>1, <1>2
  <1>6. Ahead # {} => Sending
    BY <1>1 DEF Ahead, Sending
  <1>7. RoomInv'
    <2>1. \A r \in Streams : Len(chan'[r]) <= Reports
      BY <1>5 DEF RoomInv
    <2>2. \A p \in Ahead : Len(chan'[SendSlots[p]]) < Reports
      BY <1>5, <1>6 DEF RoomInv, AheadInv, ReportsInv
    <2> QED
      BY <1>3, <2>1, <2>2 DEF RoomInv
  <1>8. Sending /\ send.shared => slots[nsubs] = s
    <2> SUFFICES ASSUME Sending, send.shared
                 PROVE  slots[nsubs] = s
      OBVIOUS
    <2>1. mu # NoStream
      BY <1>2, StreamAssumption
    <2>2. PICK i \in 1 .. nsubs : shift.from[i] = mu /\ Moved(i)
      BY <2>1 DEF ListInv
    <2>3. shift.todo = i .. nsubs - 1
      BY <2>1, <2>2 DEF StillInv
    <2>4. i = nsubs
      <3>1. ~ (i \in i .. nsubs - 1)
        BY <1>2, <2>3
      <3> QED
        BY <1>1, <3>1
    <2>5. slots[nsubs] = shift.from[nsubs]
      BY <1>1, <2>2, <2>4 DEF Moved
    <2> QED
      BY <1>2, <2>2, <2>4, <2>5
  <1>9. ASSUME NEW r \in Streams, pc'[r] = "loop"
        PROVE  UpToDate(r)' \/ Due(r)'
    <2>1. r # s /\ pc[r] = "loop"
      BY <1>1, <1>2, <1>9
    <2>2. UpToDate(r)' = UpToDate(r)
      BY <1>2, <1>5, <2>1 DEF UpToDate, Newest
    <2>3. ASSUME Due(r)
          PROVE  Due(r)'
      <3>1. PICK p \in Ahead : SendSlots[p] = r /\ (send.shared => p <= nsubs)
        BY <2>3 DEF Due
      <3>2. p \in Nat
        BY <1>1 DEF Ahead
      <3>3. send.shared => p # nsubs
        BY <1>6, <1>8, <2>1, <3>1 DEF SendSlots
      <3>4. send.shared => p <= nsubs - 1
        BY <1>1, <3>1, <3>2, <3>3
      <3> QED
        BY <1>2, <1>3, <3>1, <3>4 DEF Due
    <2> QED
      BY <2>1, <2>2, <2>3 DEF DueInv
  <1>10. DueInv'
    BY <1>9 DEF DueInv
  <1> QED
    BY <1>4, <1>7, <1>10

\* The newest element of a queue stays the newest when the oldest is taken.
LEMMA TailNewest ==
  ASSUME NEW S, NEW q \in Seq(S), q # <<>>
  PROVE  /\ Len(Tail(q)) = Len(q) - 1 /\ Len(q) \in Nat
         /\ IF Tail(q) = <<>> THEN Head(q) = q[Len(q)]
            ELSE Tail(q)[Len(Tail(q))] = q[Len(q)]
  <1> DEFINE r == Tail(q)
  <1>1. /\ Len(q) \in Nat /\ Len(q) > 0 /\ Head(q) = q[1]
        /\ r \in Seq(S) /\ Len(r) = Len(q) - 1
        /\ \A i \in 1 .. Len(r) : r[i] = q[i + 1]
    OBVIOUS
  <1> HIDE DEF r
  <1>2. r = <<>> => Len(q) = 1
    BY <1>1
  <1>3. r # <<>> => Len(r) \in 1 .. Len(r)
    BY <1>1
  <1>4. IF r = <<>> THEN Head(q) = q[Len(q)] ELSE r[Len(r)] = q[Len(q)]
    BY <1>1, <1>2, <1>3
  <1> QED
    BY <1>1, <1>4 DEF r

\* Creating the job and storing the address leave its rank alone.
LEMMA RankOfQuietSteps ==
  ASSUME job \in Events, job' \in Events, WorkerInv,
         Create \/ SetIP \/ UNCHANGED vars
  PROVE  Rank(job') = Rank(job)
  <1>1. CASE Create
    <2>1. job.status = "none" /\ job' = [NoJob EXCEPT !.status = "pending"]
      BY <1>1 DEF Create
    <2>2. job'.status = "pending" /\ job'.step = StepNone /\ job.step = StepNone
      BY <2>1 DEF NoJob, WorkerInv
    <2> QED
      BY <2>1, <2>2 DEF Rank, TerminalStatuses
  <1>2. CASE SetIP
    <2>1. job'.status = job.status /\ job'.step = job.step
      BY <1>2 DEF SetIP, Events
    <2> QED
      BY <2>1 DEF Rank
  <1>3. CASE UNCHANGED vars
    BY <1>3 DEF vars
  <1> QED
    BY <1>1, <1>2, <1>3

\* Whatever the next step is.
LEMMA NextReachInv ==
  ASSUME Len(Script) <= ChanCap, Inv, ListInv, ReachInv, [Next]_vars
  PROVE  ReachInv'
  <1>1. /\ TypeInv /\ WorkerInv /\ SendInv /\ SlotInv
        /\ \A s \in Streams : StreamInv(s)
    BY EventInvParts DEF Inv
  <1>2. /\ ReportsInv /\ ReportsInv' /\ TypeInv'
        /\ Reports \in Nat /\ Reports <= Len(Script)
    BY <1>1, ReportsStep, ReportsType, NextTypeInv DEF ReachInv
  <1> SUFFICES ASSUME ~raced', ~crashed'
               PROVE  StillInv' /\ AheadInv' /\ RoomInv' /\ DueInv'
    BY <1>2 DEF ReachInv
  <1>3. ~raced /\ ~crashed
    <2>1. ~crashed
      BY DEF Next, Publisher, Handler, Client, vars
    <2>2. ASSUME NEW s \in Streams, Handler(s) \/ Client(s)
          PROVE  ~raced
      BY <2>2 DEF Handler, Client, Request, Subscribe, Receive, ClientGone,
                  Unsubscribe, MoveSlot, Close
    <2>3. CASE Create \/ Publisher \/ UNCHANGED vars
      BY <2>3 DEF Create, Publisher, UpdateStep, SetError, SetIP, SendNext, vars
    <2> QED
      BY <2>1, <2>2, <2>3 DEF Next
  <1>4. StillInv /\ AheadInv /\ RoomInv /\ DueInv
    BY <1>3 DEF ReachInv
  <1>5. /\ job \in Events /\ job' \in Events /\ chan \in [Streams -> Seq(Events)]
        /\ pc \in [Streams -> PCs] /\ last \in [Streams -> Events]
    BY <1>1, <1>2 DEF TypeInv, TypeOK
  <1>6. CASE UpdateStep
    BY <1>1, <1>2, <1>4, <1>5, <1>6, ReportsStep, ReportReaches
    DEF UpdateStep, StepEvent, ReachInv
  <1>7. CASE SetError
    <2>1. ErrorEvent(job') \in Events
      BY <1>5 DEF ErrorEvent, Events
    <2>2. Reports' = Reports + 1
      BY <1>1, <1>2, <1>7, ReportsStep
    <2> QED
      BY <1>1, <1>2, <1>4, <1>7, <2>1, <2>2, ReportReaches DEF SetError
  <1> SUFFICES ASSUME ~ (UpdateStep \/ SetError)
               PROVE  StillInv' /\ AheadInv' /\ RoomInv' /\ DueInv'
    BY <1>6, <1>7
  <1>8. Reports' = Reports
    BY <1>1, <1>2, ReportsStep
  <1>9. CASE SendNext
    BY <1>1, <1>2, <1>4, <1>8, <1>9, SendReaches
  <1>10. ASSUME NEW s \in Streams, Subscribe(s)
         PROVE  StillInv' /\ AheadInv' /\ RoomInv' /\ DueInv'
    BY <1>1, <1>2, <1>4, <1>8, <1>10, SubscribeReaches
  <1>11. ASSUME NEW s \in Streams, Unsubscribe(s)
         PROVE  StillInv' /\ AheadInv' /\ RoomInv' /\ DueInv'
    BY <1>1, <1>4, <1>8, <1>11, UnsubscribeReaches
  <1>12. ASSUME NEW s \in Streams, MoveSlot(s)
         PROVE  StillInv' /\ AheadInv' /\ RoomInv' /\ DueInv'
    BY <1>1, <1>4, <1>8, <1>12, MoveReaches
  <1>13. ASSUME NEW s \in Streams, Close(s)
         PROVE  StillInv' /\ AheadInv' /\ RoomInv' /\ DueInv'
    BY <1>1, <1>2, <1>4, <1>8, <1>13, CloseReaches
  <1>14. ASSUME NEW s \in Streams, Request(s)
         PROVE  StillInv' /\ AheadInv' /\ RoomInv' /\ DueInv'
    <2>1. /\ UNCHANGED <<slots, nsubs, send, mu, shift, job, chan, since>>
          /\ pc' \in {[pc EXCEPT ![s] = "done"], [pc EXCEPT ![s] = "snapshot"]}
          /\ pc[s] = "new" /\ last' = [last EXCEPT ![s] = job]
      BY <1>14 DEF Request, workerVars, storeVars
    <2>2. \A r \in Streams : pc'[r] = "loop" =>
            pc[r] = "loop" /\ last'[r] = last[r]
      BY <1>5, <2>1
    <2>3. \A r \in Streams : pc'[r] = "loop" => Newest(r)' = Newest(r)
      BY <2>1, <2>2 DEF Newest
    <2>4. \A r \in Streams : Len(chan'[r]) <= Len(chan[r])
      BY <1>5, <2>1
    <2> QED
      BY <1>1, <1>2, <1>4, <1>8, <2>1, <2>2, <2>3, <2>4, ReachKept
  <1>15. ASSUME NEW s \in Streams, Receive(s)
         PROVE  StillInv' /\ AheadInv' /\ RoomInv' /\ DueInv'
    <2> DEFINE q == chan[s]
    <2>1. /\ UNCHANGED <<slots, nsubs, send, mu, shift, job, since>>
          /\ chan' = [chan EXCEPT ![s] = Tail(q)]
          /\ pc[s] = "loop" /\ last' = [last EXCEPT ![s] = Head(q)]
          /\ pc' \in {[pc EXCEPT ![s] = "leaving"], [pc EXCEPT ![s] = "loop"]}
          /\ q # <<>> /\ q \in Seq(Events)
      BY <1>5, <1>15 DEF Receive, workerVars, storeVars
    <2>2. /\ Len(Tail(q)) = Len(q) - 1 /\ Len(q) \in Nat
          /\ IF Tail(q) = <<>> THEN Head(q) = q[Len(q)]
             ELSE Tail(q)[Len(Tail(q))] = q[Len(q)]
      BY <2>1, TailNewest
    <2>3. /\ chan'[s] = Tail(q) /\ last'[s] = Head(q)
          /\ \A r \in Streams : r # s =>
               chan'[r] = chan[r] /\ last'[r] = last[r] /\ pc'[r] = pc[r]
      BY <1>5, <2>1
    <2>4. \A r \in Streams : Newest(r)' = Newest(r)
      BY <2>1, <2>2, <2>3 DEF Newest
    <2>5. \A r \in Streams : Len(chan'[r]) <= Len(chan[r])
      BY <1>5, <2>2, <2>3
    <2>6. \A r \in Streams : pc'[r] = "loop" => pc[r] = "loop"
      BY <2>1, <2>3
    <2> HIDE DEF q
    <2> QED
      BY <1>1, <1>2, <1>4, <1>8, <2>1, <2>4, <2>5, <2>6, ReachKept
  <1>16. ASSUME NEW s \in Streams, ClientGone(s)
         PROVE  StillInv' /\ AheadInv' /\ RoomInv' /\ DueInv'
    <2>1. /\ UNCHANGED <<slots, nsubs, send, mu, shift, job, chan, since, last>>
          /\ pc' = [pc EXCEPT ![s] = "leaving"]
      BY <1>16 DEF ClientGone, workerVars, storeVars
    <2>2. \A r \in Streams : /\ pc'[r] = "loop" => pc[r] = "loop"
                             /\ Newest(r)' = Newest(r)
                             /\ Len(chan'[r]) <= Len(chan[r])
      BY <1>5, <2>1 DEF Newest
    <2> QED
      BY <1>1, <1>2, <1>4, <1>8, <2>1, <2>2, ReachKept
  <1>17. CASE Create \/ SetIP \/ UNCHANGED vars
    <2>1. UNCHANGED <<slots, nsubs, send, mu, shift, chan, since, last, pc>>
      BY <1>17 DEF Create, SetIP, vars, storeVars, streamVars
    <2>2. Rank(job') = Rank(job)
      BY <1>17, <1>1, <1>5, RankOfQuietSteps
    <2>3. \A r \in Streams : /\ Newest(r)' = Newest(r)
                             /\ Len(chan'[r]) <= Len(chan[r])
      BY <1>5, <2>1 DEF Newest
    <2> QED
      BY <1>1, <1>2, <1>4, <1>8, <2>1, <2>2, <2>3, ReachKept
  <1> QED
    BY <1>9, <1>10, <1>11, <1>12, <1>13, <1>14, <1>15, <1>16, <1>17
    DEF Next, Publisher, Handler, Client

\* Before anything has happened.
LEMMA InitReachInv == Init => ReachInv
  <1> SUFFICES ASSUME Init PROVE ReachInv
    OBVIOUS
  <1>1. job = NoJob /\ next = 1 /\ send = Idle(NoJob) /\ NoJob.status = "none"
    BY DEF Init, NoJob
  <1>2. send.pos = 1 /\ send.len = 0
    BY <1>1, NoJobType, IdleType
  <1>3. Ahead = {} /\ ~ Sending
    BY <1>2 DEF Ahead, Sending
  <1>4. Reports = 0
    BY <1>1 DEF Reports
  <1>5. \A s \in Streams : chan[s] = <<>> /\ pc[s] = "new"
    BY DEF Init
  <1> QED
    BY <1>1, <1>3, <1>4, <1>5
    DEF ReachInv, ReportsInv, StillInv, AheadInv, RoomInv, DueInv

\* If a channel holds as many events as the script has steps (the code's holds
\* sixteen, its longest script has seven), no report is lost: however streams
\* subscribe and leave while one is being sent, once it is sent every stream in
\* its loop has the job's present state, unless a removal moved the slots being
\* read (Delivered).
THEOREM ReportsReach ==
  ASSUME Len(Script) <= ChanCap
  PROVE  Spec => []Delivered
  <1>1. Inv /\ ListInv /\ ReachInv /\ [Next]_vars => ReachInv'
    BY NextReachInv
  <1>2. TypeInv /\ ReachInv => Delivered
    <2> SUFFICES ASSUME TypeInv, ReachInv, ~raced, ~crashed, ~Sending,
                        NEW s \in Streams, pc[s] = "loop"
                 PROVE  UpToDate(s)
      BY DEF Delivered
    <2>1. send.pos \in Nat /\ send.len \in Nat
      BY DEF TypeInv, TypeOK, Sends
    <2>2. ~ Due(s)
      BY <2>1 DEF Due, Ahead, Sending
    <2> QED
      BY <2>2 DEF ReachInv, DueInv
  <1>3. Inv => TypeInv
    BY DEF Inv
  <1> QED
    BY <1>1, <1>2, <1>3, InitReachInv, Invariance, ListInvariant, PTL DEF Spec
-----------------------------------------------------------------------------
(* What it takes to panic                                                   *)

\* A channel is closed by the handler's last step.
ClosedInv == \A s \in closed : pc[s] = "done"

\* No stream the publisher has yet to send to is closed.
OpenInv == ~crashed /\ \A p \in Ahead : SendSlots[p] \notin closed

\* No removal ends while a report is being sent: what a store would guarantee
\* that sent its events before it unlocks.
RemovalsWait == \A s \in Streams : Close(s) => ~Sending

\* Only streams that are done are closed.
LEMMA NextClosedInv ==
  ASSUME TypeInv, ClosedInv, [Next]_vars
  PROVE  ClosedInv'
  <1>1. pc \in [Streams -> PCs]
    BY DEF TypeInv, TypeOK
  <1>2. ASSUME NEW s \in Streams, Handler(s) \/ Client(s)
        PROVE  ClosedInv'
    <2>1. CASE Close(s)
      BY <1>1, <2>1 DEF Close, ClosedInv
    <2>2. CASE MoveSlot(s)
      BY <2>2 DEF MoveSlot, ClosedInv, streamVars
    <2>3. CASE Request(s) \/ Subscribe(s) \/ Receive(s) \/ ClientGone(s)
               \/ Unsubscribe(s)
      <3>1. pc[s] # "done" /\ closed' = closed
        BY <2>3 DEF Request, Subscribe, Receive, ClientGone, Unsubscribe, storeVars
      <3>2. \A r \in Streams : r # s => pc'[r] = pc[r]
        BY <1>1, <2>3 DEF Request, Subscribe, Receive, ClientGone, Unsubscribe
      <3>3. closed \subseteq Streams
        BY DEF TypeInv, TypeOK
      <3> QED
        BY <3>1, <3>2, <3>3 DEF ClosedInv
    <2> QED
      BY <1>2, <2>1, <2>2, <2>3 DEF Handler, Client
  <1>3. CASE Create \/ Publisher \/ UNCHANGED vars
    BY <1>3 DEF Create, Publisher, UpdateStep, SetError, SetIP, SendNext, vars,
                storeVars, streamVars, ClosedInv
  <1> QED
    BY <1>2, <1>3 DEF Next

\* The members of the list are open.
LEMMA MembersAreOpen ==
  ASSUME ClosedInv
  PROVE  \A s \in Members : s \in Streams /\ s \notin closed
  BY DEF ClosedInv, Members

\* If removals wait, every step leaves the streams ahead open.
LEMMA NextOpenInv ==
  ASSUME TypeInv, ListInv, ClosedInv, OpenInv, [Next]_vars, RemovalsWait
  PROVE  OpenInv'
  <1>1. /\ send \in Sends /\ send.ev \in Events /\ send.pos \in Nat
        /\ send.len \in Nat /\ nsubs \in Nat /\ job \in Events
    BY DEF TypeInv, TypeOK, Sends, Slots
  <1>2. ASSUME NEW e \in Events, mu = NoStream, Publish(e),
               UNCHANGED <<storeVars, crashed>>
        PROVE  OpenInv'
    <2> DEFINE idle == Idle(e)
    <2>1. idle \in Sends /\ idle.shared = TRUE /\ idle.pos = 1
      BY IdleType
    <2>2. send' = [idle EXCEPT !.len = nsubs]
      BY <1>2 DEF Publish
    <2> HIDE DEF idle
    <2>3. Ahead' = 1 .. nsubs /\ SendSlots' = slots
      BY <1>2, <2>1, <2>2 DEF Ahead, SendSlots, Sends, storeVars
    <2>4. \A p \in 1 .. nsubs : slots[p] \in Members
      BY <1>2 DEF ListInv, Listed
    <2> QED
      BY <1>2, <2>3, <2>4, MembersAreOpen DEF OpenInv, storeVars
  <1>3. CASE UpdateStep
    <2>1. job' \in Events
      BY <1>3, NextTypeInv DEF TypeInv, TypeOK
    <2> QED
      BY <1>2, <1>3, <2>1 DEF UpdateStep, StepEvent
  <1>4. CASE SetError
    <2>1. ErrorEvent(job') \in Events
      <3>1. job' \in Events
        BY NextTypeInv DEF TypeInv, TypeOK
      <3> QED
        BY <3>1 DEF ErrorEvent, Events
    <2> QED
      BY <1>2, <1>4, <2>1 DEF SetError
  <1>5. CASE SendNext
    <2>1. send.pos \in Ahead
      BY <1>1, <1>5 DEF SendNext, Sending, Ahead
    <2>2. ~crashed'
      BY <1>5, <2>1 DEF SendNext, OpenInv
    <2>3. ASSUME NEW p \in Ahead'
          PROVE  p \in Ahead /\ SendSlots'[p] = SendSlots[p]
      <3>1. CASE send.pos = send.len
        <4>1. send'.pos = 1 /\ send'.len = 0
          BY <1>1, <1>5, <3>1, IdleType DEF SendNext
        <4> QED
          BY <2>3, <4>1 DEF Ahead
      <3>2. CASE send.pos # send.len
        <4>1. send' = [send EXCEPT !.pos = @ + 1]
          BY <1>5, <3>2 DEF SendNext
        <4>2. /\ send'.pos = send.pos + 1 /\ send'.len = send.len
              /\ send'.shared = send.shared /\ send'.arr = send.arr
          BY <1>1, <4>1 DEF Sends
        <4>3. p \in Ahead
          BY <1>1, <2>3, <4>2 DEF Ahead
        <4>4. SendSlots' = SendSlots
          BY <1>5, <4>2 DEF SendNext, SendSlots, storeVars
        <4> QED
          BY <4>3, <4>4
      <3> QED
        BY <3>1, <3>2
    <2> QED
      BY <1>5, <2>2, <2>3 DEF SendNext, OpenInv, storeVars
  <1>6. ASSUME NEW s \in Streams, Subscribe(s)
        PROVE  OpenInv'
    <2>1. pc[s] = "snapshot" /\ closed' = closed /\ crashed' = crashed
      BY <1>6 DEF Subscribe
    <2>2. s \notin closed
      BY <2>1 DEF ClosedInv
    <2> QED
      BY <1>6, <2>1, <2>2, SubscribedAhead DEF OpenInv
  <1>7. ASSUME NEW s \in Streams, MoveSlot(s)
        PROVE  OpenInv'
    <2>1. PICK j \in shift.todo : slots' = [slots EXCEPT ![j] = shift.from[j + 1]]
      BY <1>7 DEF MoveSlot
    <2>2. /\ mu # NoStream
          /\ UNCHANGED <<nsubs, send, closed, crashed>>
      BY <1>7, StreamAssumption DEF MoveSlot
    <2>3. j + 1 \in 1 .. nsubs /\ j \in 1 .. Len(slots) /\ slots \in Slots
      BY <1>1, <2>1, <2>2 DEF TypeInv, TypeOK, LockInv, Slots
    <2>4. shift.from[j + 1] \in Members
      BY <2>2, <2>3 DEF ListInv, Listed
    <2>5. \A p \in 1 .. Len(slots) : \/ slots'[p] = slots[p]
                                     \/ slots'[p] = shift.from[j + 1]
      BY <2>1, <2>3 DEF Slots
    <2>6. Ahead' = Ahead
      BY <2>2 DEF Ahead
    <2>7. \A p \in Ahead : \/ SendSlots'[p] = SendSlots[p]
                           \/ SendSlots'[p] = shift.from[j + 1]
      BY <2>2, <2>5, AheadInArray DEF SendSlots
    <2> QED
      BY <2>2, <2>4, <2>6, <2>7, MembersAreOpen DEF OpenInv
  <1>8. ASSUME NEW s \in Streams, Close(s)
        PROVE  OpenInv'
    <2>1. send' = send /\ crashed' = crashed /\ ~Sending
      BY <1>8 DEF Close, RemovalsWait
    <2>2. Ahead' = {}
      BY <1>1, <2>1 DEF Ahead, Sending
    <2> QED
      BY <2>1, <2>2 DEF OpenInv
  <1>9. CASE UNCHANGED <<slots, send, closed, crashed>>
    BY <1>9 DEF OpenInv, Ahead, SendSlots
  <1> QED
    BY <1>3, <1>4, <1>5, <1>6, <1>7, <1>8, <1>9
    DEF Next, Publisher, Handler, Client, Create, SetIP, Request, Receive,
        ClientGone, Unsubscribe, vars, storeVars

\* A removal that ends while a report is being sent is the only thing that
\* makes the process panic: of a store whose removals wait for the sends of a
\* report, "Call Unsubscribe when done" (store.go) would be all a caller need
\* know (NoPanic).
THEOREM OnlyRemovalsPanic == Spec /\ [][RemovalsWait]_vars => []NoPanic
  <1>1. Init => ClosedInv /\ OpenInv
    <2> SUFFICES ASSUME Init PROVE ClosedInv /\ OpenInv
      OBVIOUS
    <2>1. send.pos = 1 /\ send.len = 0
      BY NoJobType, IdleType DEF Init
    <2> QED
      BY <2>1 DEF Init, ClosedInv, OpenInv, Ahead
  <1>2. TypeInv /\ ClosedInv /\ [Next]_vars => ClosedInv'
    BY NextClosedInv
  <1>3. TypeInv /\ ListInv /\ ClosedInv /\ OpenInv /\ [Next]_vars
          /\ [RemovalsWait]_vars => OpenInv'
    <2> SUFFICES ASSUME TypeInv, ListInv, ClosedInv, OpenInv, [Next]_vars,
                        [RemovalsWait]_vars
                 PROVE  OpenInv'
      OBVIOUS
    <2>1. CASE UNCHANGED vars
      BY <2>1 DEF vars, OpenInv, Ahead, SendSlots
    <2> QED
      BY <2>1, NextOpenInv
  <1>4. OpenInv => NoPanic
    BY DEF OpenInv, NoPanic
  <1> QED
    BY <1>1, <1>2, <1>3, <1>4, InitTypeInv, NextTypeInv, ListInvariant, PTL
    DEF Spec
-----------------------------------------------------------------------------
(* What it takes to wait for ever                                           *)

\* A handler that still loops, or will, has not written an outcome.
LoopInv ==
  \A s \in Streams :
    pc[s] \in {"snapshot", "loop"} => ~ EndsStream(last[s])

\* Of the streams of a job that is over, only those that subscribed after its
\* outcome was reported, with an older snapshot, have nothing more to read.
HangsOnlyInGap ==
  ~raced /\ ~crashed /\ ~Sending /\ job.status \in TerminalStatuses =>
    \A s \in Streams :
      pc[s] = "loop" /\ chan[s] = <<>> =>
        since[s] = Rank(job) /\ Rank(last[s]) < Rank(job)

\* Both ways into the loop look at what was written.
LEMMA NextLoopInv ==
  ASSUME TypeInv, LoopInv, [Next]_vars
  PROVE  LoopInv'
  <1>1. pc \in [Streams -> PCs] /\ last \in [Streams -> Events]
    BY DEF TypeInv, TypeOK
  <1>2. ASSUME NEW s \in Streams, Request(s)
        PROVE  LoopInv'
    <2>1. /\ last' = [last EXCEPT ![s] = job]
          /\ pc' = [pc EXCEPT ![s] = IF EndsStream(job) THEN "done"
                                     ELSE "snapshot"]
      BY <1>2 DEF Request
    <2> QED
      BY <1>1, <2>1 DEF LoopInv
  <1>3. ASSUME NEW s \in Streams, Receive(s)
        PROVE  LoopInv'
    <2>1. /\ last' = [last EXCEPT ![s] = Head(chan[s])]
          /\ pc' = [pc EXCEPT ![s] = IF EndsStream(last'[s]) THEN "leaving"
                                     ELSE "loop"]
      BY <1>3 DEF Receive
    <2> QED
      BY <1>1, <2>1 DEF LoopInv
  <1>4. ASSUME NEW s \in Streams,
               Subscribe(s) \/ ClientGone(s) \/ Unsubscribe(s) \/ Close(s)
        PROVE  LoopInv'
    <2>1. /\ last' = last
          /\ \E p \in {"loop", "leaving", "removing", "done"} :
               pc' = [pc EXCEPT ![s] = p] /\ (p = "loop" => pc[s] = "snapshot")
      BY <1>4 DEF Subscribe, ClientGone, Unsubscribe, Close
    <2> QED
      BY <1>1, <2>1 DEF LoopInv
  <1>5. CASE UNCHANGED <<pc, last>>
    BY <1>5 DEF LoopInv
  <1> QED
    BY <1>2, <1>3, <1>4, <1>5
    DEF Next, Publisher, Handler, Client, Create, UpdateStep, SetError, SetIP,
        SendNext, MoveSlot, vars, streamVars

\* Under the hypothesis of ReportsReach, a stream that will never end because it
\* was told no outcome is one that subscribed after it (HangsOnlyInGap): between
\* StreamJobEvents' snapshot and its Subscribe, and nowhere else.
THEOREM OnlyGapHangs ==
  ASSUME Len(Script) <= ChanCap
  PROVE  Spec => []HangsOnlyInGap
  <1>1. Init => LoopInv
    BY DEF Init, LoopInv
  <1>2. TypeInv /\ LoopInv /\ [Next]_vars => LoopInv'
    BY NextLoopInv
  <1>3. TypeInv /\ LoopInv /\ Delivered => HangsOnlyInGap
    <2> SUFFICES ASSUME TypeInv, LoopInv, Delivered, ~raced, ~crashed, ~Sending,
                        job.status \in TerminalStatuses, NEW s \in Streams,
                        pc[s] = "loop", chan[s] = <<>>
                 PROVE  since[s] = Rank(job) /\ Rank(last[s]) < Rank(job)
      BY DEF HangsOnlyInGap
    <2>1. job \in Events /\ last[s] \in Events
      BY DEF TypeInv, TypeOK
    <2>2. Rank(job) = 101
      BY <2>1, RankType
    <2>3. Rank(last[s]) < 101
      <3>1. last[s].status \notin TerminalStatuses
        BY DEF LoopInv, EndsStream
      <3>2. Rank(last[s]) \in Nat /\ Rank(last[s]) <= 101 /\ Rank(last[s]) # 101
        BY <2>1, <3>1, RankType
      <3> QED
        BY <3>2
    <2>4. Newest(s) = last[s]
      BY DEF Newest
    <2>5. Rank(Newest(s)) # Rank(job)
      BY <2>2, <2>3, <2>4, RankType, <2>1
    <2>6. since[s] = Rank(job)
      BY <2>5 DEF Delivered, UpToDate
    <2> QED
      BY <2>2, <2>3, <2>6
  <1> QED
    BY <1>1, <1>2, <1>3, InitTypeInv, NextTypeInv, ReportsReach, PTL DEF Spec
===============================================================================
