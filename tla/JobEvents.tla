------------------------------ MODULE JobEvents ------------------------------
(***************************************************************************)
(* The in-memory job store (backend/jobs/store.go) seen through one job:    *)
(* the goroutine that reports the job's steps (a NATS callback of           *)
(* backend/jobs/worker.go, or the submit handler when the job cannot be     *)
(* queued) and the HTTP requests that stream its events to browsers         *)
(* (StreamJobEvents in backend/handlers/jobs.go).                           *)
(*                                                                          *)
(* A stream is one HTTP request; a browser that reconnects opens another.   *)
(* Every section under Store.mu is one action except the removal of a       *)
(* subscriber: it moves the elements of a slice whose backing array the     *)
(* publisher reads without the lock, so it is modelled store by store.      *)
(*                                                                          *)
(* The subscriber list is modelled as Go keeps it: a backing array (slots,  *)
(* whose length is the capacity) and a length (nsubs).  UpdateStep and      *)
(* SetError copy the slice header under the lock and send after unlocking:  *)
(* they keep reading the same array until append has replaced it.           *)
(***************************************************************************)
EXTENDS JobTypes, FiniteSets

CONSTANTS
  Streams,    \* the requests to GET /api/jobs/:id/events
  NoStream,   \* an empty slot; also: nobody holds the lock
  Script,     \* the steps the worker reports if nothing fails
  ReportsIP,  \* whether the worker looks for the guest's address (VMs only)
  ChanCap     \* the buffer of a subscriber's channel (16 in the code)

(***************************************************************************)
(* What the worker guarantees about the steps it reports: percentages grow, *)
(* and "ready", alone at 100, is the last and never the only one.           *)
(***************************************************************************)
ASSUME ScriptAssumption ==
  /\ Script \in Seq(StepNames)
  /\ Len(Script) > 1
  /\ \A i \in 1 .. Len(Script) :
       /\ StepProgress[Script[i]] \in 1 .. 100
       /\ (StepProgress[Script[i]] = 100) <=> (i = Len(Script))
       /\ (Script[i] = "ready") <=> (i = Len(Script))
  /\ \A i, j \in 1 .. Len(Script) :
       i < j => StepProgress[Script[i]] < StepProgress[Script[j]]

ASSUME StreamAssumption ==
  /\ NoStream \notin Streams
  /\ ReportsIP \in BOOLEAN
  /\ ChanCap \in Nat \ {0}

VARIABLES
  job,      \* the job's record in Store.jobs, as far as events show it
  next,     \* the index in Script of the step the worker reports next
  slots,    \* the backing array of Store.subscribers[id]
  nsubs,    \* the length of Store.subscribers[id]
  send,     \* the publisher's locals: event, subs and the loop's position
  mu,       \* the stream inside Unsubscribe's critical section, or NoStream
  shift,    \* that critical section's memmove: source values, stores to do
  chan,     \* the events buffered in each stream's channel
  closed,   \* the streams whose channel is closed
  pc,       \* where each request's handler is
  last,     \* the last event each handler wrote to its client
  since,    \* history: the job's rank when the stream subscribed
  raced,    \* history: a slot was moved while the publisher was reading
  crashed   \* a goroutine panicked, and the process with it

storeVars  == <<slots, nsubs, mu, shift, closed>>
workerVars == <<job, next>>
streamVars == <<pc, last, since>>
vars == <<job, next, slots, nsubs, send, mu, shift, chan, closed, pc, last,
          since, raced, crashed>>

-----------------------------------------------------------------------------
(* Faulty variants of definitions below: what a slip in the code would make *)
(* of them.  The specification does not use them.                           *)

StepEventWithoutAddress(j) == [j EXCEPT !.ip = FALSE]
FailedFromTheStart(j) == [j EXCEPT !.status = "failed", !.step = StepNone]
EndsStreamOnSuccess(e) == e.status = "completed"
EnqueueInFront(q, e) == <<e>> \o q
MovedSlotsOneShort(i, n) == i + 1 .. n - 1

-----------------------------------------------------------------------------
(* Events *)

\* An event carries the fields of the job a client sees.
Events == [status : JobStatuses, step : StepNames \cup {StepNone}, ip : BOOLEAN]

NoJob == [status |-> "none", step |-> StepNone, ip |-> FALSE]

\* How far an event is along the job: the outcome comes after every step.
Rank(e) == IF e.status \in TerminalStatuses THEN 101 ELSE Progress(e.step)

\* UpdateStep's event copies the job, address included ...
StepEvent(j) == j

\* ... SetError's leaves the address out.
ErrorEvent(j) == [j EXCEPT !.ip = FALSE]

\* The job after SetError: its step and percentage show where it stopped.
Failed(j) == [j EXCEPT !.status = "failed"]

\* The events that close a stream.
EndsStream(e) == e.status \in TerminalStatuses

\* A channel is a queue.
Enqueue(q, e) == Append(q, e)

\* The slots to be overwritten when slot i leaves a list of n.
MovedSlots(i, n) == i .. n - 1

\* The publisher is between unlocking and the end of its send loop.
Sending == send.pos <= send.len

\* The array the publisher's copy of the slice points to.
SendSlots == IF send.shared THEN slots ELSE send.arr

Idle(e) == [ev |-> e, arr |-> <<>>, shared |-> TRUE, len |-> 0, pos |-> 1]

\* Faulty variants: a copy of one subscriber too many; one that is skipped.
PublishToOneMore(e) == send' = [Idle(e) EXCEPT !.len = nsubs + 1]
PublishFromSecond(e) == send' = [Idle(e) EXCEPT !.len = nsubs, !.pos = 2]

\* subs := s.subscribers[id], taken under the lock.
Publish(e) == send' = [Idle(e) EXCEPT !.len = nsubs]

-----------------------------------------------------------------------------
(* The submit handler and the worker *)

Init ==
  /\ job = NoJob
  /\ next = 1
  /\ slots = <<>>
  /\ nsubs = 0
  /\ send = Idle(NoJob)
  /\ mu = NoStream
  /\ shift = [from |-> <<>>, todo |-> {}]
  /\ chan = [s \in Streams |-> <<>>]
  /\ closed = {}
  /\ pc = [s \in Streams |-> "new"]
  /\ last = [s \in Streams |-> NoJob]
  /\ since = [s \in Streams |-> 0]
  /\ raced = FALSE
  /\ crashed = FALSE

\* Store.Create, called by the three submit handlers.
Create ==
  /\ mu = NoStream
  /\ job.status = "none"
  /\ job' = [NoJob EXCEPT !.status = "pending"]
  /\ UNCHANGED <<next, send, chan, storeVars, streamVars, raced, crashed>>

\* Store.UpdateStep up to the unlock.  The worker is one goroutine: it reports
\* its next step only after the previous report's sends are over.
UpdateStep ==
  /\ mu = NoStream
  /\ ~Sending
  /\ job.status \in LiveStatuses
  /\ next <= Len(Script)
  /\ job' = [job EXCEPT !.step = Script[next],
                        !.status = IF Script[next] = "ready"
                                     THEN "completed" ELSE "running"]
  /\ next' = next + 1
  /\ Publish(StepEvent(job'))
  /\ UNCHANGED <<chan, storeVars, streamVars, raced, crashed>>

\* Store.SetError up to the unlock.  Only the errors of some steps end the
\* job, and none after the address was stored; the worker returns after
\* reporting one.
SetError ==
  /\ mu = NoStream
  /\ ~Sending
  /\ job.status \in LiveStatuses
  /\ job.step \in FailingSteps
  /\ ~job.ip
  /\ job' = Failed(job)
  /\ Publish(ErrorEvent(job'))
  /\ UNCHANGED <<next, chan, storeVars, streamVars, raced, crashed>>

\* Store.SetIP: the address is stored, nobody is told.
SetIP ==
  /\ mu = NoStream
  /\ ~Sending
  /\ ReportsIP
  /\ job.status = "running"
  /\ job.step = "waiting_for_running"
  /\ ~job.ip
  /\ job' = [job EXCEPT !.ip = TRUE]
  /\ UNCHANGED <<next, send, chan, storeVars, streamVars, raced, crashed>>

\* One iteration of the send loop, without the lock.  Sending on a closed
\* channel panics; a full buffer is the select's default branch.
SendNext ==
  /\ Sending
  /\ LET t == SendSlots[send.pos] IN
       /\ crashed' = (t \in closed)
       /\ chan' = IF t \notin closed /\ Len(chan[t]) < ChanCap
                    THEN [chan EXCEPT ![t] = Enqueue(@, send.ev)]
                    ELSE chan
  /\ send' = IF send.pos = send.len
               THEN Idle(send.ev) ELSE [send EXCEPT !.pos = @ + 1]
  /\ UNCHANGED <<workerVars, storeVars, streamVars, raced>>

-----------------------------------------------------------------------------
(* The streaming handlers *)

\* StreamJobEvents up to the initial event: the job is read, written to the
\* client, and a job that is already over ends the stream.  The client knows
\* the id from the answer to its submission, so the job exists.
Request(s) ==
  /\ mu = NoStream
  /\ pc[s] = "new"
  /\ job.status # "none"
  /\ last' = [last EXCEPT ![s] = job]
  /\ pc' = [pc EXCEPT ![s] = IF EndsStream(job) THEN "done" ELSE "snapshot"]
  /\ UNCHANGED <<workerVars, send, chan, storeVars, since, raced, crashed>>

\* append(subs, ch): in place while there is capacity, else into a copy of
\* twice the capacity; a publisher still sending keeps the old array.
Grown(s) ==
  LET cap == IF Len(slots) = 0 THEN 1 ELSE 2 * Len(slots) IN
  [i \in 1 .. cap |-> IF i <= nsubs THEN slots[i]
                      ELSE IF i = nsubs + 1 THEN s ELSE NoStream]

\* Store.Subscribe.
Subscribe(s) ==
  /\ mu = NoStream
  /\ pc[s] = "snapshot"
  /\ IF nsubs < Len(slots)
       THEN /\ slots' = [slots EXCEPT ![nsubs + 1] = s]
            /\ UNCHANGED send
       ELSE /\ slots' = Grown(s)
            /\ send' = IF Sending /\ send.shared
                         THEN [send EXCEPT !.arr = slots, !.shared = FALSE]
                         ELSE send
  /\ nsubs' = nsubs + 1
  /\ pc' = [pc EXCEPT ![s] = "loop"]
  /\ since' = [since EXCEPT ![s] = Rank(job)]
  /\ UNCHANGED <<workerVars, mu, shift, chan, closed, last, raced, crashed>>

\* The loop of StreamJobEvents: an event is taken from the channel and written
\* to the client; the job's outcome ends the stream.
Receive(s) ==
  /\ pc[s] = "loop"
  /\ chan[s] # <<>>
  /\ last' = [last EXCEPT ![s] = Head(chan[s])]
  /\ chan' = [chan EXCEPT ![s] = Tail(@)]
  /\ pc' = [pc EXCEPT ![s] = IF EndsStream(last'[s]) THEN "leaving" ELSE "loop"]
  /\ UNCHANGED <<workerVars, send, storeVars, since, raced, crashed>>

\* The other branch of the handler's select: the client went away.
ClientGone(s) ==
  /\ pc[s] = "loop"
  /\ pc' = [pc EXCEPT ![s] = "leaving"]
  /\ UNCHANGED <<workerVars, send, chan, storeVars, last, since, raced,
                 crashed>>

\* Store.Unsubscribe (deferred) locks and finds its channel; the elements
\* after it are about to move down by one.
Unsubscribe(s) ==
  /\ mu = NoStream
  /\ pc[s] = "leaving"
  /\ \E i \in 1 .. nsubs :
       /\ slots[i] = s
       /\ \A j \in 1 .. i - 1 : slots[j] # s
       /\ shift' = [from |-> slots, todo |-> MovedSlots(i, nsubs)]
  /\ mu' = s
  /\ pc' = [pc EXCEPT ![s] = "removing"]
  /\ UNCHANGED <<workerVars, slots, nsubs, send, chan, closed, last, since,
                 raced, crashed>>

\* append(subs[:i], subs[i+1:]...) overwrites the array in place.  Nothing
\* orders its stores for a reader that does not hold the lock.
MoveSlot(s) ==
  /\ mu = s
  /\ \E j \in shift.todo :
       /\ slots' = [slots EXCEPT ![j] = shift.from[j + 1]]
       /\ shift' = [shift EXCEPT !.todo = @ \ {j}]
  /\ raced' = (raced \/ (Sending /\ send.shared))
  /\ UNCHANGED <<workerVars, nsubs, send, mu, chan, closed, streamVars,
                 crashed>>

\* The shorter slice is stored, the channel closed, the lock released.  What
\* was left in the buffer is garbage.
Close(s) ==
  /\ mu = s
  /\ shift.todo = {}
  /\ nsubs' = nsubs - 1
  /\ closed' = closed \cup {s}
  /\ chan' = [chan EXCEPT ![s] = <<>>]
  /\ pc' = [pc EXCEPT ![s] = "done"]
  /\ mu' = NoStream
  /\ shift' = [from |-> <<>>, todo |-> {}]
  /\ UNCHANGED <<workerVars, slots, send, last, since, raced, crashed>>

-----------------------------------------------------------------------------
(* The specification *)

\* The goroutine that publishes this job's events.
Publisher == ~crashed /\ (UpdateStep \/ SetError \/ SetIP \/ SendNext)

\* What a handler does on its own once it holds a request.
Handler(s) ==
  /\ ~crashed
  /\ Subscribe(s) \/ Receive(s) \/ Unsubscribe(s) \/ MoveSlot(s) \/ Close(s)

\* What the browser decides.
Client(s) == ~crashed /\ (Request(s) \/ ClientGone(s))

Next ==
  \/ ~crashed /\ Create
  \/ Publisher
  \/ \E s \in Streams : Handler(s) \/ Client(s)

Spec == Init /\ [][Next]_vars

(***************************************************************************)
(* The goroutines keep running: the worker's calls all have time-outs, the  *)
(* lock is only held for finite sections and the handlers block on nothing  *)
(* but their channel.  Browsers need not connect, and need not disconnect.  *)
(***************************************************************************)
FairSpec ==
  /\ Spec
  /\ WF_vars(Publisher)
  /\ \A s \in Streams : WF_vars(Handler(s))

-----------------------------------------------------------------------------
(* Properties *)

Slots == Seq(Streams \cup {NoStream})

Sends == [ev : Events, arr : Slots, shared : BOOLEAN, len : Nat,
          pos : Nat \ {0}]

PCs == {"new", "snapshot", "loop", "leaving", "removing", "done"}

\* The types of the variables; in particular the list fits its array, and the
\* publisher's position its copy of the slice.
TypeOK ==
  /\ job \in Events
  /\ next \in 1 .. Len(Script) + 1
  /\ slots \in Slots
  /\ nsubs \in 0 .. Len(slots)
  /\ send \in Sends
  /\ send.len <= Len(SendSlots)
  /\ mu \in Streams \cup {NoStream}
  /\ shift \in [from : Slots, todo : SUBSET Nat]
  /\ chan \in [Streams -> Seq(Events)]
  /\ closed \subseteq Streams
  /\ pc \in [Streams -> PCs]
  /\ last \in [Streams -> Events]
  /\ since \in [Streams -> Nat]
  /\ raced \in BOOLEAN
  /\ crashed \in BOOLEAN

\* A browser never sees a job move backwards: whatever streams come and go
\* while events are in flight, each stream shows the job's steps in order, and
\* nothing after its outcome (store.go: UpdateStep, SetError; handlers/jobs.go:
\* StreamJobEvents writes a snapshot first and the events after it).
ClientNeverGoesBack ==
  [][\A s \in Streams : Rank(last'[s]) >= Rank(last[s])]_vars

\* A stream that has shown an outcome showed the job's one: what a client was
\* told of a completed or failed job is never taken back (store.go: SetError;
\* worker.go returns after it).
OutcomeIsFinal ==
  \A s \in Streams :
    last[s].status \in TerminalStatuses => job.status = last[s].status

\* Whenever the lock is free the subscriber list holds exactly the streams
\* that are in their event loop or about to unsubscribe, each once: removals
\* in place and appends into reused capacity lose and duplicate nobody
\* (store.go: Subscribe, Unsubscribe).
ListIsExact ==
  mu = NoStream =>
    /\ {slots[i] : i \in 1 .. nsubs} =
         {s \in Streams : pc[s] \in {"loop", "leaving"}}
    /\ Cardinality({slots[i] : i \in 1 .. nsubs}) = nsubs

\* The newest event of a stream, written to the client or still buffered.
Newest(s) == IF chan[s] = <<>> THEN last[s] ELSE chan[s][Len(chan[s])]

\* The stream has, written or buffered, the job's present state, or nothing
\* was published since it subscribed.
UpToDate(s) == Rank(Newest(s)) = Rank(job) \/ since[s] = Rank(job)

\* Once the sends of a report are over, every stream in its loop is up to date,
\* unless a removal moved the slots under the publisher's eyes: no event is
\* dropped for a full buffer, no subscriber is missed by a list that grew
\* (store.go: the loops of UpdateStep and SetError).
Delivered ==
  ~raced /\ ~crashed /\ ~Sending =>
    \A s \in Streams : pc[s] = "loop" => UpToDate(s)

\* A client told that its machine is ready is told the address the worker
\* found, although finding it published nothing (worker.go: SetIP before the
\* step "ready"; store.go: UpdateStep copies the address).
ReadyCarriesAddress ==
  \A s \in Streams : last[s].status = "completed" => last[s].ip = job.ip

\* A stream that subscribed while the job was going ends by itself once the
\* job does, if no removal raced with a send (handlers/jobs.go: the loop of
\* StreamJobEvents).
SubscribedStreamEnds ==
  \A s \in Streams :
    (pc[s] = "loop" /\ job.status \in LiveStatuses)
      ~> (pc[s] = "done" \/ crashed \/ raced)

\* "StreamJobEvents sends SSE events for a job until it completes or client
\* disconnects" (handlers/jobs.go:41): every stream ends once the job has.
EveryStreamEnds ==
  \A s \in Streams : pc[s] # "new" ~> (pc[s] = "done" \/ crashed)

\* Leaving a stream is harmless to the rest of the process: "Call Unsubscribe
\* when done" (store.go:125) states no other condition.
NoPanic == ~crashed

(* The parts of the inductive invariant that JobEvents_proofs rests on       *)

\* The worker's place in its script agrees with the job it has reported.
WorkerInv ==
  /\ job.status \in {"none", "pending"} => next = 1 /\ job.step = StepNone
  /\ job.status = "running" =>
       /\ next \in 2 .. Len(Script)
       /\ job.step = Script[next - 1]
  /\ job.status = "completed" => job.step = "ready"

\* What an event says is still true of the job, or was before it went on.
EventOK(e) ==
  /\ Rank(e) <= Rank(job)
  /\ e.status \in TerminalStatuses => job.status = e.status
  /\ e.status = "completed" => e.ip = job.ip

\* Only streams that have subscribed are in an array.
OnlySubscribed(a) ==
  \A i \in 1 .. Len(a) :
    a[i] \in Streams => pc[a[i]] \notin {"new", "snapshot"}

\* Every event in flight is true of the job, each stream's events are queued
\* in the job's order behind the last one written, and nothing reaches the
\* channel of a stream that has not subscribed.
EventInv ==
  /\ Sending => EventOK(send.ev) /\ Rank(send.ev) = Rank(job)
  /\ OnlySubscribed(slots) /\ OnlySubscribed(send.arr)
  /\ OnlySubscribed(shift.from)
  /\ \A s \in Streams :
       /\ EventOK(last[s])
       /\ pc[s] \in {"new", "snapshot"} => chan[s] = <<>>
       /\ \A i \in 1 .. Len(chan[s]) :
            /\ EventOK(chan[s][i])
            /\ Rank(last[s]) <= Rank(chan[s][i])
            /\ \A j \in 1 .. i : Rank(chan[s][j]) <= Rank(chan[s][i])

\* The events that are published, and the job behind them, follow the
\* life cycle every reader of the store relies on.
Lifecycle == INSTANCE JobLifecycle
               WITH status <- job.status, progress <- Progress(job.step)
ImplementsLifecycle == Lifecycle!Spec
=============================================================================
