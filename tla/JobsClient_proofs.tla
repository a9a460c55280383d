-------------------------- MODULE JobsClient_proofs --------------------------
(***************************************************************************)
(* Theorems about JobsClient for every set of jobs and guests, every number *)
(* of steps and every number of lost connections, refreshes and restarts.   *)
(***************************************************************************)
EXTENDS JobsClient, TLAPS

-----------------------------------------------------------------------------
(* Facts about events *)

\* A new job and one that is not created are events of no step.
LEMMA NewJobType ==
  /\ NewJob \in JobEvent /\ NotCreated \in JobEvent
  /\ Active(NewJob) /\ ~ Terminal(NewJob)
  BY JobsAssumption DEF NewJob, NotCreated, JobEvent, JobStatus, Active, Terminal

\* A worker's report is an event of a job that runs or has ended.
LEMMA ReportType ==
  ASSUME NEW e, NEW r \in Reports(e)
  PROVE  /\ r \in JobEvent
         /\ Active(r) \/ Terminal(r)
         /\ r.status # "none"
  BY DEF Reports, Active, Terminal

\* No event is both of a running and of an ended job.
LEMMA NotBoth ==
  ASSUME NEW e
  PROVE  ~ (Active(e) /\ Terminal(e))
  BY DEF Active, Terminal

\* An event that says something is of a running or of an ended job.
LEMMA OneOfBoth ==
  ASSUME NEW e \in JobEvent, e.status # "none"
  PROVE  Active(e) \/ Terminal(e)
  BY DEF JobEvent, JobStatus, Active, Terminal

\* Where an event is in its job: the outcome comes after every step.
LEMMA RankType ==
  ASSUME NEW e \in JobEvent
  PROVE  /\ Rank(e) \in Nat
         /\ Rank(e) <= Steps + 1
         /\ Terminal(e) => Rank(e) = Steps + 1
  BY JobsAssumption DEF Rank, JobEvent

\* A report moves a running job on, never back.
LEMMA ReportAdvances ==
  ASSUME NEW e \in JobEvent, Active(e), NEW r \in Reports(e)
  PROVE  Rank(e) <= Rank(r)
  <1>1. ~ Terminal(e)
    BY DEF Active, Terminal
  <1>2. CASE r.status = "running"
    <2>1. r.at = e.at + 1 /\ ~ Terminal(r)
      BY <1>2 DEF Reports, Terminal
    <2> QED
      BY <1>1, <2>1, JobsAssumption DEF Rank, JobEvent
  <1>3. CASE r.status \in {"completed", "failed"}
    BY <1>1, <1>3, JobsAssumption DEF Rank, Terminal, JobEvent
  <1> QED
    BY <1>2, <1>3 DEF Reports

-----------------------------------------------------------------------------
(* Facts about the events on their way *)

\* What a sequence of events has after one is put behind it.
LEMMA AppendElements ==
  ASSUME NEW S, NEW q \in Seq(S), NEW e \in S, NEW i \in DOMAIN Append(q, e)
  PROVE  \/ i \in DOMAIN q /\ Append(q, e)[i] = q[i]
         \/ i = Len(q) + 1 /\ Append(q, e)[i] = e
  OBVIOUS

\* What it has after its first event is taken.
LEMMA TailElements ==
  ASSUME NEW S, NEW q \in Seq(S), q # <<>>
  PROVE  /\ Head(q) = q[1] /\ Head(q) \in S /\ 1 \in DOMAIN q
         /\ Tail(q) \in Seq(S)
         /\ \A i \in DOMAIN Tail(q) : i + 1 \in DOMAIN q /\ Tail(q)[i] = q[i + 1]
  OBVIOUS

-----------------------------------------------------------------------------
(* Type correctness *)

\* Jobs the backend knows have a status, and so has every event on its way.
EventsSay ==
  /\ \A j \in known : server[j].status # "none"
  /\ \A j \in Jobs : \A i \in DOMAIN wire[j] : wire[j][i].status # "none"

TypeInv == TypeOK /\ EventsSay

\* What the bounds leave stays a triple of numbers.
LEMMA BudgetType ==
  ASSUME NEW b \in [drops : Nat, reloads : Nat, restarts : Nat]
  PROVE  /\ b.drops > 0 =>
              [b EXCEPT !.drops = @ - 1]
                \in [drops : Nat, reloads : Nat, restarts : Nat]
         /\ b.reloads > 0 =>
              [b EXCEPT !.reloads = @ - 1]
                \in [drops : Nat, reloads : Nat, restarts : Nat]
         /\ b.restarts > 0 =>
              [b EXCEPT !.restarts = @ - 1]
                \in [drops : Nat, reloads : Nat, restarts : Nat]
  OBVIOUS

LEMMA TypeInit == Init => TypeInv
  <1>1. Init => TypeOK
    BY NewJobType, JobsAssumption DEF Init, TypeOK
  <1> QED
    BY <1>1 DEF Init, TypeInv, EventsSay

\* The handler stores a job.
LEMMA TypeCreate ==
  ASSUME TypeInv, NEW j \in Jobs, Create(j)
  PROVE  TypeInv'
  BY NewJobType
  DEF TypeInv, TypeOK, EventsSay, Create, listVars, streamVars, NewJob

\* A worker reports.
LEMMA TypeWork ==
  ASSUME TypeInv, NEW j \in Jobs, Work(j)
  PROVE  TypeInv'
  <1>1. PICK e \in Reports(server[j]) :
          /\ server' = [server EXCEPT ![j] = e]
          /\ IF conn[j] = "live"
               THEN /\ wire' = [wire EXCEPT ![j] = Append(@, e)]
                    /\ conn' = [conn EXCEPT ![j] =
                                  IF Terminal(e) THEN "ended" ELSE @]
               ELSE UNCHANGED <<wire, conn>>
    BY DEF Work
  <1>2. e \in JobEvent /\ e.status # "none"
    BY ReportType
  <1>3. server' \in [Jobs -> JobEvent] /\ \A k \in known' : server'[k].status # "none"
    BY <1>1, <1>2 DEF TypeInv, TypeOK, EventsSay, Work
  <1>4. conn' \in [Jobs -> {"none", "requested", "snapshot", "live", "ended"}]
    BY <1>1 DEF TypeInv, TypeOK
  <1>5. /\ wire' \in [Jobs -> Seq(JobEvent)]
        /\ \A k \in Jobs : \A i \in DOMAIN wire'[k] : wire'[k][i].status # "none"
    <2>1. CASE conn[j] # "live"
      BY <1>1, <2>1 DEF TypeInv, TypeOK, EventsSay
    <2>2. CASE conn[j] = "live"
      <3>1. wire[j] \in Seq(JobEvent) /\ wire \in [Jobs -> Seq(JobEvent)]
        BY DEF TypeInv, TypeOK
      <3>2. Append(wire[j], e) \in Seq(JobEvent)
        BY <3>1, <1>2
      <3>3. wire' = [wire EXCEPT ![j] = Append(wire[j], e)]
        BY <1>1, <2>2
      <3>4. \A i \in DOMAIN Append(wire[j], e) : Append(wire[j], e)[i].status # "none"
        BY <3>1, <1>2, AppendElements DEF TypeInv, EventsSay
      <3> QED
        BY <3>1, <3>2, <3>3, <3>4 DEF TypeInv, EventsSay
    <2> QED
      BY <2>1, <2>2
  <1> QED
    BY <1>3, <1>4, <1>5 DEF TypeInv, TypeOK, EventsSay, Work, listVars

\* A stream begins, subscribes, or all end with the backend.
LEMMA TypeAccept ==
  ASSUME TypeInv, NEW j \in Jobs, Accept(j)
  PROVE  TypeInv'
  <1>1. server[j] \in JobEvent /\ server[j].status # "none"
    BY DEF TypeInv, TypeOK, EventsSay, Accept
  <1>2. wire' = [wire EXCEPT ![j] = <<server[j]>>]
    BY DEF Accept, Snapshot
  <1>3. wire' \in [Jobs -> Seq(JobEvent)]
    BY <1>1, <1>2 DEF TypeInv, TypeOK
  <1>4. \A k \in Jobs : \A i \in DOMAIN wire'[k] : wire'[k][i].status # "none"
    BY <1>1, <1>2 DEF TypeInv, TypeOK, EventsSay
  <1> QED
    BY <1>3, <1>4 DEF TypeInv, TypeOK, EventsSay, Accept, serverVars, listVars

LEMMA TypeSubscribe ==
  ASSUME TypeInv, NEW j \in Jobs, Subscribe(j)
  PROVE  TypeInv'
  BY DEF TypeInv, TypeOK, EventsSay, Subscribe, serverVars, listVars

LEMMA TypeRestart ==
  ASSUME TypeInv, Restart
  PROVE  TypeInv'
  <1>1. budget' \in [drops : Nat, reloads : Nat, restarts : Nat]
    BY BudgetType DEF TypeInv, TypeOK, Restart
  <1>2. conn' \in [Jobs -> {"none", "requested", "snapshot", "live", "ended"}]
    BY DEF TypeInv, TypeOK, Restart
  <1> QED
    BY <1>1, <1>2 DEF TypeInv, TypeOK, EventsSay, Restart, listVars

\* A dialog adds its job.
LEMMA TypeAddJob ==
  ASSUME TypeInv, NEW j \in Jobs, AddJob(j)
  PROVE  TypeInv'
  <1>1. order' \in Seq(Jobs)
    BY DEF TypeInv, TypeOK, AddJob, Prepend
  <1>2. /\ shown' \in [Jobs -> JobEvent]
        /\ \A k \in listed' : shown'[k].status # "none"
    BY NewJobType DEF TypeInv, TypeOK, AddJob, NewJob
  <1>3. GuestOf[j] \in Guests
    BY JobsAssumption
  <1>4. overlapped' \subseteq Guests
    BY <1>3 DEF TypeInv, TypeOK, AddJob
  <1>5. info' \in [Guests -> Jobs \cup {NoJob}]
    BY <1>3 DEF TypeInv, TypeOK, AddJob
  <1>6. sub' \in [Jobs -> {"none", "open", "closed"}]
        /\ conn' \in [Jobs -> {"none", "requested", "snapshot", "live", "ended"}]
    BY DEF TypeInv, TypeOK, AddJob
  <1>7. listed' \subseteq Jobs
    BY DEF TypeInv, TypeOK, AddJob
  <1> QED
    BY <1>1, <1>2, <1>4, <1>5, <1>6, <1>7
    DEF TypeInv, TypeOK, EventsSay, AddJob, serverVars

\* An event arrives.
LEMMA TypeDeliver ==
  ASSUME TypeInv, NEW j \in Jobs, Deliver(j)
  PROVE  TypeInv'
  <1> DEFINE e == Head(wire[j])
  <1>1. wire \in [Jobs -> Seq(JobEvent)] /\ wire[j] \in Seq(JobEvent) /\ wire[j] # <<>>
    BY DEF TypeInv, TypeOK, Deliver
  <1>2. e \in JobEvent /\ e.status # "none"
    BY <1>1, TailElements DEF TypeInv, EventsSay
  <1>3. /\ shown' \in [Jobs -> JobEvent]
        /\ \A k \in listed' : shown'[k].status # "none"
    BY <1>2 DEF TypeInv, TypeOK, Deliver, Merge
  <1>4. info' \in [Guests -> Jobs \cup {NoJob}]
    BY JobsAssumption DEF TypeInv, TypeOK, Deliver
  <1>5. /\ wire' \in [Jobs -> Seq(JobEvent)]
        /\ \A k \in Jobs : \A i \in DOMAIN wire'[k] : wire'[k][i].status # "none"
    <2>1. CASE EndsWatch(e)
      <3>1. wire' = [wire EXCEPT ![j] = <<>>]
        BY <2>1 DEF Deliver, Close
      <3> QED
        BY <1>1, <3>1 DEF TypeInv, EventsSay
    <2>2. CASE ~ EndsWatch(e)
      <3>1. wire' = [wire EXCEPT ![j] = Tail(wire[j])]
        BY <2>2 DEF Deliver
      <3>2. /\ Tail(wire[j]) \in Seq(JobEvent)
            /\ \A i \in DOMAIN Tail(wire[j]) : Tail(wire[j])[i].status # "none"
        BY <1>1, TailElements DEF TypeInv, EventsSay
      <3> QED
        BY <1>1, <3>1, <3>2 DEF TypeInv, EventsSay
    <2> QED
      BY <2>1, <2>2
  <1>6. /\ sub' \in [Jobs -> {"none", "open", "closed"}]
        /\ conn' \in [Jobs -> {"none", "requested", "snapshot", "live", "ended"}]
    BY DEF TypeInv, TypeOK, Deliver, Close
  <1> QED
    BY <1>3, <1>4, <1>5, <1>6 DEF TypeInv, TypeOK, EventsSay, Deliver, serverVars

\* An event source reports an error.
LEMMA TypeOnError ==
  ASSUME TypeInv, NEW j \in Jobs, OnError(j),
         budget' \in [drops : Nat, reloads : Nat, restarts : Nat]
  PROVE  TypeInv'
  <1>1. wire' = [wire EXCEPT ![j] = <<>>] /\ conn' = [conn EXCEPT ![j] = "none"]
    BY DEF OnError, Close
  <1>2. /\ wire' \in [Jobs -> Seq(JobEvent)]
        /\ \A k \in Jobs : \A i \in DOMAIN wire'[k] : wire'[k][i].status # "none"
    BY <1>1 DEF TypeInv, TypeOK, EventsSay
  <1>3. conn' \in [Jobs -> {"none", "requested", "snapshot", "live", "ended"}]
    BY <1>1 DEF TypeInv, TypeOK
  <1>4. timer' \in [Jobs -> BOOLEAN]
    <2>1. timer' = [timer EXCEPT ![j] = (sub[j] = "open")]
      BY DEF OnError, WillRetry
    <2> QED
      BY <2>1 DEF TypeInv, TypeOK
  <1> QED
    BY <1>2, <1>3, <1>4
    DEF TypeInv, TypeOK, EventsSay, OnError, serverVars, listVars

LEMMA TypeStreamOver ==
  ASSUME TypeInv, NEW j \in Jobs, StreamOver(j)
  PROVE  TypeInv'
  BY TypeOnError DEF StreamOver, TypeInv, TypeOK

LEMMA TypeDrop ==
  ASSUME TypeInv, NEW j \in Jobs, Drop(j)
  PROVE  TypeInv'
  BY TypeOnError, BudgetType DEF Drop, TypeInv, TypeOK

\* The timer fires.
LEMMA TypeConnect ==
  ASSUME TypeInv, NEW j \in Jobs, Connect(j)
  PROVE  TypeInv'
  BY DEF TypeInv, TypeOK, EventsSay, Connect, serverVars, listVars

LEMMA TypeClear ==
  ASSUME TypeInv, ClearCompleted
  PROVE  TypeInv'
  BY DEF TypeInv, TypeOK, EventsSay, ClearCompleted, serverVars, streamVars

LEMMA TypeReload ==
  ASSUME TypeInv, Reload
  PROVE  TypeInv'
  <1>1. budget' \in [drops : Nat, reloads : Nat, restarts : Nat]
    BY BudgetType DEF TypeInv, TypeOK, Reload
  <1>2. wire' = [k \in Jobs |-> <<>>]
    BY DEF Reload
  <1>3. /\ wire' \in [Jobs -> Seq(JobEvent)]
        /\ \A k \in Jobs : \A i \in DOMAIN wire'[k] : wire'[k][i].status # "none"
    BY <1>2
  <1> QED
    BY <1>1, <1>3 DEF TypeInv, TypeOK, EventsSay, Reload, serverVars

LEMMA TypeStep == TypeInv /\ [Next]_vars => TypeInv'
  <1> SUFFICES ASSUME TypeInv, [Next]_vars
               PROVE  TypeInv'
    OBVIOUS
  <1>1. CASE UNCHANGED vars
    BY <1>1 DEF TypeInv, TypeOK, EventsSay, vars, serverVars, listVars, streamVars
  <1>2. CASE \E j \in Jobs :
               \/ Create(j) \/ Work(j) \/ Accept(j) \/ Subscribe(j)
               \/ AddJob(j) \/ Deliver(j) \/ StreamOver(j) \/ Drop(j) \/ Connect(j)
    BY <1>2, TypeCreate, TypeWork, TypeAccept, TypeSubscribe, TypeAddJob,
       TypeDeliver, TypeStreamOver, TypeDrop, TypeConnect
  <1>3. CASE Restart \/ ClearCompleted \/ Reload
    BY <1>3, TypeRestart, TypeClear, TypeReload
  <1> QED
    BY <1>1, <1>2, <1>3 DEF Next

\* The context's list, the closures of apiSSE and the store keep their types,
\* and no listed job loses its status.
THEOREM TypeCorrect == Spec => []TypeOK
  <1>1. TypeInv => TypeOK
    BY DEF TypeInv
  <1> QED
    BY <1>1, TypeInit, TypeStep, PTL DEF Spec

-----------------------------------------------------------------------------
(* Streams *)

(***************************************************************************)
(* apiSSE's closure is open as long as its job is listed without an         *)
(* outcome; an open one has a connection or will have one, and only an      *)
(* open one has a connection with events on it.  WatchedWhileActive alone   *)
(* is not inductive: it does not say that an event can only come to a job   *)
(* that is listed.                                                          *)
(***************************************************************************)
StreamInv ==
  \A j \in Jobs :
    /\ sub[j] = "open" <=> j \in listed /\ Active(shown[j])
    /\ sub[j] = "open" => conn[j] # "none" \/ timer[j]
    /\ conn[j] # "none" => sub[j] = "open"
    /\ wire[j] # <<>> => conn[j] # "none"

LEMMA StreamInit == Init => StreamInv
  BY DEF Init, StreamInv, NotCreated, Active

LEMMA StreamImplies == StreamInv => WatchedWhileActive
  BY DEF StreamInv, WatchedWhileActive, Watched

\* A step of the backend opens and closes no closure.
LEMMA StreamBackend ==
  ASSUME TypeInv, StreamInv, NEW j \in Jobs,
         Create(j) \/ Work(j) \/ Accept(j) \/ Subscribe(j)
  PROVE  StreamInv'
  <1>1. CASE Create(j)
    BY <1>1 DEF StreamInv, Create, listVars, streamVars
  <1>2. CASE Work(j)
    <2>1. sub' = sub /\ timer' = timer /\ listed' = listed /\ shown' = shown
      BY <1>2 DEF Work, listVars
    <2>2. CASE conn[j] # "live"
      BY <1>2, <2>1, <2>2 DEF StreamInv, Work
    <2>3. CASE conn[j] = "live"
      <3>1. /\ conn'[j] # "none"
            /\ \A k \in Jobs \ {j} : conn'[k] = conn[k] /\ wire'[k] = wire[k]
        BY <1>2, <2>3 DEF Work, TypeInv, TypeOK
      <3> QED
        BY <2>1, <2>3, <3>1 DEF StreamInv
    <2> QED
      BY <2>2, <2>3
  <1>3. CASE Accept(j)
    BY <1>3 DEF StreamInv, Accept, listVars, TypeInv, TypeOK
  <1>4. CASE Subscribe(j)
    BY <1>4 DEF StreamInv, Subscribe, listVars, TypeInv, TypeOK
  <1> QED
    BY <1>1, <1>2, <1>3, <1>4

\* The dialog's job is listed and watched at once.
LEMMA StreamAddJob ==
  ASSUME TypeInv, StreamInv, NEW j \in Jobs, AddJob(j)
  PROVE  StreamInv'
  BY NewJobType DEF StreamInv, AddJob, TypeInv, TypeOK

\* An outcome ends the watch of its job; another event does not.
LEMMA StreamDeliver ==
  ASSUME TypeInv, StreamInv, NEW j \in Jobs, Deliver(j)
  PROVE  StreamInv'
  <1> DEFINE e == Head(wire[j])
  <1>1. wire[j] \in Seq(JobEvent) /\ wire[j] # <<>>
    BY DEF TypeInv, TypeOK, Deliver
  <1>2. e \in JobEvent /\ e.status # "none"
    BY <1>1, TailElements DEF TypeInv, EventsSay
  <1>3. conn[j] # "none" /\ sub[j] = "open" /\ j \in listed
    BY <1>1 DEF StreamInv
  <1>4. shown' = [shown EXCEPT ![j] = e] /\ listed' = listed /\ timer' = timer
    BY <1>3 DEF Deliver, Merge
  <1> HIDE DEF e
  <1>5. CASE Terminal(e)
    <2>1. /\ sub' = [sub EXCEPT ![j] = "closed"]
          /\ conn' = [conn EXCEPT ![j] = "none"]
          /\ wire' = [wire EXCEPT ![j] = <<>>]
      BY <1>5 DEF Deliver, EndsWatch, Close, e
    <2> QED
      BY <1>4, <1>5, <2>1, NotBoth DEF StreamInv, TypeInv, TypeOK
  <1>6. CASE ~ Terminal(e)
    <2>1. sub' = sub /\ conn' = conn /\ wire' = [wire EXCEPT ![j] = Tail(@)]
      BY <1>6 DEF Deliver, EndsWatch, e
    <2>2. Active(e)
      BY <1>2, <1>6, OneOfBoth
    <2> QED
      BY <1>3, <1>4, <2>1, <2>2 DEF StreamInv, TypeInv, TypeOK
  <1> QED
    BY <1>5, <1>6

\* An error leaves an open closure its timer.
LEMMA StreamError ==
  ASSUME TypeInv, StreamInv, NEW j \in Jobs, OnError(j)
  PROVE  StreamInv'
  BY DEF StreamInv, OnError, Close, WillRetry, listVars, TypeInv, TypeOK

LEMMA StreamConnect ==
  ASSUME TypeInv, StreamInv, NEW j \in Jobs, Connect(j)
  PROVE  StreamInv'
  BY DEF StreamInv, Connect, listVars, TypeInv, TypeOK

\* A restart ends connections on the backend's side only.
LEMMA StreamRestart ==
  ASSUME TypeInv, StreamInv, Restart
  PROVE  StreamInv'
  BY DEF StreamInv, Restart, listVars, TypeInv, TypeOK

\* What is cleared is not watched any more.
LEMMA StreamClear ==
  ASSUME TypeInv, StreamInv, ClearCompleted
  PROVE  StreamInv'
  BY NotBoth DEF StreamInv, ClearCompleted, streamVars

\* A refresh leaves neither jobs nor streams.
LEMMA StreamReload ==
  ASSUME TypeInv, StreamInv, Reload
  PROVE  StreamInv'
  BY DEF StreamInv, Reload

LEMMA StreamStep == TypeInv /\ StreamInv /\ [Next]_vars => StreamInv'
  <1> SUFFICES ASSUME TypeInv, StreamInv, [Next]_vars
               PROVE  StreamInv'
    OBVIOUS
  <1>1. CASE UNCHANGED vars
    BY <1>1 DEF StreamInv, vars, listVars, streamVars
  <1>2. CASE \E j \in Jobs : StreamOver(j) \/ Drop(j)
    BY <1>2, StreamError DEF StreamOver, Drop
  <1>3. CASE \E j \in Jobs :
               \/ Create(j) \/ Work(j) \/ Accept(j) \/ Subscribe(j)
               \/ AddJob(j) \/ Deliver(j) \/ Connect(j)
    BY <1>3, StreamBackend, StreamAddJob, StreamDeliver, StreamConnect
  <1>4. CASE Restart \/ ClearCompleted \/ Reload
    BY <1>4, StreamRestart, StreamClear, StreamReload
  <1> QED
    BY <1>1, <1>2, <1>3, <1>4 DEF Next

\* A job's stream is open, or about to be reopened, exactly as long as the job
\* is listed without an outcome (addJob, updateJob, clearCompleted and apiSSE).
THEOREM WatchCorrect == Spec => []WatchedWhileActive
  <1>1. Init => TypeInv /\ StreamInv
    BY TypeInit, StreamInit
  <1>2. TypeInv /\ StreamInv /\ [Next]_vars => (TypeInv /\ StreamInv)'
    BY TypeStep, StreamStep
  <1> QED
    BY <1>1, <1>2, StreamImplies, PTL DEF Spec

-----------------------------------------------------------------------------
(* Progress and outcomes *)

\* Event a is no later in its job than b, and if it is an outcome, b is it too.
Behind(a, b) == Rank(a) <= Rank(b) /\ (Terminal(a) => a.status = b.status)

(***************************************************************************)
(* What is shown of a listed job is behind what is on its way, which is in  *)
(* the order of the job's reports and behind the store; nothing is listed   *)
(* that was not added.                                                      *)
(***************************************************************************)
ProgressInv ==
  /\ \A j \in listed : \E i \in DOMAIN order : order[i] = j
  /\ \A j \in Jobs :
       /\ j \in listed => Behind(shown[j], server[j])
       /\ \A i \in DOMAIN wire[j] :
            /\ Behind(wire[j][i], server[j])
            /\ j \in listed => Rank(shown[j]) <= Rank(wire[j][i])
            /\ \A k \in DOMAIN wire[j] :
                 i <= k => Rank(wire[j][i]) <= Rank(wire[j][k])

\* What is behind a running job is behind its next report.
LEMMA BehindReport ==
  ASSUME NEW a \in JobEvent, NEW e \in JobEvent, Active(e), Behind(a, e),
         NEW r \in Reports(e)
  PROVE  Behind(a, r)
  <1>1. ~ Terminal(a)
    BY DEF Behind, Active, Terminal
  <1>2. Rank(e) <= Rank(r) /\ r \in JobEvent
    BY ReportAdvances, ReportType
  <1>3. Rank(a) \in Nat /\ Rank(e) \in Nat /\ Rank(r) \in Nat
    BY <1>2, RankType
  <1> QED
    BY <1>1, <1>2, <1>3 DEF Behind

\* A new job is behind everything, and what is behind one that is not created
\* is behind it.
LEMMA BehindNew ==
  ASSUME NEW a \in JobEvent
  PROVE  /\ Behind(NewJob, a)
         /\ Behind(a, NotCreated) => Behind(a, NewJob)
         /\ Behind(a, a)
  <1>1. Rank(NewJob) = 0 /\ Rank(NotCreated) = 0
    BY DEF Rank, NewJob, NotCreated, Terminal
  <1>2. Rank(a) \in Nat
    BY RankType
  <1> QED
    BY <1>1, <1>2, NewJobType DEF Behind, NotCreated, Terminal

LEMMA ProgressInit == Init => ProgressInv
  BY DEF Init, ProgressInv

LEMMA ProgressImplies == ProgressInv /\ TypeInv => ShownOutcomeIsReal
  BY DEF ProgressInv, TypeInv, TypeOK, ShownOutcomeIsReal, Behind

LEMMA ProgressCreate ==
  ASSUME TypeInv, ProgressInv, NEW j \in Jobs, Create(j)
  PROVE  ProgressInv'
  <1>1. /\ listed' = listed /\ shown' = shown /\ wire' = wire /\ order' = order
        /\ server[j] = NotCreated /\ server' = [server EXCEPT ![j] = NewJob]
    BY DEF Create, listVars, streamVars
  <1>2. \A a \in JobEvent : Behind(a, server[j]) => Behind(a, server'[j])
    BY <1>1, BehindNew DEF TypeInv, TypeOK
  <1>3. /\ shown[j] \in JobEvent /\ wire[j] \in Seq(JobEvent)
        /\ \A i \in DOMAIN wire[j] : wire[j][i] \in JobEvent
        /\ \A k \in Jobs : k # j => server'[k] = server[k]
    BY <1>1 DEF TypeInv, TypeOK
  <1> QED
    BY <1>1, <1>2, <1>3 DEF ProgressInv

LEMMA ProgressWork ==
  ASSUME TypeInv, ProgressInv, NEW j \in Jobs, Work(j)
  PROVE  ProgressInv'
  <1>1. PICK e \in Reports(server[j]) :
          /\ server' = [server EXCEPT ![j] = e]
          /\ IF conn[j] = "live"
               THEN wire' = [wire EXCEPT ![j] = Append(@, e)]
               ELSE UNCHANGED wire
    BY DEF Work
  <1>2. listed' = listed /\ shown' = shown /\ order' = order /\ Active(server[j])
    BY DEF Work, listVars
  <1>3. e \in JobEvent /\ server[j] \in JobEvent
    BY ReportType DEF TypeInv, TypeOK
  <1>4. /\ server'[j] = e
        /\ \A k \in Jobs : k # j => server'[k] = server[k] /\ wire'[k] = wire[k]
    BY <1>1 DEF TypeInv, TypeOK
  <1>5. /\ shown[j] \in JobEvent /\ wire[j] \in Seq(JobEvent)
        /\ \A i \in DOMAIN wire[j] : wire[j][i] \in JobEvent
    BY DEF TypeInv, TypeOK
  <1>6. \A a \in JobEvent : Behind(a, server[j]) => Behind(a, e)
    BY <1>2, <1>3, BehindReport
  <1>7. j \in listed => Behind(shown[j], e)
    BY <1>5, <1>6 DEF ProgressInv
  <1>8. \A i \in DOMAIN wire[j] : Behind(wire[j][i], e)
    BY <1>5, <1>6 DEF ProgressInv
  <1>9. \A i \in DOMAIN wire'[j] :
          /\ Behind(wire'[j][i], e)
          /\ j \in listed => Rank(shown[j]) <= Rank(wire'[j][i])
          /\ \A k \in DOMAIN wire'[j] :
               i <= k => Rank(wire'[j][i]) <= Rank(wire'[j][k])
    <2>1. CASE conn[j] # "live"
      BY <1>1, <2>1, <1>8 DEF ProgressInv
    <2>2. CASE conn[j] = "live"
      <3>1. wire'[j] = Append(wire[j], e)
        BY <1>1, <2>2 DEF TypeInv, TypeOK
      <3>2. Behind(e, e) /\ Rank(e) \in Nat
        BY <1>3, BehindNew, RankType
      <3>3. \A i \in DOMAIN wire'[j] :
              \/ i \in DOMAIN wire[j] /\ wire'[j][i] = wire[j][i]
              \/ i = Len(wire[j]) + 1 /\ wire'[j][i] = e
        BY <3>1, <1>3, <1>5, AppendElements
      <3>4. ASSUME NEW i \in DOMAIN wire'[j], NEW k \in DOMAIN wire'[j], i <= k
            PROVE  Rank(wire'[j][i]) <= Rank(wire'[j][k])
        <4>1. CASE i \in DOMAIN wire[j] /\ k \in DOMAIN wire[j]
          <5>1. wire'[j][i] = wire[j][i] /\ wire'[j][k] = wire[j][k]
            BY <4>1, <3>3, <1>5
          <5> QED
            BY <5>1, <4>1, <3>4 DEF ProgressInv
        <4>2. CASE i \in DOMAIN wire[j] /\ k = Len(wire[j]) + 1
          <5>1. wire'[j][i] = wire[j][i] /\ wire'[j][k] = e
            BY <4>2, <3>3, <1>5
          <5> QED
            BY <5>1, <4>2, <1>8 DEF Behind
        <4>3. CASE i = Len(wire[j]) + 1
          <5>1. k = i
            BY <4>3, <3>3, <3>4, <1>5
          <5>2. wire'[j][i] = e
            BY <4>3, <3>3, <1>5
          <5> QED
            BY <5>1, <5>2, <3>2
        <4> QED
          BY <4>1, <4>2, <4>3, <3>3
      <3>5. ASSUME NEW i \in DOMAIN wire'[j]
            PROVE  /\ Behind(wire'[j][i], e)
                   /\ j \in listed => Rank(shown[j]) <= Rank(wire'[j][i])
        <4>1. CASE i \in DOMAIN wire[j] /\ wire'[j][i] = wire[j][i]
          BY <4>1, <1>8 DEF ProgressInv
        <4>2. CASE wire'[j][i] = e
          BY <4>2, <3>2, <1>7 DEF Behind
        <4> QED
          BY <4>1, <4>2, <3>3
      <3> QED
        BY <3>4, <3>5
    <2> QED
      BY <2>1, <2>2
  <1> QED
    BY <1>2, <1>4, <1>7, <1>9 DEF ProgressInv

\* The snapshot is behind the store, and what is shown behind it.
LEMMA ProgressAccept ==
  ASSUME TypeInv, ProgressInv, NEW j \in Jobs, Accept(j)
  PROVE  ProgressInv'
  <1>1. /\ server' = server /\ listed' = listed /\ shown' = shown
        /\ order' = order /\ wire' = [wire EXCEPT ![j] = <<server[j]>>]
    BY DEF Accept, Snapshot, serverVars, listVars
  <1>2. server[j] \in JobEvent
    BY DEF TypeInv, TypeOK
  <1>3. Behind(server[j], server[j]) /\ Rank(server[j]) \in Nat
    BY <1>2, BehindNew, RankType
  <1>4. wire'[j] = <<server[j]>> /\ \A k \in Jobs : k # j => wire'[k] = wire[k]
    BY <1>1 DEF TypeInv, TypeOK
  <1>5. \A i \in DOMAIN wire'[j] : wire'[j][i] = server[j]
    BY <1>4
  <1>6. j \in listed => Rank(shown[j]) <= Rank(server[j])
    BY DEF ProgressInv, Behind
  <1> QED
    BY <1>1, <1>3, <1>4, <1>5, <1>6 DEF ProgressInv

\* The dialog's job is new to the list.
LEMMA ProgressAddJob ==
  ASSUME TypeInv, ProgressInv, NEW j \in Jobs, AddJob(j)
  PROVE  ProgressInv'
  <1>1. /\ server' = server /\ wire' = wire /\ listed' = listed \cup {j}
        /\ shown' = [shown EXCEPT ![j] = NewJob] /\ order' = <<j>> \o order
    BY DEF AddJob, Prepend, serverVars
  <1>2. /\ order'[1] = j /\ 1 \in DOMAIN order'
        /\ \A i \in DOMAIN order : i + 1 \in DOMAIN order'
                                   /\ order'[i + 1] = order[i]
    BY <1>1 DEF TypeInv, TypeOK
  <1>3. \A k \in listed' : \E i \in DOMAIN order' : order'[i] = k
    BY <1>1, <1>2 DEF ProgressInv
  <1>4. shown'[j] = NewJob /\ \A k \in Jobs : k # j => shown'[k] = shown[k]
    BY <1>1 DEF TypeInv, TypeOK
  <1>5. Behind(NewJob, server[j])
    BY BehindNew DEF TypeInv, TypeOK
  <1>6. \A i \in DOMAIN wire[j] : Rank(NewJob) <= Rank(wire[j][i])
    BY BehindNew DEF TypeInv, TypeOK, Behind
  <1> QED
    BY <1>1, <1>3, <1>4, <1>5, <1>6 DEF ProgressInv

\* The event that arrives is behind those after it.
LEMMA ProgressDeliver ==
  ASSUME TypeInv, ProgressInv, NEW j \in Jobs, Deliver(j)
  PROVE  ProgressInv'
  <1> DEFINE e == Head(wire[j])
  <1>1. wire[j] \in Seq(JobEvent) /\ wire[j] # <<>>
    BY DEF TypeInv, TypeOK, Deliver
  <1>2. /\ e = wire[j][1] /\ e \in JobEvent /\ 1 \in DOMAIN wire[j]
        /\ \A i \in DOMAIN Tail(wire[j]) :
             i + 1 \in DOMAIN wire[j] /\ Tail(wire[j])[i] = wire[j][i + 1]
    BY <1>1, TailElements
  <1>3. /\ server' = server /\ listed' = listed /\ order' = order
        /\ shown' = IF j \in listed THEN [shown EXCEPT ![j] = e] ELSE shown
    BY DEF Deliver, Merge, serverVars
  <1>4. \/ wire' = [wire EXCEPT ![j] = <<>>]
        \/ wire' = [wire EXCEPT ![j] = Tail(wire[j])]
    BY DEF Deliver, Close
  <1> HIDE DEF e
  <1>5. /\ \A k \in Jobs : k # j => wire'[k] = wire[k] /\ shown'[k] = shown[k]
        /\ j \in listed => shown'[j] = e
    BY <1>3, <1>4 DEF TypeInv, TypeOK
  <1>6. j \in listed' => Behind(shown'[j], server'[j])
    BY <1>2, <1>3, <1>5 DEF ProgressInv
  <1>7. \A i \in DOMAIN wire'[j] :
          /\ Behind(wire'[j][i], server[j])
          /\ Rank(e) <= Rank(wire'[j][i])
          /\ \A k \in DOMAIN wire'[j] :
               i <= k => Rank(wire'[j][i]) <= Rank(wire'[j][k])
    <2>1. CASE wire' = [wire EXCEPT ![j] = <<>>]
      BY <2>1 DEF TypeInv, TypeOK
    <2>2. CASE wire' = [wire EXCEPT ![j] = Tail(wire[j])]
      <3>1. wire'[j] = Tail(wire[j])
        BY <2>2 DEF TypeInv, TypeOK
      <3>2. ASSUME NEW i \in DOMAIN wire'[j]
            PROVE  /\ Behind(wire'[j][i], server[j])
                   /\ Rank(e) <= Rank(wire'[j][i])
        <4>1. /\ i + 1 \in DOMAIN wire[j] /\ wire'[j][i] = wire[j][i + 1]
              /\ 1 <= i + 1
          BY <3>1, <3>2, <1>1, <1>2
        <4> QED
          BY <4>1, <1>2 DEF ProgressInv
      <3>3. ASSUME NEW i \in DOMAIN wire'[j], NEW k \in DOMAIN wire'[j], i <= k
            PROVE  Rank(wire'[j][i]) <= Rank(wire'[j][k])
        <4>1. /\ i + 1 \in DOMAIN wire[j] /\ wire'[j][i] = wire[j][i + 1]
              /\ k + 1 \in DOMAIN wire[j] /\ wire'[j][k] = wire[j][k + 1]
              /\ i + 1 <= k + 1
          BY <3>1, <3>3, <1>1, <1>2
        <4> QED
          BY <4>1 DEF ProgressInv
      <3> QED
        BY <3>2, <3>3
    <2> QED
      BY <1>4, <2>1, <2>2
  <1> QED
    BY <1>3, <1>5, <1>6, <1>7 DEF ProgressInv

LEMMA ProgressError ==
  ASSUME TypeInv, ProgressInv, NEW j \in Jobs, OnError(j)
  PROVE  ProgressInv'
  <1>1. /\ server' = server /\ listed' = listed /\ shown' = shown
        /\ order' = order /\ wire' = [wire EXCEPT ![j] = <<>>]
    BY DEF OnError, Close, serverVars, listVars
  <1>2. wire'[j] = <<>> /\ \A k \in Jobs : k # j => wire'[k] = wire[k]
    BY <1>1 DEF TypeInv, TypeOK
  <1> QED
    BY <1>1, <1>2 DEF ProgressInv

LEMMA ProgressRest ==
  ASSUME TypeInv, ProgressInv,
         \/ \E j \in Jobs : Subscribe(j) \/ Connect(j)
         \/ Restart \/ ClearCompleted \/ Reload
         \/ UNCHANGED vars
  PROVE  ProgressInv'
  <1>1. server' = server /\ shown' = shown /\ order' = order /\ listed' \subseteq listed
    BY DEF Subscribe, Connect, Restart, ClearCompleted, Reload, vars, serverVars,
           listVars
  <1>2. wire' = wire \/ wire' = [j \in Jobs |-> <<>>]
    BY DEF Subscribe, Connect, Restart, ClearCompleted, Reload, vars, streamVars
  <1> QED
    BY <1>1, <1>2 DEF ProgressInv

LEMMA ProgressStep == TypeInv /\ ProgressInv /\ [Next]_vars => ProgressInv'
  <1> SUFFICES ASSUME TypeInv, ProgressInv, [Next]_vars
               PROVE  ProgressInv'
    OBVIOUS
  <1>1. CASE \E j \in Jobs : StreamOver(j) \/ Drop(j)
    BY <1>1, ProgressError DEF StreamOver, Drop
  <1>2. CASE \E j \in Jobs :
               Create(j) \/ Work(j) \/ Accept(j) \/ AddJob(j) \/ Deliver(j)
    BY <1>2, ProgressCreate, ProgressWork, ProgressAccept, ProgressAddJob,
       ProgressDeliver
  <1>3. CASE \/ \E j \in Jobs : Subscribe(j) \/ Connect(j)
             \/ Restart \/ ClearCompleted \/ Reload
             \/ UNCHANGED vars
    BY <1>3, ProgressRest
  <1> QED
    BY <1>1, <1>2, <1>3 DEF Next

\* An outcome the list shows is the job's (updateJob), across reconnections,
\* refreshes of the page and restarts of the backend.
THEOREM OutcomeCorrect == Spec => []ShownOutcomeIsReal
  <1>1. Init => TypeInv /\ ProgressInv
    BY TypeInit, ProgressInit
  <1>2. TypeInv /\ ProgressInv /\ [Next]_vars => (TypeInv /\ ProgressInv)'
    BY TypeStep, ProgressStep
  <1> QED
    BY <1>1, <1>2, ProgressImplies, PTL DEF Spec

\* Every step leaves a listed job where it is or further on.
LEMMA StepNeverGoesBack ==
  ASSUME TypeInv, StreamInv, ProgressInv, [Next]_vars,
         NEW j \in listed, j \in listed'
  PROVE  /\ Rank(shown[j]) <= Rank(shown'[j])
         /\ Terminal(shown[j]) => shown'[j] = shown[j]
  <1>1. j \in Jobs /\ Rank(shown[j]) \in Nat
    BY RankType DEF TypeInv, TypeOK
  <1>2. CASE shown'[j] = shown[j]
    BY <1>1, <1>2
  <1>3. CASE \E k \in Jobs : AddJob(k)
    <2>1. PICK k \in Jobs : AddJob(k)
      BY <1>3
    <2>2. k # j
      BY <2>1 DEF AddJob, ProgressInv
    <2> QED
      BY <1>1, <2>1, <2>2 DEF AddJob, TypeInv, TypeOK
  <1>4. CASE \E k \in Jobs : Deliver(k)
    <2>1. PICK k \in Jobs : Deliver(k)
      BY <1>4
    <2>2. CASE k # j
      BY <1>1, <2>1, <2>2 DEF Deliver, TypeInv, TypeOK
    <2>3. CASE k = j
      <3>1. wire[j] \in Seq(JobEvent) /\ wire[j] # <<>>
        BY <2>1, <2>3 DEF Deliver, TypeInv, TypeOK
      <3>2. Head(wire[j]) = wire[j][1] /\ 1 \in DOMAIN wire[j]
        BY <3>1, TailElements
      <3>3. shown'[j] = wire[j][1]
        BY <1>1, <2>1, <2>3, <3>2 DEF Deliver, Merge, TypeInv, TypeOK
      <3>4. Active(shown[j])
        BY <1>1, <3>1 DEF StreamInv
      <3> QED
        BY <1>1, <3>2, <3>3, <3>4, NotBoth DEF ProgressInv
    <2> QED
      BY <2>2, <2>3
  <1> QED
    BY <1>2, <1>3, <1>4
    DEF Next, Create, Work, Accept, Subscribe, StreamOver, Drop, OnError, Connect,
        Restart, ClearCompleted, Reload, vars, listVars

\* The list never shows a job going back, and an outcome stays.
THEOREM NeverGoesBack == Spec => ShownNeverGoesBack
  <1>1. Init => TypeInv /\ StreamInv /\ ProgressInv
    BY TypeInit, StreamInit, ProgressInit
  <1>2. TypeInv /\ StreamInv /\ ProgressInv /\ [Next]_vars
          => (TypeInv /\ StreamInv /\ ProgressInv)'
    BY TypeStep, StreamStep, ProgressStep
  <1>3. TypeInv /\ StreamInv /\ ProgressInv /\ [Next]_vars
          => [\A j \in listed \cap listed' :
                /\ Rank(shown[j]) <= Rank(shown'[j])
                /\ Terminal(shown[j]) => shown'[j] = shown[j]]_vars
    BY StepNeverGoesBack
  <1> QED
    BY <1>1, <1>2, <1>3, PTL DEF Spec, ShownNeverGoesBack

-----------------------------------------------------------------------------
(* Build information *)

(***************************************************************************)
(* RefreshChangesNothing is about the first job of a guest in the list;     *)
(* what keeps it true when that job is cleared is that all the others have  *)
(* ended, and are cleared with it.                                          *)
(***************************************************************************)
Stored(g, k) ==
  /\ k \in Places(g)
  /\ order[k] = info[g]
  /\ \A i \in Places(g) : k <= i /\ (i # k => ~ Active(shown[order[i]]))

InfoInv ==
  \A g \in Guests \ overlapped : Places(g) # {} => \E k \in Places(g) : Stored(g, k)

LEMMA InfoInit == Init => InfoInv
  BY DEF Init, InfoInv, Places

\* Places are numbers.
LEMMA PlacesType ==
  ASSUME TypeInv, NEW g
  PROVE  /\ Places(g) \in SUBSET Nat
         /\ \A i \in Places(g) : /\ i \in DOMAIN order /\ order[i] \in listed
                                 /\ order[i] \in Jobs /\ GuestOf[order[i]] = g
  BY DEF Places, TypeInv, TypeOK

LEMMA InfoImplies == TypeInv /\ InfoInv => RefreshChangesNothing
  <1> SUFFICES ASSUME TypeInv, InfoInv,
                      NEW g \in Guests, g \notin overlapped, Places(g) # {}
               PROVE  Newest(g) = info[g]
    BY DEF RefreshChangesNothing
  <1> DEFINE n == CHOOSE i \in Places(g) : \A k \in Places(g) : i <= k
  <1>1. PICK k \in Places(g) : Stored(g, k)
    BY DEF InfoInv
  <1>2. k \in Places(g) /\ \A i \in Places(g) : k <= i
    BY <1>1 DEF Stored
  <1>3. n \in Places(g) /\ \A i \in Places(g) : n <= i
    BY <1>2
  <1> HIDE DEF n
  <1>4. n = k
    BY <1>2, <1>3, PlacesType
  <1> QED
    BY <1>1, <1>4 DEF Newest, Stored, n

\* A dialog's job is the first of its guest; the others move down.
LEMMA InfoAddJob ==
  ASSUME TypeInv, InfoInv, NEW j \in Jobs, AddJob(j)
  PROVE  InfoInv'
  <1> DEFINE h == GuestOf[j]
  <1>1. order \in Seq(Jobs) /\ order' = <<j>> \o order /\ listed' = listed \cup {j}
    BY DEF AddJob, Prepend, TypeInv, TypeOK
  <1>2. /\ order'[1] = j
        /\ 1 \in DOMAIN order'
        /\ \A i \in DOMAIN order : /\ i \in Nat /\ i > 0
                                   /\ i + 1 \in DOMAIN order'
                                   /\ order'[i + 1] = order[i]
        /\ \A i \in DOMAIN order' :
             \/ i = 1
             \/ i > 1 /\ i - 1 \in DOMAIN order /\ order'[i] = order[i - 1]
    BY <1>1
  <1>3. \A i \in DOMAIN order : order[i] # j /\ order[i] \in Jobs
    BY <1>1 DEF AddJob
  <1>4. \A k \in Jobs : k # j => shown'[k] = shown[k]
    BY DEF AddJob, TypeInv, TypeOK
  <1>5. /\ info' = [info EXCEPT ![h] = j] /\ h \in Guests
        /\ info \in [Guests -> Jobs \cup {NoJob}]
        /\ overlapped \subseteq overlapped'
    BY JobsAssumption DEF AddJob, TypeInv, TypeOK
  <1> SUFFICES ASSUME NEW g \in Guests, g \notin overlapped', Places(g)' # {}
               PROVE  \E k \in Places(g)' : Stored(g, k)'
    BY DEF InfoInv
  <1>6. ASSUME NEW i \in Places(g)'
        PROVE  \/ i = 1 /\ g = h
               \/ /\ i > 1 /\ i - 1 \in Places(g) /\ order'[i] = order[i - 1]
                  /\ order'[i] \in listed /\ GuestOf[order'[i]] = g
                  /\ shown'[order'[i]] = shown[order'[i]]
    BY <1>1, <1>2, <1>3, <1>4 DEF Places
  <1>7. CASE g = h
    <2>1. 1 \in Places(g)'
      BY <1>1, <1>2, <1>7 DEF Places
    <2>2. order'[1] = info'[g]
      BY <1>2, <1>5, <1>7
    <2>3. \A k \in listed : GuestOf[k] = g => ~ Active(shown[k])
      BY <1>7, <1>5 DEF AddJob
    <2>4. ASSUME NEW i \in Places(g)'
          PROVE  1 <= i /\ (i # 1 => ~ Active(shown'[order'[i]]))
      <3>1. i \in DOMAIN order'
        BY DEF Places
      <3>2. i = 1 \/ i > 1
        BY <1>2, <3>1
      <3> QED
        BY <3>1, <3>2, <1>1, <1>6, <2>3
    <2>5. Stored(g, 1)'
      BY <2>1, <2>2, <2>4 DEF Stored
    <2> QED
      BY <2>1, <2>5
  <1>8. CASE g # h
    <2>1. \A i \in Places(g) : i \in Nat /\ i + 1 \in Places(g)' /\ order'[i + 1] = order[i]
      BY <1>1, <1>2 DEF Places
    <2>2. Places(g) # {}
      BY <1>6, <1>8
    <2>3. PICK k \in Places(g) : Stored(g, k)
      BY <1>5, <2>2 DEF InfoInv
    <2>4. k + 1 \in Places(g)' /\ order'[k + 1] = info'[g]
      BY <1>5, <1>8, <2>1, <2>3 DEF Stored
    <2>5. ASSUME NEW i \in Places(g)'
          PROVE  k + 1 <= i /\ (i # k + 1 => ~ Active(shown'[order'[i]]))
      <3>1. /\ i > 1 /\ i - 1 \in Places(g) /\ order'[i] = order[i - 1]
            /\ shown'[order'[i]] = shown[order'[i]]
        BY <1>6, <1>8
      <3>2. i \in Nat /\ k \in Nat
        BY <1>1, <2>1 DEF Places
      <3>3. k <= i - 1 /\ (i - 1 # k => ~ Active(shown[order[i - 1]]))
        BY <2>3, <3>1 DEF Stored
      <3> QED
        BY <3>1, <3>2, <3>3
    <2>6. Stored(g, k + 1)'
      BY <2>4, <2>5 DEF Stored
    <2> QED
      BY <2>4, <2>6
  <1> QED
    BY <1>7, <1>8

\* An event comes to an active job; if it is the outcome, the information that
\* is stored is that job's already.
LEMMA InfoDeliver ==
  ASSUME TypeInv, StreamInv, ProgressInv, InfoInv, NEW j \in Jobs, Deliver(j)
  PROVE  InfoInv'
  <1>1. order' = order /\ listed' = listed /\ overlapped' = overlapped
    BY DEF Deliver
  <1>2. j \in listed /\ Active(shown[j])
    BY DEF StreamInv, Deliver
  <1>3. \A k \in Jobs : k # j => shown'[k] = shown[k]
    BY DEF Deliver, TypeInv, TypeOK
  <1>4. PICK n \in DOMAIN order : order[n] = j
    BY <1>2 DEF ProgressInv
  <1>5. n \in Places(GuestOf[j])
    BY <1>2, <1>4 DEF Places
  <1>6. \A g \in Guests : info'[g] = info[g] \/ (g = GuestOf[j] /\ info'[g] = j)
    BY JobsAssumption DEF Deliver, TypeInv, TypeOK
  <1> SUFFICES ASSUME NEW g \in Guests, g \notin overlapped, Places(g) # {}
               PROVE  \E k \in Places(g) : Stored(g, k)'
    BY <1>1 DEF InfoInv, Places
  <1>7. PICK k \in Places(g) : Stored(g, k)
    BY DEF InfoInv
  <1>8. g = GuestOf[j] => n = k
    BY <1>2, <1>4, <1>5, <1>7 DEF Stored
  <1>9. info'[g] = info[g]
    BY <1>4, <1>6, <1>7, <1>8 DEF Stored
  <1>10. ASSUME NEW i \in Places(g), i # k
         PROVE  ~ Active(shown'[order[i]])
    <2>1. ~ Active(shown[order[i]])
      BY <1>7, <1>10 DEF Stored
    <2>2. order[i] # j /\ order[i] \in Jobs
      BY <2>1, <1>2, PlacesType
    <2> QED
      BY <2>1, <2>2, <1>3
  <1>11. Places(g)' = Places(g)
    BY <1>1 DEF Places
  <1>12. Stored(g, k)'
    BY <1>1, <1>7, <1>9, <1>10, <1>11 DEF Stored
  <1> QED
    BY <1>12

\* A guest's jobs that are not cleared are active: there is one at most.
LEMMA InfoClear ==
  ASSUME TypeInv, InfoInv, ClearCompleted
  PROVE  InfoInv'
  <1>1. /\ order' = order /\ shown' = shown /\ info' = info
        /\ overlapped' = overlapped
        /\ listed' = {j \in listed : ~ Terminal(shown[j])}
    BY DEF ClearCompleted
  <1> SUFFICES ASSUME NEW g \in Guests, g \notin overlapped, Places(g)' # {}
               PROVE  \E k \in Places(g)' : Stored(g, k)'
    BY <1>1 DEF InfoInv
  <1>2. \A i \in Places(g)' : i \in Places(g) /\ Active(shown[order[i]])
    BY <1>1, OneOfBoth DEF Places, TypeInv, TypeOK
  <1>3. PICK k \in Places(g) : Stored(g, k)
    BY <1>2 DEF InfoInv
  <1>4. \A i \in Places(g)' : i = k
    BY <1>2, <1>3 DEF Stored
  <1>5. k \in Places(g)'
    BY <1>4
  <1> QED
    BY <1>1, <1>2, <1>3, <1>4, <1>5 DEF Stored

LEMMA InfoReload ==
  ASSUME Reload
  PROVE  InfoInv'
  BY DEF InfoInv, Places, Reload

\* Nothing else touches the list.
LEMMA InfoRest ==
  ASSUME InfoInv,
         \/ \E j \in Jobs : \/ Create(j) \/ Work(j) \/ Accept(j) \/ Subscribe(j)
                            \/ StreamOver(j) \/ Drop(j) \/ Connect(j)
         \/ Restart
         \/ UNCHANGED vars
  PROVE  InfoInv'
  <1>1. UNCHANGED listVars
    BY DEF Create, Work, Accept, Subscribe, StreamOver, Drop, OnError, Connect,
           Restart, vars
  <1> QED
    BY <1>1 DEF InfoInv, Stored, Places, listVars

LEMMA InfoStep ==
  TypeInv /\ StreamInv /\ ProgressInv /\ InfoInv /\ [Next]_vars => InfoInv'
  <1> SUFFICES ASSUME TypeInv, StreamInv, ProgressInv, InfoInv, [Next]_vars
               PROVE  InfoInv'
    OBVIOUS
  <1>1. CASE \E j \in Jobs : AddJob(j) \/ Deliver(j)
    BY <1>1, InfoAddJob, InfoDeliver
  <1>2. CASE ClearCompleted \/ Reload
    BY <1>2, InfoClear, InfoReload
  <1>3. CASE \/ \E j \in Jobs : \/ Create(j) \/ Work(j) \/ Accept(j) \/ Subscribe(j)
                                \/ StreamOver(j) \/ Drop(j) \/ Connect(j)
             \/ Restart
             \/ UNCHANGED vars
    BY <1>3, InfoRest
  <1> QED
    BY <1>1, <1>2, <1>3 DEF Next

\* A refresh of the page does not change what getJobByVmid finds for a guest
\* whose jobs came one after the other's outcome (addJob, updateJob).
THEOREM RefreshCorrect == Spec => []RefreshChangesNothing
  <1>1. Init => TypeInv /\ StreamInv /\ ProgressInv /\ InfoInv
    BY TypeInit, StreamInit, ProgressInit, InfoInit
  <1>2. TypeInv /\ StreamInv /\ ProgressInv /\ InfoInv /\ [Next]_vars
          => (TypeInv /\ StreamInv /\ ProgressInv /\ InfoInv)'
    BY TypeStep, StreamStep, ProgressStep, InfoStep
  <1> QED
    BY <1>1, <1>2, InfoImplies, PTL DEF Spec
=============================================================================
