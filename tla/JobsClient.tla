----------------------------- MODULE JobsClient -----------------------------
(***************************************************************************)
(* The browser's side of the background jobs: the list kept by the jobs     *)
(* context (frontend/src/contexts/JobsContext.tsx), the event stream it     *)
(* opens for each job and reopens after an error (apiSSE in lib/api.ts),    *)
(* the "Clear finished" button of the jobs panel, and the build information *)
(* kept in localStorage across page refreshes.                              *)
(*                                                                          *)
(* The backend is what JobEvents shows of it to one connection: a snapshot, *)
(* later a subscription, then one event per report.  It may restart, and    *)
(* has then forgotten every job.                                            *)
(***************************************************************************)
EXTENDS Naturals, Sequences, FiniteSets

CONSTANTS
  Jobs,            \* the jobs this browser starts
  NoJob,           \* no build information is stored for a guest
  Guests,          \* VMIDs
  GuestOf,         \* new_vmid of each job
  WithCredentials, \* the jobs added with ciuser, password or key: provisions
  Steps,           \* the steps a worker reports before the outcome
  MaxDrops,        \* bound: connections lost by the network
  MaxReloads,      \* bound: refreshes of the page
  MaxRestarts      \* bound: restarts of the backend

ASSUME JobsAssumption ==
  /\ NoJob \notin Jobs
  /\ GuestOf \in [Jobs -> Guests]
  /\ WithCredentials \subseteq Jobs
  /\ Steps \in Nat \ {0}
  /\ MaxDrops \in Nat /\ MaxReloads \in Nat /\ MaxRestarts \in Nat

VARIABLES
  server,     \* each job's record in the store, kept after a restart as history
  known,      \* the jobs the running backend has in its store
  order,      \* the jobs that were added to the list, newest first
  listed,     \* those of them still in the list: the context's state `jobs`
  shown,      \* status and step of each listed job, as displayed
  sub,        \* apiSSE's closure for a job: none, open, closed (its flag)
  conn,       \* its EventSource: none, requested, snapshot, live or ended
  wire,       \* events written by the backend, not yet seen by onmessage
  timer,      \* a setTimeout(connect, 2000) is pending
  info,       \* localStorage: the job whose build information a guest has
  overlapped, \* history: guests given a second job while one was active
  budget      \* what the bounds leave of drops, reloads and restarts

serverVars == <<server, known>>
listVars   == <<order, listed, shown, info, overlapped>>
streamVars == <<sub, conn, wire, timer>>
vars == <<serverVars, listVars, streamVars, budget>>

-----------------------------------------------------------------------------
(* Faulty variants of definitions below; the specification does not use     *)
(* them.                                                                    *)

EndsWatchOnSuccess(e) == e.status = "completed"
AppendJob(q, j) == Append(q, j)
SnapshotAtCreation(j) == [server[j] EXCEPT !.at = 0]
RetryNever(j) == FALSE
MergeAddsUp(old, e) == [e EXCEPT !.at = old.at + e.at]
MergeKeepsFirstOutcome(old, e) ==
  IF e.status = "failed" THEN [e EXCEPT !.status = "completed"] ELSE e

-----------------------------------------------------------------------------
(* Jobs and events *)

JobStatus == {"none", "pending", "running", "completed", "failed"}

\* What of a job an event carries: its status and how many steps it reported.
JobEvent == [status : JobStatus, at : 0 .. Steps]

Active(e) == e.status \in {"pending", "running"}
Terminal(e) == e.status \in {"completed", "failed"}

\* How far along the job an event is.
Rank(e) == IF Terminal(e) THEN Steps + 1 ELSE e.at

\* What the dialogs pass to addJob, whatever the job has done meanwhile.
NewJob == [status |-> "pending", at |-> 0]

NotCreated == [status |-> "none", at |-> 0]

\* The worker's next report.
Reports(e) ==
  {r \in JobEvent :
     \/ r.status = "running" /\ r.at = e.at + 1
     \/ r.status = "completed" /\ e.at = Steps /\ r.at = e.at
     \/ r.status = "failed" /\ r.at = e.at}

\* addJob puts the job in front.
Prepend(q, j) == <<j>> \o q

\* updateJob takes status, step and progress from the event.
Merge(old, e) == e

\* The events after which updateJob runs the stream's clean-up.
EndsWatch(e) == Terminal(e)

\* The first event of a stream.
Snapshot(j) == server[j]

\* onerror schedules connect() unless the clean-up has set `closed`.
WillRetry(j) == sub[j] = "open"

-----------------------------------------------------------------------------
(* Looking up a guest *)

\* The listed jobs of a guest, by their place in the list.
Places(g) ==
  {i \in DOMAIN order : order[i] \in listed /\ GuestOf[order[i]] = g}

\* jobs.find in getJobByVmid.
Newest(g) ==
  order[CHOOSE i \in Places(g) : \A k \in Places(g) : i <= k]

\* getJobByVmid: memory first, then localStorage.
JobByGuest(g) == IF Places(g) # {} THEN Newest(g) ELSE info[g]

-----------------------------------------------------------------------------
(* The backend *)

Init ==
  /\ server = [j \in Jobs |-> NotCreated]
  /\ known = {}
  /\ order = <<>>
  /\ listed = {}
  /\ shown = [j \in Jobs |-> NotCreated]
  /\ sub = [j \in Jobs |-> "none"]
  /\ conn = [j \in Jobs |-> "none"]
  /\ wire = [j \in Jobs |-> <<>>]
  /\ timer = [j \in Jobs |-> FALSE]
  /\ info = [g \in Guests |-> NoJob]
  /\ overlapped = {}
  /\ budget = [drops |-> MaxDrops, reloads |-> MaxReloads,
               restarts |-> MaxRestarts]

\* A submit handler stores the job; its answer goes to the dialog.
Create(j) ==
  /\ server[j] = NotCreated
  /\ server' = [server EXCEPT ![j] = NewJob]
  /\ known' = known \cup {j}
  /\ UNCHANGED <<listVars, streamVars, budget>>

\* The worker reports; a handler that has subscribed writes the event and
\* returns after an outcome.
Work(j) ==
  /\ j \in known
  /\ Active(server[j])
  /\ \E e \in Reports(server[j]) :
       /\ server' = [server EXCEPT ![j] = e]
       /\ IF conn[j] = "live"
            THEN /\ wire' = [wire EXCEPT ![j] = Append(@, e)]
                 /\ conn' = [conn EXCEPT ![j] =
                               IF Terminal(e) THEN "ended" ELSE @]
            ELSE UNCHANGED <<wire, conn>>
  /\ UNCHANGED <<known, listVars, sub, timer, budget>>

\* StreamJobEvents up to its first event, and its return if that is an outcome.
Accept(j) ==
  /\ conn[j] = "requested"
  /\ j \in known
  /\ wire' = [wire EXCEPT ![j] = <<Snapshot(j)>>]
  /\ conn' = [conn EXCEPT ![j] =
                IF Terminal(Snapshot(j)) THEN "ended" ELSE "snapshot"]
  /\ UNCHANGED <<serverVars, listVars, sub, timer, budget>>

\* The handler subscribes, unaware of what the job reported since it was read.
Subscribe(j) ==
  /\ conn[j] = "snapshot"
  /\ j \in known
  /\ conn' = [conn EXCEPT ![j] = "live"]
  /\ UNCHANGED <<serverVars, listVars, sub, wire, timer, budget>>

\* The backend restarts: its jobs are gone and its connections end.
Restart ==
  /\ budget.restarts > 0
  /\ budget' = [budget EXCEPT !.restarts = @ - 1]
  /\ known' = {}
  /\ conn' = [j \in Jobs |->
                IF conn[j] \in {"snapshot", "live"} THEN "ended" ELSE conn[j]]
  /\ UNCHANGED <<server, listVars, sub, wire, timer>>

-----------------------------------------------------------------------------
(* The browser *)

\* addJob: list, build information, event stream.
AddJob(j) ==
  /\ server[j] # NotCreated
  /\ \A i \in DOMAIN order : order[i] # j
  /\ order' = Prepend(order, j)
  /\ listed' = listed \cup {j}
  /\ shown' = [shown EXCEPT ![j] = NewJob]
  /\ info' = [info EXCEPT ![GuestOf[j]] = j]
  /\ overlapped' =
       IF \E k \in listed : GuestOf[k] = GuestOf[j] /\ Active(shown[k])
         THEN overlapped \cup {GuestOf[j]} ELSE overlapped
  /\ sub' = [sub EXCEPT ![j] = "open"]
  /\ conn' = [conn EXCEPT ![j] = "requested"]
  /\ UNCHANGED <<serverVars, wire, timer, budget>>

\* es.close()
Close(j) ==
  /\ conn' = [conn EXCEPT ![j] = "none"]
  /\ wire' = [wire EXCEPT ![j] = <<>>]

\* onmessage calls updateJob: the list, build information of a completed job,
\* the stream's clean-up after an outcome.
Deliver(j) ==
  /\ wire[j] # <<>>
  /\ LET e == Head(wire[j]) IN
       /\ shown' = IF j \in listed
                     THEN [shown EXCEPT ![j] = Merge(@, e)] ELSE shown
       /\ info' = IF j \in listed /\ e.status = "completed"
                    THEN [info EXCEPT ![GuestOf[j]] = j] ELSE info
       /\ IF EndsWatch(e)
            THEN /\ sub' = [sub EXCEPT ![j] = "closed"]
                 /\ Close(j)
            ELSE /\ wire' = [wire EXCEPT ![j] = Tail(@)]
                 /\ UNCHANGED <<sub, conn>>
  /\ UNCHANGED <<serverVars, order, listed, overlapped, timer, budget>>

\* onerror: the source is closed and, unless cleaned up, opened again later.
OnError(j) ==
  /\ Close(j)
  /\ timer' = [timer EXCEPT ![j] = WillRetry(j)]
  /\ UNCHANGED <<serverVars, listVars, sub>>

\* The backend answers 404, or a stream it has ended is read to its end.
StreamOver(j) ==
  /\ \/ conn[j] = "requested" /\ j \notin known
     \/ conn[j] = "ended" /\ wire[j] = <<>>
  /\ OnError(j)
  /\ UNCHANGED budget

\* The network loses a connection and what was on its way.
Drop(j) ==
  /\ conn[j] # "none"
  /\ budget.drops > 0
  /\ budget' = [budget EXCEPT !.drops = @ - 1]
  /\ OnError(j)

\* connect() after two seconds.
Connect(j) ==
  /\ timer[j]
  /\ timer' = [timer EXCEPT ![j] = FALSE]
  /\ conn' = [conn EXCEPT ![j] = IF sub[j] = "open" THEN "requested" ELSE @]
  /\ UNCHANGED <<serverVars, listVars, sub, wire, budget>>

\* "Clear finished", offered when a listed job has an outcome.
ClearCompleted ==
  /\ \E j \in listed : Terminal(shown[j])
  /\ listed' = {j \in listed : ~ Terminal(shown[j])}
  /\ UNCHANGED <<serverVars, order, shown, info, overlapped, streamVars,
                 budget>>

\* A refresh of the page: memory, streams and timers go, localStorage stays.
Reload ==
  /\ budget.reloads > 0
  /\ budget' = [budget EXCEPT !.reloads = @ - 1]
  /\ listed' = {}
  /\ sub' = [j \in Jobs |-> "none"]
  /\ conn' = [j \in Jobs |-> "none"]
  /\ wire' = [j \in Jobs |-> <<>>]
  /\ timer' = [j \in Jobs |-> FALSE]
  /\ UNCHANGED <<serverVars, order, shown, info, overlapped>>

Next ==
  \/ \E j \in Jobs :
       \/ Create(j) \/ Work(j) \/ Accept(j) \/ Subscribe(j)
       \/ AddJob(j) \/ Deliver(j) \/ StreamOver(j) \/ Drop(j) \/ Connect(j)
  \/ Restart \/ ClearCompleted \/ Reload

Spec == Init /\ [][Next]_vars

(***************************************************************************)
(* Requests are answered, events arrive, timers fire and workers, whose     *)
(* calls are all bounded in time, report.  The network need not lose        *)
(* anything, nobody need clear the list, refresh the page or restart the    *)
(* backend.                                                                 *)
(***************************************************************************)
FairSpec ==
  /\ Spec
  /\ \A j \in Jobs :
       /\ WF_vars(Work(j)) /\ WF_vars(Accept(j)) /\ WF_vars(Subscribe(j))
       /\ WF_vars(Deliver(j)) /\ WF_vars(StreamOver(j)) /\ WF_vars(Connect(j))

-----------------------------------------------------------------------------
(* Properties *)

TypeOK ==
  /\ server \in [Jobs -> JobEvent]
  /\ known \subseteq Jobs
  /\ order \in Seq(Jobs)
  /\ listed \subseteq Jobs
  /\ shown \in [Jobs -> JobEvent]
  /\ \A j \in listed : shown[j].status # "none"
  /\ sub \in [Jobs -> {"none", "open", "closed"}]
  /\ conn \in [Jobs -> {"none", "requested", "snapshot", "live", "ended"}]
  /\ wire \in [Jobs -> Seq(JobEvent)]
  /\ timer \in [Jobs -> BOOLEAN]
  /\ info \in [Guests -> Jobs \cup {NoJob}]
  /\ overlapped \subseteq Guests
  /\ budget \in [drops : Nat, reloads : Nat, restarts : Nat]

\* A job's stream is open, or about to be reopened, exactly as long as the job
\* is listed without an outcome: apiSSE's closure, the clean-ups kept in a ref
\* and the list agree although each changes at its own time.  No connection
\* leaks and none comes back after an outcome, a clearing or a refresh.
Watched(j) == sub[j] = "open" /\ (conn[j] # "none" \/ timer[j])
WatchedWhileActive ==
  \A j \in Jobs : Watched(j) <=> j \in listed /\ Active(shown[j])

\* An outcome the list shows is the job's outcome (updateJob), across
\* reconnections, refreshes and a restart of the backend.
ShownOutcomeIsReal ==
  \A j \in listed : Terminal(shown[j]) => server[j].status = shown[j].status

\* The list never shows a job going back, though every reconnection starts
\* with a new snapshot, and an outcome stays.
ShownNeverGoesBack ==
  [][\A j \in listed \cap listed' :
       /\ Rank(shown[j]) <= Rank(shown'[j])
       /\ Terminal(shown[j]) => shown'[j] = shown[j]]_vars

\* A refresh of the page does not change what getJobByVmid finds for a guest
\* whose jobs came one after the other's outcome.
RefreshChangesNothing ==
  \A g \in Guests :
    g \notin overlapped /\ Places(g) # {} => Newest(g) = info[g]

\* The job has ended after its stream's snapshot and before its subscription.
Unheard(j) ==
  /\ conn[j] = "live"
  /\ wire[j] = <<>>
  /\ Terminal(server[j])
  /\ ~ Terminal(shown[j])

\* A listed job's outcome is shown in the end, unless the backend has forgotten
\* the job or the stream subscribed too late to hear of it.
ListedJobEnds ==
  \A j \in Jobs :
    j \in listed ~> \/ j \notin listed
                    \/ Terminal(shown[j])
                    \/ j \notin known
                    \/ Unheard(j)

\* README: "Build credentials persisted in localStorage (survives page
\* refresh)": a guest provisioned from here keeps the credentials the detail
\* page shows.
CredentialsPersist ==
  \A g \in Guests :
    (\E i \in DOMAIN order : order[i] \in WithCredentials
                             /\ GuestOf[order[i]] = g)
      => JobByGuest(g) \in WithCredentials
=============================================================================
