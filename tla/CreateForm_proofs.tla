-------------------------- MODULE CreateForm_proofs --------------------------
(***************************************************************************)
(* Theorems about CreateForm for every set of templates, nodes, storages    *)
(* and passwords, every script and every number of edits and requests.      *)
(***************************************************************************)
EXTENDS CreateForm, TLAPS

-----------------------------------------------------------------------------
(* The invariant *)

MaybePassword == Passwords \cup {NoPassword}

\* What a provision request carries.
Requests ==
  [visit : Nat, list : Nodes \cup {NoNode},
   storage : Storages \cup {NoStorage}, volumes : Seq(Storages),
   password : MaybePassword, retyped : BOOLEAN]

Jobs == [status : JobStatuses, step : StepNames \cup {StepNone},
         password : MaybePassword]

FlagsInv ==
  /\ open \in BOOLEAN /\ submitting \in BOOLEAN /\ refreshing \in BOOLEAN
  /\ known \in BOOLEAN /\ error \in BOOLEAN
  /\ asks \in 0 .. MaxAsks /\ fetching \subseteq Nodes
  /\ edits \in 0 .. MaxEdits /\ visit \in 0 .. edits
  /\ sent \in 0 .. MaxSubmits /\ timers \in 0 .. MaxTimers

FieldsInv ==
  /\ template \in Templates \cup {NoTemplate}
  /\ storage \in Storages \cup {NoStorage}
  /\ volumes \in Seq(Storages) /\ Len(volumes) <= MaxVolumes
  /\ password \in MaybePassword
  /\ list \in Nodes \cup {NoNode}

JobsInv ==
  /\ posts \subseteq Requests
  /\ jobs \in [JobIds -> Jobs]
  /\ actual \in [JobIds -> MaybePassword]
  /\ madeIn \in [JobIds -> Nat]
  /\ retyped \subseteq JobIds
  /\ listed \subseteq JobIds
  /\ \A j \in listed : jobs[j].status # "none"
  /\ activeJob \in JobIds \cup {NoJobId}
  /\ activeJob # NoJobId => jobs[activeJob].status # "none"

TypeInv == FlagsInv /\ FieldsInv /\ JobsInv

\* Of each visit one request at a time and none while a job of it runs; the
\* running job of the visit that lasts is the one the dialog shows.
OneInv ==
  /\ \A r, q \in posts : r.visit = q.visit => r = q
  /\ \A r \in posts : r.visit \leq visit
  /\ \A j \in listed : madeIn[j] \leq visit
  /\ \A r \in posts : r.visit = visit => submitting /\ ~ ShowsProgress
  /\ \A j \in listed : madeIn[j] = visit /\ ~ Terminal(j) => j = activeJob
  /\ \A r \in posts, j \in listed : madeIn[j] = r.visit => Terminal(j)
  /\ \A j, k \in listed :
       madeIn[j] = madeIn[k] /\ ~ Terminal(j) /\ ~ Terminal(k) => j = k

\* A job has the password of its request, and the form still has it unless it
\* was changed during the request.
PasswordInv ==
  /\ \A j \in JobIds : jobs[j].password = actual[j]
  /\ \A r \in posts : r.visit = visit /\ ~ r.retyped => r.password = password
  /\ ShowsProgress /\ activeJob \notin retyped => actual[activeJob] = password

\* The storage chosen is one of the list shown.
ChoiceInv == Offered(list) # {} => storage \in Offered(list)

Inv ==
  TypeInv /\ OneInv /\ PasswordInv /\ ChoiceInv /\ DiskIsChecked

-----------------------------------------------------------------------------
(* TypeInv *)

\* One more refresh is scheduled, or none.
LEMMA TimersType ==
  ASSUME timers \in 0 .. MaxTimers
  PROVE  Scheduled(timers) \in 0 .. MaxTimers
  BY FormAssumption DEF Scheduled

\* The storages a node offers are storages.
LEMMA OfferedType ==
  ASSUME NEW n \in Nodes \cup {NoNode}
  PROVE  /\ Offered(n) \subseteq Storages
         /\ Offered(n) # {} => n \in Nodes /\ ListOf[n] # <<>>
         /\ n \in Nodes /\ ListOf[n] # <<>> => ListOf[n][1] \in Offered(n)
  <1>1. CASE n = NoNode
    BY <1>1, FormAssumption DEF Offered
  <1>2. CASE n \in Nodes
    <2>1. ListOf[n] \in Seq(Storages) /\ n # NoNode
      BY <1>2, FormAssumption
    <2> QED
      BY <1>2, <2>1 DEF Offered
  <1> QED
    BY <1>1, <1>2

\* The volumes after a change are storages.
LEMMA VolumesType ==
  ASSUME FieldsInv, Offered(list) # {}, NEW v \in ChangedVolumes
  PROVE  v \in Seq(Storages)
  <1>1. /\ volumes \in Seq(Storages) /\ list \in Nodes \cup {NoNode}
        /\ Offered(list) \subseteq Storages /\ ListOf[list][1] \in Storages
    BY OfferedType DEF FieldsInv
  <1>2. Append(volumes, ListOf[list][1]) \in Seq(Storages)
    BY <1>1
  <1>3. ASSUME NEW i \in DOMAIN volumes, NEW s \in Offered(list)
        PROVE  [volumes EXCEPT ![i] = s] \in Seq(Storages)
    BY <1>1, <1>3
  <1>4. ASSUME NEW i \in DOMAIN volumes
        PROVE  RemoveAt(volumes, i) \in Seq(Storages)
    BY <1>1, <1>4 DEF RemoveAt
  <1>5. \/ v = Append(volumes, ListOf[list][1])
        \/ \E i \in DOMAIN volumes : \E s \in Offered(list) :
              v = [volumes EXCEPT ![i] = s]
        \/ \E i \in DOMAIN volumes : v = RemoveAt(volumes, i)
    BY DEF ChangedVolumes
  <1> QED
    BY <1>2, <1>3, <1>4, <1>5

\* What a step leaves alone keeps its type.
LEMMA FieldsKept ==
  ASSUME FieldsInv, UNCHANGED <<template, storage, volumes, password, list>>
  PROVE  FieldsInv'
  BY DEF FieldsInv

\* A step that leaves the requests, the jobs and the job followed alone keeps what is known of them.
LEMMA JobsKept ==
  ASSUME JobsInv, UNCHANGED <<posts, jobs, listed, madeIn, actual, retyped, activeJob>>
  PROVE  JobsInv'
  BY DEF JobsInv

\* The types hold at the start.
LEMMA InitType == Init => TypeInv
  <1> SUFFICES ASSUME Init PROVE TypeInv
    OBVIOUS
  <1>1. NoJobYet \in Jobs
    BY DEF NoJobYet, Jobs, JobStatuses, MaybePassword
  <1>2. FlagsInv
    <2>1. 0 \in 0 .. MaxAsks /\ 0 \in 0 .. MaxEdits /\ 0 \in 0 .. MaxSubmits
          /\ 0 \in 0 .. MaxTimers /\ 0 \in 0 .. 0
      BY FormAssumption
    <2> QED
      BY <2>1 DEF Init, FlagsInv
  <1>3. FieldsInv
    BY FormAssumption DEF Init, FieldsInv, MaybePassword
  <1>4. JobsInv
    BY <1>1 DEF Init, JobsInv, MaybePassword
  <1> QED
    BY <1>2, <1>3, <1>4 DEF TypeInv

\* The flags and counters.
LEMMA FlagsStep ==
  ASSUME TypeInv, [Next]_vars
  PROVE  FlagsInv'
  <1>0. FlagsInv /\ Scheduled(timers) \in 0 .. MaxTimers
    BY TimersType DEF TypeInv, FlagsInv
  <1> USE <1>0, FormAssumption DEF FlagsInv
  <1>1. CASE Open
    BY <1>1 DEF Open, formVars
  <1>2. CASE VmidAnswered
    <2>1. known' \in BOOLEAN
      BY <1>2 DEF VmidAnswered
    <2>2. asks' \in 0 .. MaxAsks
      BY <1>2 DEF VmidAnswered
    <2> QED
      BY <1>2, <2>1, <2>2 DEF VmidAnswered
  <1>3. CASE Close
    BY <1>3 DEF Close, Reset, formVars
  <1>4. ASSUME NEW t \in Templates, SelectTemplate(t)
        PROVE  FlagsInv'
    BY <1>4 DEF SelectTemplate, Edit
  <1>5. ASSUME NEW n \in Nodes, StoragesAnswered(n)
        PROVE  FlagsInv'
    BY <1>5 DEF StoragesAnswered
  <1>6. CASE EditStorage
    BY <1>6 DEF EditStorage, Edit
  <1>7. CASE EditPassword
    BY <1>7 DEF EditPassword, Edit
  <1>8. CASE SubmitRefused
    BY <1>8 DEF SubmitRefused
  <1>9. CASE Submit
    <2>1. sent' \in 0 .. MaxSubmits
      BY <1>9 DEF Submit
    <2> QED
      BY <1>9, <2>1 DEF Submit
  <1>10. ASSUME NEW r \in posts, Accepted(r)
         PROVE  FlagsInv'
    BY <1>10 DEF Accepted, formVars
  <1>11. ASSUME NEW r \in posts, Rejected(r)
         PROVE  FlagsInv'
    BY <1>11 DEF Rejected
  <1>12. ASSUME NEW j \in JobIds, Progresses(j)
         PROVE  FlagsInv'
    BY <1>12 DEF Progresses, formVars
  <1>13. CASE ClearCompleted
    BY <1>13 DEF ClearCompleted, formVars
  <1>14. CASE Poll
    BY <1>14 DEF Poll, formVars
  <1>15. CASE Refresh
    BY <1>15 DEF Refresh, formVars
  <1>16. CASE Refreshed
    BY <1>16 DEF Refreshed, formVars
  <1>17. CASE UNCHANGED vars
    BY <1>17 DEF vars, formVars
  <1>18. CASE Leave
    <2>1. edits' \in 0 .. MaxEdits /\ visit' \in 0 .. edits' /\ 0 \in 0 .. MaxAsks
      BY <1>18 DEF Leave
    <2> QED
      BY <1>18, <2>1 DEF Leave, Reset
  <1> QED
    BY <1>1, <1>2, <1>3, <1>4, <1>5, <1>6, <1>7, <1>8, <1>9, <1>10, <1>11, <1>12,
       <1>13, <1>14, <1>15, <1>16, <1>17, <1>18 DEF Next

\* The steps that leave the fields of the form alone.
LEMMA FieldsFrame ==
  ASSUME \/ Open \/ VmidAnswered \/ SubmitRefused \/ Submit
         \/ \E r \in posts : Accepted(r) \/ Rejected(r)
         \/ \E j \in JobIds : Progresses(j)
         \/ ClearCompleted \/ Poll \/ Refresh \/ Refreshed \/ UNCHANGED vars
  PROVE  UNCHANGED <<template, storage, volumes, password, list>>
  <1>1. CASE Open \/ VmidAnswered \/ SubmitRefused \/ Submit
    BY <1>1 DEF Open, VmidAnswered, SubmitRefused, Submit, formVars
  <1>2. ASSUME NEW r \in posts, Accepted(r) \/ Rejected(r)
        PROVE  UNCHANGED <<template, storage, volumes, password, list>>
    BY <1>2 DEF Accepted, Rejected, formVars
  <1>3. ASSUME NEW j \in JobIds, Progresses(j)
        PROVE  UNCHANGED <<template, storage, volumes, password, list>>
    BY <1>3 DEF Progresses, formVars
  <1>4. CASE ClearCompleted \/ Poll \/ Refresh \/ Refreshed \/ UNCHANGED vars
    BY <1>4 DEF ClearCompleted, Poll, Refresh, Refreshed, vars, formVars
  <1> QED
    BY <1>1, <1>2, <1>3, <1>4

\* The fields.
LEMMA FieldsStep ==
  ASSUME TypeInv, [Next]_vars
  PROVE  FieldsInv'
  <1>0. FieldsInv
    BY DEF TypeInv
  <1> USE <1>0
  <1>1. CASE Close \/ Leave
    <2>1. CASE Reset
      BY <2>1, FormAssumption DEF Reset, FieldsInv, MaybePassword
    <2>2. CASE UNCHANGED formVars
      BY <2>2, FieldsKept DEF formVars
    <2> QED
      BY <1>1, <2>1, <2>2 DEF Close, Leave
  <1>2. ASSUME NEW t \in Templates, SelectTemplate(t)
        PROVE  FieldsInv'
    BY <1>2 DEF SelectTemplate, FieldsInv
  <1>3. ASSUME NEW n \in Nodes, StoragesAnswered(n)
        PROVE  FieldsInv'
    <2>1. ListOf[n] # <<>> => ListOf[n][1] \in Storages
      BY OfferedType
    <2>2. storage' \in Storages \cup {NoStorage}
      BY <1>3, <2>1 DEF StoragesAnswered, FirstOf, FieldsInv
    <2> QED
      BY <1>3, <2>2 DEF StoragesAnswered, FieldsInv
  <1>4. CASE EditStorage
    <2>1. storage' \in Storages \cup {NoStorage}
      BY <1>4, OfferedType DEF EditStorage, FieldsInv
    <2>2. volumes' \in Seq(Storages) /\ Len(volumes') <= MaxVolumes
      <3>1. CASE volumes' = volumes
        BY <3>1 DEF FieldsInv
      <3>2. CASE volumes' \in {v \in ChangedVolumes : Len(v) <= MaxVolumes}
        BY <1>4, <3>2, VolumesType DEF EditStorage
      <3> QED
        BY <1>4, <3>1, <3>2 DEF EditStorage
    <2> QED
      BY <1>4, <2>1, <2>2 DEF EditStorage, FieldsInv
  <1>5. CASE EditPassword
    BY <1>5 DEF EditPassword, FieldsInv, MaybePassword
  <1> QED
    BY <1>1, <1>2, <1>3, <1>4, <1>5, FieldsFrame, FieldsKept DEF Next

\* The job of a request that was accepted.
LEMMA AcceptedJob ==
  ASSUME TypeInv, NEW r \in posts, Accepted(r)
  PROVE  \E j \in JobIds : \E e \in Jobs :
           /\ jobs[j] = NoJobYet
           /\ e = [status |-> "pending", step |-> StepNone, password |-> r.password]
           /\ jobs' = [jobs EXCEPT ![j] = e]
           /\ madeIn' = [madeIn EXCEPT ![j] = r.visit]
           /\ actual' = [actual EXCEPT ![j] = r.password]
           /\ retyped' = IF r.retyped THEN retyped \cup {j} ELSE retyped
           /\ listed' = listed \cup {j}
           /\ activeJob' = IF r.visit = visit THEN j ELSE activeJob
  <1>1. r.password \in MaybePassword
    BY DEF TypeInv, JobsInv, Requests
  <1>2. [status |-> "pending", step |-> StepNone, password |-> r.password] \in Jobs
    BY <1>1 DEF Jobs, JobStatuses
  <1> QED
    BY <1>2 DEF Accepted, Recorded

\* The job of an event that reached the list.
LEMMA ProgressedJob ==
  ASSUME TypeInv, NEW j \in JobIds, Progresses(j)
  PROVE  \E e \in Jobs :
           /\ e.status \in {"running", "completed", "failed"}
           /\ e.password = jobs[j].password
           /\ jobs' = [jobs EXCEPT ![j] = e]
  <1>1. jobs[j] \in Jobs /\ jobs \in [JobIds -> Jobs]
    BY DEF TypeInv, JobsInv
  <1>2. CASE jobs' = [jobs EXCEPT ![j].status = "failed"]
    <2> DEFINE e == [jobs[j] EXCEPT !.status = "failed"]
    <2>1. e \in Jobs /\ e.status = "failed" /\ e.password = jobs[j].password
      BY <1>1 DEF Jobs, JobStatuses
    <2> QED
      BY <1>2, <2>1
  <1>3. ASSUME NEW i \in DOMAIN Script,
               jobs' = [jobs EXCEPT ![j].step = Script[i],
                             ![j].status = IF i = Len(Script) THEN "completed"
                                           ELSE "running"]
        PROVE  \E e \in Jobs :
                 /\ e.status \in {"running", "completed", "failed"}
                 /\ e.password = jobs[j].password
                 /\ jobs' = [jobs EXCEPT ![j] = e]
    <2> DEFINE st == IF i = Len(Script) THEN "completed" ELSE "running"
               e == [[jobs[j] EXCEPT !.step = Script[i]] EXCEPT !.status = st]
    <2>1. Script[i] \in StepNames
      BY FormAssumption
    <2>2. e \in Jobs /\ e.status = st /\ e.password = jobs[j].password
      BY <1>1, <2>1 DEF Jobs, JobStatuses
    <2>3. jobs' = [jobs EXCEPT ![j] = e]
      BY <1>1, <1>3
    <2> QED
      BY <2>2, <2>3
  <1> QED
    BY <1>2, <1>3 DEF Progresses

\* Changing the password marks the requests of the visit and nothing else.
LEMMA RetypedPosts ==
  ASSUME JobsInv, EditPassword
  PROVE  /\ posts' \subseteq Requests
         /\ \A q \in posts' : \E r \in posts :
              /\ q = [r EXCEPT !.retyped = r.retyped \/ r.visit = visit]
              /\ q.visit = r.visit /\ q.list = r.list /\ q.storage = r.storage
              /\ q.volumes = r.volumes /\ q.password = r.password
              /\ q.retyped = (r.retyped \/ r.visit = visit)
  <1> SUFFICES ASSUME NEW q \in posts'
               PROVE  /\ q \in Requests
                      /\ \E r \in posts :
                           /\ q = [r EXCEPT !.retyped = r.retyped \/ r.visit = visit]
                           /\ q.visit = r.visit /\ q.list = r.list
                           /\ q.storage = r.storage /\ q.volumes = r.volumes
                           /\ q.password = r.password
                           /\ q.retyped = (r.retyped \/ r.visit = visit)
    OBVIOUS
  <1>1. PICK r \in posts : q = [r EXCEPT !.retyped = r.retyped \/ r.visit = visit]
    BY DEF EditPassword
  <1>2. r \in Requests
    BY DEF JobsInv
  <1>3. (r.retyped \/ r.visit = visit) \in BOOLEAN
    OBVIOUS
  <1>4. /\ q \in Requests
        /\ q.visit = r.visit /\ q.list = r.list /\ q.storage = r.storage
        /\ q.volumes = r.volumes /\ q.password = r.password
        /\ q.retyped = (r.retyped \/ r.visit = visit)
    BY <1>1, <1>2, <1>3 DEF Requests
  <1> QED
    BY <1>1, <1>4

\* Requests and jobs.
LEMMA JobsStep ==
  ASSUME TypeInv, [Next]_vars
  PROVE  JobsInv'
  <1>0. JobsInv
    BY DEF TypeInv
  <1> USE <1>0
  <1>1. CASE Close \/ Leave
    <2>1. UNCHANGED <<posts, jobs, listed, madeIn, actual, retyped>>
          /\ activeJob' \in {activeJob, NoJobId}
      BY <1>1 DEF Close, Leave, Reset, jobVars
    <2> QED
      BY <2>1 DEF JobsInv
  <1>2. CASE Submit
    <2>1. visit \in Nat
      BY DEF TypeInv, FlagsInv
    <2>2. [visit |-> visit, list |-> list, storage |-> storage, volumes |-> volumes,
           password |-> password, retyped |-> FALSE] \in Requests
      BY <2>1 DEF Requests, TypeInv, FieldsInv
    <2> QED
      BY <1>2, <2>2 DEF Submit, jobVars, JobsInv
  <1>3. ASSUME NEW r \in posts, Accepted(r)
        PROVE  JobsInv'
    <2>1. posts' \subseteq Requests
      BY <1>3 DEF Accepted, JobsInv
    <2>2. PICK j \in JobIds, e \in Jobs :
            /\ e = [status |-> "pending", step |-> StepNone, password |-> r.password]
            /\ jobs' = [jobs EXCEPT ![j] = e]
            /\ madeIn' = [madeIn EXCEPT ![j] = r.visit]
            /\ actual' = [actual EXCEPT ![j] = r.password]
            /\ retyped' = IF r.retyped THEN retyped \cup {j} ELSE retyped
            /\ listed' = listed \cup {j}
            /\ activeJob' = IF r.visit = visit THEN j ELSE activeJob
      BY <1>3, AcceptedJob
    <2>3. e.status # "none" /\ r.password \in MaybePassword /\ r.visit \in Nat
      BY <1>3, <2>2 DEF JobsInv, Requests
    <2>4. /\ jobs' \in [JobIds -> Jobs] /\ actual' \in [JobIds -> MaybePassword]
          /\ madeIn' \in [JobIds -> Nat] /\ retyped' \subseteq JobIds
      BY <2>2, <2>3 DEF JobsInv
    <2>5. listed' \subseteq JobIds /\ \A k \in listed' : jobs'[k].status # "none"
      BY <2>2, <2>3 DEF JobsInv
    <2> QED
      BY <2>1, <2>2, <2>3, <2>4, <2>5 DEF JobsInv
  <1>4. ASSUME NEW r \in posts, Rejected(r)
        PROVE  JobsInv'
    BY <1>4 DEF Rejected, jobVars, JobsInv
  <1>5. ASSUME NEW j \in JobIds, Progresses(j)
        PROVE  JobsInv'
    <2>1. UNCHANGED <<posts, activeJob, listed, madeIn, actual, retyped>>
      BY <1>5 DEF Progresses
    <2> QED
      BY <1>5, <2>1, ProgressedJob DEF JobsInv
  <1>6. CASE ClearCompleted
    BY <1>6 DEF ClearCompleted, JobsInv
  <1>7. CASE Open \/ VmidAnswered \/ EditStorage \/ SubmitRefused
             \/ Poll \/ Refresh \/ Refreshed \/ UNCHANGED vars
    <2>1. UNCHANGED <<posts, jobs, listed, madeIn, actual, retyped, activeJob>>
      BY <1>7 DEF Open, VmidAnswered, EditStorage, SubmitRefused, Poll,
                  Refresh, Refreshed, vars, jobVars
    <2> QED
      BY <2>1, JobsKept
  <1>8. ASSUME NEW t \in Templates, SelectTemplate(t)
        PROVE  JobsInv'
    BY <1>8, JobsKept DEF SelectTemplate, jobVars
  <1>9. ASSUME NEW n \in Nodes, StoragesAnswered(n)
        PROVE  JobsInv'
    BY <1>9, JobsKept DEF StoragesAnswered, jobVars
  <1>10. CASE EditPassword
    <2>1. posts' \subseteq Requests
      BY <1>10, RetypedPosts
    <2> QED
      BY <1>10, <2>1 DEF EditPassword, jobVars, JobsInv
  <1> QED
    BY <1>1, <1>2, <1>3, <1>4, <1>5, <1>6, <1>7, <1>8, <1>9, <1>10 DEF Next

\* Every step keeps the types.
LEMMA TypeStep == TypeInv /\ [Next]_vars => TypeInv'
  BY FlagsStep, FieldsStep, JobsStep DEF TypeInv

\* The types of the variables (TypeOK).
THEOREM TypeCorrect == Spec => []TypeOK
  <1>1. TypeInv => TypeOK
    <2> SUFFICES ASSUME TypeInv PROVE TypeOK
      OBVIOUS
    <2>1. \A r \in posts : r.list \in Nodes \cup {NoNode} /\ r.retyped \in BOOLEAN
      BY DEF TypeInv, JobsInv, Requests
    <2>2. \A j \in JobIds : jobs[j].status # "none" => jobs[j] # NoJobYet
      BY DEF NoJobYet
    <2> QED
      BY <2>1, <2>2 DEF TypeOK, TypeInv, FlagsInv, FieldsInv, JobsInv, MaybePassword
  <1> QED
    BY InitType, TypeStep, <1>1, PTL DEF Spec

-----------------------------------------------------------------------------
(* One guest at a time *)

\* At the start nothing has been asked for.
LEMMA InitInv == Init => Inv
  <1> SUFFICES ASSUME Init PROVE Inv
    OBVIOUS
  <1>1. TypeInv
    BY InitType
  <1>2. OneInv
    BY DEF Init, OneInv
  <1>3. PasswordInv
    BY DEF Init, PasswordInv, NoJobYet, ShowsProgress
  <1>4. ChoiceInv /\ DiskIsChecked
    BY DEF Init, ChoiceInv, DiskIsChecked, Offered
  <1> QED
    BY <1>1, <1>2, <1>3, <1>4 DEF Inv

\* A status is not both live and terminal.
LEMMA LiveOrTerminal ==
  ASSUME NEW j \in JobIds, Live(j)
  PROVE  ~ Terminal(j)
  BY DEF Live, Terminal, LiveStatuses, TerminalStatuses

\* What a step leaves alone keeps OneInv.
LEMMA OneKept ==
  ASSUME OneInv,
         UNCHANGED <<visit, posts, submitting, jobs, listed, madeIn, activeJob>>
  PROVE  OneInv'
  BY DEF OneInv, ShowsProgress, Terminal

\* What a visit has asked for: one request or one job that runs, of those that
\* are followed.
LEMMA OneStep ==
  ASSUME TypeInv, OneInv, [Next]_vars
  PROVE  OneInv'
  <1>0. JobsInv /\ visit \in Nat
    BY DEF TypeInv, FlagsInv
  <1>1. CASE Close
    <2>1. UNCHANGED <<visit, posts, jobs, listed, madeIn>>
      BY <1>1 DEF Close, jobVars
    <2>2. CASE ResetsOnClose
      <3>1. ShowsProgress /\ Terminal(activeJob)
        BY <2>2 DEF ResetsOnClose, IsTerminal
      <3>2. \A r \in posts : r.visit # visit
        BY <3>1 DEF OneInv
      <3>3. \A j \in listed : madeIn[j] = visit => Terminal(j)
        BY <3>1 DEF OneInv
      <3> QED
        BY <2>1, <3>2, <3>3 DEF OneInv, Terminal
    <2>3. CASE ~ ResetsOnClose
      BY <1>1, <2>1, <2>3, OneKept DEF Close
    <2> QED
      BY <2>2, <2>3
  <1>2. CASE Leave
    <2>1. visit' = visit + 1 /\ UNCHANGED <<posts, jobs, listed, madeIn>>
      BY <1>2 DEF Leave, jobVars
    <2>2. \A r \in posts : r.visit \in Nat /\ r.visit \leq visit' /\ r.visit # visit'
      BY <1>0, <2>1 DEF OneInv, JobsInv, Requests
    <2>3. \A j \in listed : madeIn[j] \leq visit' /\ madeIn[j] # visit'
      BY <1>0, <2>1 DEF OneInv, JobsInv
    <2> QED
      BY <2>1, <2>2, <2>3 DEF OneInv, Terminal
  <1>3. CASE Submit
    <2>1. ~ ShowsProgress /\ \A r \in posts : r.visit # visit
      BY <1>3 DEF Submit, CanSubmit, Editing, OneInv
    <2>2. \A j \in listed : madeIn[j] = visit => Terminal(j)
      BY <2>1 DEF OneInv, ShowsProgress
    <2> DEFINE q == [visit |-> visit, list |-> list, storage |-> storage,
                     volumes |-> volumes, password |-> password, retyped |-> FALSE]
    <2>3. posts' = posts \cup {q} /\ q.visit = visit
      BY <1>3 DEF Submit
    <2> HIDE DEF q
    <2>4. UNCHANGED <<visit, jobs, listed, madeIn, activeJob>> /\ submitting' = TRUE
      BY <1>3 DEF Submit, jobVars
    <2>5. /\ \A r, p \in posts' : r.visit = p.visit => r = p
          /\ \A r \in posts' : r.visit \leq visit
      BY <1>0, <2>1, <2>3 DEF OneInv
    <2>6. \A r \in posts' : \A j \in listed : madeIn[j] = r.visit => Terminal(j)
      BY <2>2, <2>3 DEF OneInv
    <2> QED
      BY <2>1, <2>2, <2>4, <2>5, <2>6 DEF OneInv, ShowsProgress, Terminal
  <1>4. ASSUME NEW r \in posts, Accepted(r)
        PROVE  OneInv'
    <2>1. /\ posts' = posts \ {r} /\ visit' = visit
          /\ submitting' = (submitting /\ r.visit # visit)
      BY <1>4 DEF Accepted
    <2>2. PICK j \in JobIds, e \in Jobs :
            /\ jobs[j] = NoJobYet
            /\ jobs' = [jobs EXCEPT ![j] = e]
            /\ madeIn' = [madeIn EXCEPT ![j] = r.visit]
            /\ listed' = listed \cup {j}
            /\ activeJob' = IF r.visit = visit THEN j ELSE activeJob
      BY <1>4, AcceptedJob
    <2>3. j \notin listed /\ j # activeJob
      <3>1. jobs[j].status = "none" /\ j # NoJobId
        BY <2>2 DEF NoJobYet, JobIds, NoJobId
      <3> QED
        BY <1>0, <3>1 DEF JobsInv
    <2>4. /\ \A k \in listed :
               k # j /\ madeIn'[k] = madeIn[k] /\ (Terminal(k)' <=> Terminal(k))
          /\ madeIn'[j] = r.visit
      BY <1>0, <2>2, <2>3 DEF JobsInv, Terminal
    <2>5. \A k \in listed : madeIn[k] = r.visit => Terminal(k)
      BY DEF OneInv
    <2>6. \A q \in posts' : q \in posts /\ q.visit # r.visit
      BY <2>1 DEF OneInv
    <2>7. /\ \A q, p \in posts' : q.visit = p.visit => q = p
          /\ \A q \in posts' : q.visit \leq visit'
          /\ \A k \in listed' : madeIn'[k] \leq visit'
      BY <2>1, <2>2, <2>4, <2>6 DEF OneInv
    <2>8. \A q \in posts' : q.visit = visit' => submitting' /\ ~ ShowsProgress'
      <3> SUFFICES ASSUME NEW q \in posts', q.visit = visit
                   PROVE  submitting' /\ ~ ShowsProgress'
        BY <2>1
      <3>1. submitting /\ ~ ShowsProgress /\ r.visit # visit
        BY <2>6 DEF OneInv
      <3> QED
        BY <2>1, <2>2, <2>3, <3>1 DEF ShowsProgress
    <2>9. \A k \in listed' : madeIn'[k] = visit' /\ ~ Terminal(k)' => k = activeJob'
      <3> SUFFICES ASSUME NEW k \in listed', madeIn'[k] = visit, ~ Terminal(k)'
                   PROVE  k = activeJob'
        BY <2>1
      <3>1. CASE k = j
        BY <2>2, <2>4, <3>1
      <3>2. CASE k # j
        <4>1. k \in listed /\ madeIn[k] = visit /\ ~ Terminal(k)
          BY <2>2, <2>4, <3>2
        <4>2. k = activeJob /\ r.visit # visit
          BY <2>5, <4>1 DEF OneInv
        <4> QED
          BY <2>2, <4>2
      <3> QED
        BY <3>1, <3>2
    <2>10. \A q \in posts' : \A k \in listed' : madeIn'[k] = q.visit => Terminal(k)'
      BY <2>2, <2>4, <2>6 DEF OneInv
    <2>11. \A k, m \in listed' :
             madeIn'[k] = madeIn'[m] /\ ~ Terminal(k)' /\ ~ Terminal(m)' => k = m
      BY <2>2, <2>4, <2>5 DEF OneInv
    <2> QED
      BY <2>7, <2>8, <2>9, <2>10, <2>11 DEF OneInv
  <1>5. ASSUME NEW r \in posts, Rejected(r)
        PROVE  OneInv'
    <2>1. /\ posts' = posts \ {r}
          /\ submitting' = (submitting /\ r.visit # visit)
          /\ UNCHANGED <<visit, jobs, listed, madeIn, activeJob>>
      BY <1>5 DEF Rejected, jobVars
    <2>2. \A q \in posts' : q \in posts /\ q.visit # r.visit
      BY <2>1 DEF OneInv
    <2> QED
      BY <2>1, <2>2 DEF OneInv, ShowsProgress, Terminal
  <1>6. ASSUME NEW j \in JobIds, Progresses(j)
        PROVE  OneInv'
    <2>1. j \in listed /\ ~ Terminal(j)
          /\ UNCHANGED <<visit, posts, submitting, listed, madeIn, activeJob>>
      BY <1>6, LiveOrTerminal DEF Progresses
    <2>2. PICK e \in Jobs : jobs' = [jobs EXCEPT ![j] = e]
      BY <1>6, ProgressedJob
    <2>3. \A k \in listed : k # j => (Terminal(k)' <=> Terminal(k))
      BY <1>0, <2>2 DEF JobsInv, Terminal
    <2>4. \A k \in listed : Terminal(k) => Terminal(k)'
      BY <2>1, <2>3
    <2> QED
      BY <2>1, <2>4 DEF OneInv, ShowsProgress
  <1>7. CASE ClearCompleted
    BY <1>7 DEF ClearCompleted, OneInv, ShowsProgress, Terminal
  <1>8. CASE Open \/ VmidAnswered \/ EditStorage \/ SubmitRefused
             \/ Poll \/ Refresh \/ Refreshed \/ UNCHANGED vars
    <2>1. UNCHANGED <<visit, posts, submitting, jobs, listed, madeIn, activeJob>>
      BY <1>8 DEF Open, VmidAnswered, EditStorage, SubmitRefused, Poll,
                  Refresh, Refreshed, vars, jobVars
    <2> QED
      BY <2>1, OneKept
  <1>9. ASSUME NEW t \in Templates, SelectTemplate(t)
        PROVE  OneInv'
    BY <1>9, OneKept DEF SelectTemplate, jobVars
  <1>10. ASSUME NEW n \in Nodes, StoragesAnswered(n)
         PROVE  OneInv'
    BY <1>10, OneKept DEF StoragesAnswered, jobVars
  <1>11. CASE EditPassword
    <2>1. UNCHANGED <<visit, submitting, jobs, listed, madeIn, activeJob>>
      BY <1>11 DEF EditPassword, jobVars
    <2>2. \A q \in posts' : \E r \in posts :
            /\ q = [r EXCEPT !.retyped = r.retyped \/ r.visit = visit]
            /\ q.visit = r.visit
      BY <1>0, <1>11, RetypedPosts
    <2>3. \A q, p \in posts' : q.visit = p.visit => q = p
      BY <2>2 DEF OneInv
    <2> QED
      BY <2>1, <2>2, <2>3 DEF OneInv, ShowsProgress, Terminal
  <1> QED
    BY <1>1, <1>2, <1>3, <1>4, <1>5, <1>6, <1>7, <1>8, <1>9, <1>10, <1>11 DEF Next

-----------------------------------------------------------------------------
(* The password and the storage of a request *)

\* What a step leaves alone keeps PasswordInv.
LEMMA PasswordKept ==
  ASSUME PasswordInv,
         UNCHANGED <<visit, posts, password, jobs, listed, actual, retyped, activeJob>>
  PROVE  PasswordInv'
  BY DEF PasswordInv, ShowsProgress

\* A job keeps the password of its request, and the form that made it.
LEMMA PasswordStep ==
  ASSUME TypeInv, OneInv, PasswordInv, [Next]_vars
  PROVE  PasswordInv'
  <1>0. JobsInv /\ visit \in Nat
    BY DEF TypeInv, FlagsInv
  <1>1. CASE Close
    <2>1. UNCHANGED <<visit, posts, jobs, listed, actual, retyped>>
      BY <1>1 DEF Close, jobVars
    <2>2. CASE ResetsOnClose
      <3>1. ShowsProgress /\ activeJob' = NoJobId
        BY <1>1, <2>2 DEF Close, Reset, ResetsOnClose, IsTerminal
      <3>2. \A r \in posts : r.visit # visit
        BY <3>1 DEF OneInv
      <3>3. ~ ShowsProgress'
        BY <1>0, <2>1, <3>1 DEF ShowsProgress, JobsInv, JobIds, NoJobId
      <3> QED
        BY <2>1, <3>2, <3>3 DEF PasswordInv
    <2>3. CASE ~ ResetsOnClose
      BY <1>1, <2>1, <2>3, PasswordKept DEF Close, formVars
    <2> QED
      BY <2>2, <2>3
  <1>2. CASE Leave
    <2>1. /\ UNCHANGED <<posts, jobs, listed, actual, retyped>>
          /\ visit' = visit + 1 /\ activeJob' = NoJobId
      BY <1>2 DEF Leave, Reset, jobVars
    <2>2. \A r \in posts : r.visit # visit'
      BY <1>0, <2>1 DEF OneInv, JobsInv, Requests
    <2>3. ~ ShowsProgress'
      BY <1>0, <2>1 DEF ShowsProgress, JobsInv, JobIds, NoJobId
    <2> QED
      BY <2>1, <2>2, <2>3 DEF PasswordInv
  <1>3. CASE Submit
    <2>1. UNCHANGED <<visit, password, jobs, listed, actual, retyped, activeJob>>
      BY <1>3 DEF Submit, jobVars
    <2> DEFINE q == [visit |-> visit, list |-> list, storage |-> storage,
                     volumes |-> volumes, password |-> password, retyped |-> FALSE]
    <2>2. posts' = posts \cup {q} /\ q.password = password
      BY <1>3 DEF Submit
    <2> HIDE DEF q
    <2> QED
      BY <2>1, <2>2 DEF PasswordInv, ShowsProgress
  <1>4. ASSUME NEW r \in posts, Accepted(r)
        PROVE  PasswordInv'
    <2>1. posts' = posts \ {r} /\ UNCHANGED <<visit, password>>
      BY <1>4 DEF Accepted, formVars
    <2>2. PICK j \in JobIds, e \in Jobs :
            /\ jobs[j] = NoJobYet
            /\ e = [status |-> "pending", step |-> StepNone, password |-> r.password]
            /\ jobs' = [jobs EXCEPT ![j] = e]
            /\ actual' = [actual EXCEPT ![j] = r.password]
            /\ retyped' = IF r.retyped THEN retyped \cup {j} ELSE retyped
            /\ listed' = listed \cup {j}
            /\ activeJob' = IF r.visit = visit THEN j ELSE activeJob
      BY <1>4, AcceptedJob
    <2>3. e.password = r.password
      BY <2>2
    <2>4. \A k \in JobIds : jobs'[k].password = actual'[k]
      BY <1>0, <2>2, <2>3 DEF PasswordInv, JobsInv
    <2>5. ShowsProgress' /\ activeJob' \notin retyped' => actual'[activeJob'] = password
      <3> SUFFICES ASSUME ShowsProgress', activeJob' \notin retyped'
                   PROVE  actual'[activeJob'] = password
        OBVIOUS
      <3>1. CASE r.visit = visit
        <4>1. activeJob' = j /\ ~ r.retyped
          BY <2>2, <3>1
        <4>2. r.password = password
          BY <3>1, <4>1 DEF PasswordInv
        <4> QED
          BY <1>0, <2>2, <4>1, <4>2 DEF JobsInv
      <3>2. CASE r.visit # visit
        <4>1. activeJob' = activeJob
          BY <2>2, <3>2
        <4>2. activeJob \in listed \/ activeJob = j
          BY <2>2, <4>1 DEF ShowsProgress
        <4>3. activeJob # j
          BY <1>0, <2>2 DEF JobsInv, NoJobYet, JobIds, NoJobId
        <4>4. activeJob \notin retyped /\ activeJob \in JobIds /\ ShowsProgress
          BY <1>0, <2>2, <4>1, <4>2, <4>3 DEF JobsInv, ShowsProgress
        <4> QED
          BY <1>0, <2>2, <4>1, <4>3, <4>4 DEF PasswordInv, JobsInv
      <3> QED
        BY <3>1, <3>2
    <2> QED
      BY <2>1, <2>4, <2>5 DEF PasswordInv
  <1>5. ASSUME NEW r \in posts, Rejected(r)
        PROVE  PasswordInv'
    <2>1. /\ posts' = posts \ {r}
          /\ UNCHANGED <<visit, password, jobs, listed, actual, retyped, activeJob>>
      BY <1>5 DEF Rejected, jobVars
    <2> QED
      BY <2>1 DEF PasswordInv, ShowsProgress
  <1>6. ASSUME NEW j \in JobIds, Progresses(j)
        PROVE  PasswordInv'
    <2>1. PICK e \in Jobs : e.password = jobs[j].password
                            /\ jobs' = [jobs EXCEPT ![j] = e]
      BY <1>6, ProgressedJob
    <2>2. UNCHANGED <<visit, posts, password, listed, actual, retyped, activeJob>>
      BY <1>6 DEF Progresses, formVars
    <2>3. \A k \in JobIds : jobs'[k].password = jobs[k].password
      BY <1>0, <2>1 DEF JobsInv
    <2> QED
      BY <2>2, <2>3 DEF PasswordInv, ShowsProgress
  <1>7. CASE ClearCompleted
    <2>1. /\ listed' \subseteq listed
          /\ UNCHANGED <<visit, posts, password, jobs, actual, retyped, activeJob>>
      BY <1>7 DEF ClearCompleted, formVars
    <2> QED
      BY <2>1 DEF PasswordInv, ShowsProgress
  <1>8. CASE Open \/ VmidAnswered \/ EditStorage \/ SubmitRefused
             \/ Poll \/ Refresh \/ Refreshed \/ UNCHANGED vars
    <2>1. UNCHANGED <<visit, posts, password, jobs, listed, actual, retyped, activeJob>>
      BY <1>8 DEF Open, VmidAnswered, EditStorage, SubmitRefused, Poll,
                  Refresh, Refreshed, vars, jobVars, formVars
    <2> QED
      BY <2>1, PasswordKept
  <1>9. ASSUME NEW t \in Templates, SelectTemplate(t)
        PROVE  PasswordInv'
    BY <1>9, PasswordKept DEF SelectTemplate, jobVars
  <1>10. ASSUME NEW n \in Nodes, StoragesAnswered(n)
         PROVE  PasswordInv'
    BY <1>10, PasswordKept DEF StoragesAnswered, jobVars
  <1>11. CASE EditPassword
    <2>1. /\ UNCHANGED <<visit, jobs, listed, actual, retyped, activeJob>>
          /\ ~ ShowsProgress
      BY <1>11 DEF EditPassword, Edit, Editing, jobVars
    <2>2. \A q \in posts' : q.visit = visit => q.retyped
      BY <1>0, <1>11, RetypedPosts
    <2> QED
      BY <2>1, <2>2 DEF PasswordInv, ShowsProgress
  <1> QED
    BY <1>1, <1>2, <1>3, <1>4, <1>5, <1>6, <1>7, <1>8, <1>9, <1>10, <1>11 DEF Next

\* The storage chosen is in the list that is shown.
LEMMA ChoiceStep ==
  ASSUME TypeInv, ChoiceInv, [Next]_vars
  PROVE  ChoiceInv'
  <1>0. CASE UNCHANGED <<list, storage>>
    BY <1>0 DEF ChoiceInv, Offered
  <1>1. CASE Close \/ Leave
    <2>1. CASE Reset
      BY <2>1 DEF Reset, ChoiceInv, Offered
    <2>2. CASE UNCHANGED formVars
      BY <1>0, <2>2 DEF formVars
    <2> QED
      BY <1>1, <2>1, <2>2 DEF Close, Leave
  <1>2. ASSUME NEW n \in Nodes, StoragesAnswered(n)
        PROVE  ChoiceInv'
    <2>1. CASE list' = n /\ storage' = FirstOf(n)
      <3>1. Offered(list)' = Offered(n)
        BY <2>1 DEF Offered
      <3>2. Offered(n) # {} => FirstOf(n) \in Offered(n)
        BY OfferedType DEF FirstOf
      <3> QED
        BY <2>1, <3>1, <3>2 DEF ChoiceInv
    <2>2. CASE list' = NoNode
      BY <2>2 DEF ChoiceInv, Offered
    <2> QED
      BY <1>2, <2>1, <2>2 DEF StoragesAnswered
  <1>3. CASE EditStorage
    <2>1. CASE UNCHANGED storage
      BY <1>0, <1>3, <2>1 DEF EditStorage
    <2>2. CASE storage' \in Offered(list)
      BY <1>3, <2>2 DEF EditStorage, ChoiceInv, Offered
    <2> QED
      BY <1>3, <2>1, <2>2 DEF EditStorage
  <1>4. ASSUME NEW t \in Templates, SelectTemplate(t)
        PROVE  ChoiceInv'
    BY <1>0, <1>4 DEF SelectTemplate
  <1>5. CASE EditPassword
    BY <1>0, <1>5 DEF EditPassword
  <1> QED
    BY <1>0, <1>1, <1>2, <1>3, <1>4, <1>5, FieldsFrame DEF Next

\* A request made under a list has its disk counted by the check.
LEMMA RequestStep ==
  ASSUME TypeInv, ChoiceInv, DiskIsChecked, [Next]_vars
  PROVE  DiskIsChecked'
  <1>1. CASE posts' \subseteq posts
    BY <1>1 DEF DiskIsChecked, Offered, Required
  <1>2. CASE Submit
    <2> DEFINE q == [visit |-> visit, list |-> list, storage |-> storage,
                     volumes |-> volumes, password |-> password, retyped |-> FALSE]
    <2>1. Offered(list) # {} => storage \in Offered(list)
      BY DEF ChoiceInv
    <2>2. \A s \in Offered(list) : Required(s, storage, volumes) <= Avail[list][s]
      BY <1>2 DEF Submit, Fits
    <2>3. posts' = posts \cup {q}
      BY <1>2 DEF Submit
    <2>4. q.list = list /\ q.storage = storage /\ q.volumes = volumes
      OBVIOUS
    <2> HIDE DEF q
    <2> QED
      BY <2>1, <2>2, <2>3, <2>4 DEF DiskIsChecked
  <1>3. CASE \/ Close \/ Leave \/ ClearCompleted
             \/ \E r \in posts : Accepted(r) \/ Rejected(r)
    BY <1>1, <1>3 DEF Close, Leave, ClearCompleted, Accepted, Rejected
  <1>4. CASE Open \/ VmidAnswered \/ EditStorage \/ SubmitRefused
             \/ Poll \/ Refresh \/ Refreshed \/ UNCHANGED vars
    BY <1>1, <1>4 DEF Open, VmidAnswered, EditStorage, SubmitRefused,
                      Poll, Refresh, Refreshed, vars
  <1>6. CASE EditPassword
    <2>1. JobsInv
      BY DEF TypeInv
    <2>2. \A q \in posts' : \E r \in posts :
            q.list = r.list /\ q.storage = r.storage /\ q.volumes = r.volumes
      BY <1>6, <2>1, RetypedPosts
    <2> SUFFICES ASSUME NEW q \in posts', Offered(q.list) # {}
                 PROVE  /\ q.storage \in Offered(q.list)
                        /\ Required(q.storage, q.storage, q.volumes)
                             <= Avail[q.list][q.storage]
      BY DEF DiskIsChecked
    <2>3. PICK r \in posts :
            q.list = r.list /\ q.storage = r.storage /\ q.volumes = r.volumes
      BY <2>2
    <2> QED
      BY <2>3 DEF DiskIsChecked
  <1>5. CASE \/ \E t \in Templates : SelectTemplate(t)
             \/ \E n \in Nodes : StoragesAnswered(n)
             \/ \E j \in JobIds : Progresses(j)
    BY <1>1, <1>5 DEF SelectTemplate, StoragesAnswered, Progresses
  <1> QED
    BY <1>2, <1>3, <1>4, <1>5, <1>6 DEF Next

-----------------------------------------------------------------------------
(* The theorems *)

\* Inv is inductive.
LEMMA InvStep == Inv /\ [Next]_vars => Inv'
  BY TypeStep, OneStep, PasswordStep, ChoiceStep, RequestStep DEF Inv

\* Inv holds in every state.
THEOREM Invariant == Spec => []Inv
  BY InitInv, InvStep, PTL DEF Spec

\* In each visit of the page the dialog asks for one guest at a time: no second
\* request before the first is answered, none while a job made in the visit
\* runs (OneGuestAtATime).
THEOREM OneGuest == Spec => []OneGuestAtATime
  <1>1. Inv => OneGuestAtATime
    <2> SUFFICES ASSUME Inv PROVE OneGuestAtATime
      OBVIOUS
    <2>1. \A j \in listed : Live(j) => ~ Terminal(j)
      BY LiveOrTerminal DEF Inv, TypeInv, JobsInv
    <2> QED
      BY <2>1 DEF Inv, OneInv, OneGuestAtATime
  <1> QED
    BY Invariant, <1>1, PTL

\* The panel of a completed job shows what its request carried, a password or
\* none, unless it carried none and one was typed meanwhile
\* (ShownPasswordWasSent).
THEOREM PasswordShown == Spec => []ShownPasswordWasSent
  <1>1. Inv => ShownPasswordWasSent
    <2> SUFFICES ASSUME Inv, CompletedPanel,
                        actual[activeJob] = NoPassword => activeJob \notin retyped
                 PROVE  ShownPassword(activeJob) = actual[activeJob]
      BY DEF ShownPasswordWasSent
    <2>1. activeJob \in JobIds /\ ShowsProgress
      BY DEF Inv, TypeInv, JobsInv, CompletedPanel, ShowsProgress
    <2> QED
      BY <2>1 DEF Inv, PasswordInv, ShownPassword
  <1> QED
    BY Invariant, <1>1, PTL

\* A request made under a list of storages has its OS disk on one of them, with
\* room for it and the volumes beside it (DiskIsChecked).
THEOREM DiskChecked == Spec => []DiskIsChecked
  <1>1. Inv => DiskIsChecked
    BY DEF Inv
  <1> QED
    BY Invariant, <1>1, PTL

-----------------------------------------------------------------------------
(* The ticks *)

\* The scripts of the jobs the dialog makes, in the order of its own list.
MadeHere == {ScriptOf.vm, ScriptOf.vm_volumes, ScriptOf.container}

FollowsList ==
  \A i, j \in DOMAIN Script : i < j =>
    \E k, l \in DOMAIN StepList :
      k < l /\ StepList[k] = Script[i] /\ StepList[l] = Script[j]

\* A job's step is one of its script, or none.
StepInv ==
  \A j \in JobIds : jobs[j].step = StepNone
                    \/ \E i \in DOMAIN Script : jobs[j].step = Script[i]

\* The list has seven different items.
LEMMA StepListType ==
  /\ DOMAIN StepList = 1 .. 7
  /\ \A i \in 1 .. 7 : StepList[i] # StepNone
  /\ \A i \in 1 .. 7 : StepList[i] = "ready" <=> i = 7
  /\ \A i \in 1 .. 7 : StepList[i] = "waiting_for_running" <=> i = 6
  /\ \A i, j \in 1 .. 7 : StepList[i] = StepList[j] => i = j
  BY DEF StepList, StepNone

\* Each kind of job reports its steps in the order of the list, leaving out
\* none or one.
LEMMA ScriptsFollow == Script \in MadeHere => FollowsList
  <1> DEFINE Full == <<"cloning", "configuring", "resizing", "adding_disks",
                       "starting", "waiting_for_running", "ready">>
             Short == <<"cloning", "configuring", "resizing",
                        "starting", "waiting_for_running", "ready">>
  <1>1. Script \in MadeHere => Script = Full \/ Script = Short
    BY DEF MadeHere, ScriptOf
  <1>2. StepList = Full
    BY DEF StepList
  <1>3. ASSUME Script = Full
        PROVE  FollowsList
    <2>1. DOMAIN Script = 1 .. 7 /\ DOMAIN StepList = 1 .. 7
      BY <1>2, <1>3
    <2> QED
      BY <1>2, <1>3, <2>1 DEF FollowsList
  <1>4. ASSUME Script = Short
        PROVE  FollowsList
    <2> DEFINE At(i) == IF i < 4 THEN i ELSE i + 1
    <2>1. DOMAIN Script = 1 .. 6 /\ DOMAIN StepList = 1 .. 7
      BY <1>2, <1>4
    <2>2. \A i \in 1 .. 6 : At(i) \in 1 .. 7 /\ StepList[At(i)] = Script[i]
      BY <1>2, <1>4
    <2>3. \A i, j \in 1 .. 6 : i < j => At(i) < At(j)
      OBVIOUS
    <2> HIDE DEF At
    <2> QED
      BY <2>1, <2>2, <2>3 DEF FollowsList
  <1> QED
    BY <1>1, <1>3, <1>4

\* An item further down the list has all the ticks of one before it.
LEMMA LaterTicks ==
  ASSUME NEW k \in 1 .. 7, NEW l \in 1 .. 7, k < l
  PROVE  DoneItems(StepList[k]) \subseteq DoneItems(StepList[l])
  <1> SUFFICES ASSUME NEW i \in 1 .. 7, ItemDone(StepList[k], i)
               PROVE  ItemDone(StepList[l], i)
    BY StepListType DEF DoneItems
  <1>1. StepList[k] # "ready"
    BY StepListType
  <1>2. CASE StepList[k] = "waiting_for_running"
    <2>1. l = 7
      BY <1>2, StepListType
    <2> QED
      BY <2>1, StepListType DEF ItemDone
  <1>3. CASE StepList[k] # "waiting_for_running"
    <2>1. PICK m \in 1 .. 7 : StepList[m] = StepList[k] /\ i < m
      BY <1>1, <1>3, StepListType DEF ItemDone
    <2>2. m = k
      BY <2>1, StepListType
    <2>3. i < l
      BY <2>1, <2>2
    <2> QED
      BY <2>3, StepListType DEF ItemDone
  <1> QED
    BY <1>2, <1>3

\* No item is ticked for a job without a step.
LEMMA NoTicks == DoneItems(StepNone) = {}
  <1>1. \A i \in 1 .. 7 : ~ ItemDone(StepNone, i)
    BY StepListType DEF ItemDone, StepNone
  <1> QED
    BY <1>1, StepListType DEF DoneItems

\* Where a step is in the script.
LEMMA PositionOf ==
  ASSUME NEW i \in DOMAIN Script
  PROVE  /\ Position(Script[i]) \in DOMAIN Script
         /\ Script[Position(Script[i])] = Script[i]
  <1>1. Script[i] \in StepNames /\ StepNone \notin StepNames
    BY FormAssumption DEF StepNames, StepProgress, StepNone
  <1> QED
    BY <1>1 DEF Position

\* The steps that change jobs.
LEMMA JobsChange ==
  ASSUME [Next]_vars
  PROVE  \/ UNCHANGED jobs
         \/ \E r \in posts : Accepted(r)
         \/ \E j \in JobIds : Progresses(j)
  <1>1. CASE Open \/ VmidAnswered \/ Close \/ Leave \/ EditStorage \/ EditPassword
             \/ SubmitRefused \/ Submit
    BY <1>1 DEF Open, VmidAnswered, Close, Leave, EditStorage, EditPassword,
                SubmitRefused, Submit, jobVars
  <1>2. CASE ClearCompleted \/ Poll \/ Refresh \/ Refreshed \/ UNCHANGED vars
    BY <1>2 DEF ClearCompleted, Poll, Refresh, Refreshed, vars, jobVars
  <1>3. CASE \/ \E t \in Templates : SelectTemplate(t)
             \/ \E n \in Nodes : StoragesAnswered(n)
             \/ \E r \in posts : Rejected(r)
    BY <1>3 DEF SelectTemplate, StoragesAnswered, Rejected, jobVars
  <1> QED
    BY <1>1, <1>2, <1>3 DEF Next

\* The step of a job after an event: the same, or one later in the script.
LEMMA NextStep ==
  ASSUME TypeInv, NEW j \in JobIds, Progresses(j)
  PROVE  /\ \A k \in JobIds \ {j} : jobs'[k] = jobs[k]
         /\ \/ jobs'[j].step = jobs[j].step
            \/ \E i \in DOMAIN Script :
                 i > Position(jobs[j].step) /\ jobs'[j].step = Script[i]
  <1>1. jobs \in [JobIds -> Jobs] /\ jobs[j] \in Jobs
    BY DEF TypeInv, JobsInv
  <1>2. CASE jobs' = [jobs EXCEPT ![j].status = "failed"]
    BY <1>1, <1>2 DEF Jobs
  <1>3. ASSUME NEW i \in DOMAIN Script, i > Position(jobs[j].step),
               jobs' = [jobs EXCEPT ![j].step = Script[i],
                             ![j].status = IF i = Len(Script) THEN "completed"
                                           ELSE "running"]
        PROVE  /\ \A k \in JobIds \ {j} : jobs'[k] = jobs[k]
               /\ jobs'[j].step = Script[i]
    BY <1>1, <1>3 DEF Jobs
  <1> QED
    BY <1>2, <1>3 DEF Progresses

\* Jobs keep to their script.
LEMMA StepStep ==
  ASSUME TypeInv, StepInv, [Next]_vars
  PROVE  StepInv'
  <1>1. CASE UNCHANGED jobs
    BY <1>1 DEF StepInv
  <1>2. ASSUME NEW r \in posts, Accepted(r)
        PROVE  StepInv'
    <2>1. PICK j \in JobIds, e \in Jobs :
            /\ e = [status |-> "pending", step |-> StepNone, password |-> r.password]
            /\ jobs' = [jobs EXCEPT ![j] = e]
      BY <1>2, AcceptedJob
    <2>2. e.step = StepNone
      BY <2>1
    <2> QED
      BY <2>1, <2>2 DEF StepInv, TypeInv, JobsInv
  <1>3. ASSUME NEW j \in JobIds, Progresses(j)
        PROVE  StepInv'
    BY <1>3, NextStep DEF StepInv
  <1> QED
    BY <1>1, <1>2, <1>3, JobsChange

\* What one step does to the ticks of the job that is shown.
LEMMA TicksStep ==
  ASSUME FollowsList, TypeInv, StepInv, [Next]_vars, ShowsProgress,
         activeJob' = activeJob
  PROVE  DoneItems(jobs[activeJob].step) \subseteq DoneItems(jobs'[activeJob].step)
  <1>1. activeJob \in JobIds /\ jobs[activeJob].status # "none"
    BY DEF TypeInv, JobsInv, ShowsProgress
  <1>2. CASE UNCHANGED jobs
    BY <1>2
  <1>3. ASSUME NEW r \in posts, Accepted(r)
        PROVE  jobs'[activeJob] = jobs[activeJob]
    <2>1. PICK j \in JobIds, e \in Jobs :
            jobs[j] = NoJobYet /\ jobs' = [jobs EXCEPT ![j] = e]
      BY <1>3, AcceptedJob
    <2>2. j # activeJob
      BY <1>1, <2>1 DEF NoJobYet
    <2> QED
      BY <2>1, <2>2
  <1>4. ASSUME NEW j \in JobIds, Progresses(j)
        PROVE  DoneItems(jobs[activeJob].step)
                 \subseteq DoneItems(jobs'[activeJob].step)
    <2>1. CASE jobs'[activeJob].step = jobs[activeJob].step
      BY <2>1
    <2>2. CASE jobs'[activeJob].step # jobs[activeJob].step
      <3>1. PICK i \in DOMAIN Script :
              i > Position(jobs[activeJob].step) /\ jobs'[activeJob].step = Script[i]
        BY <1>1, <1>4, <2>2, NextStep
      <3>2. CASE jobs[activeJob].step = StepNone
        BY <3>2, NoTicks
      <3>3. ASSUME NEW h \in DOMAIN Script, jobs[activeJob].step = Script[h]
            PROVE  DoneItems(jobs[activeJob].step)
                     \subseteq DoneItems(jobs'[activeJob].step)
        <4> DEFINE p == Position(Script[h])
        <4>1. p \in DOMAIN Script /\ Script[p] = Script[h] /\ p < i
          <5>1. i \in Nat /\ p \in Nat /\ i > p
            BY <3>1, <3>3, PositionOf, FormAssumption
          <5> QED
            BY <5>1, PositionOf
        <4> HIDE DEF p
        <4>2. PICK k \in 1 .. 7, l \in 1 .. 7 :
                k < l /\ StepList[k] = Script[p] /\ StepList[l] = Script[i]
          BY <3>1, <4>1, StepListType DEF FollowsList
        <4> QED
          BY <3>1, <3>3, <4>1, <4>2, LaterTicks
      <3> QED
        BY <1>1, <3>2, <3>3 DEF StepInv
    <2> QED
      BY <2>1, <2>2
  <1> QED
    BY <1>2, <1>3, <1>4, JobsChange

\* An item that is ticked stays ticked as long as the dialog shows the job, for
\* each kind of job it makes (TicksStay).
THEOREM TicksGrow ==
  ASSUME Script \in MadeHere
  PROVE  Spec => TicksStay
  <1>1. FollowsList
    BY ScriptsFollow
  <1>2. Init => StepInv
    BY DEF Init, StepInv, NoJobYet
  <1>3. TypeInv /\ StepInv /\ [Next]_vars => StepInv'
    BY StepStep
  <1>4. TypeInv /\ StepInv /\ [Next]_vars =>
          [ShowsProgress /\ activeJob' = activeJob
             => DoneItems(jobs[activeJob].step)
                  \subseteq DoneItems(jobs'[activeJob].step)]_vars
    BY <1>1, TicksStep
  <1> QED
    BY InitType, TypeStep, <1>2, <1>3, <1>4, PTL DEF Spec, TicksStay
=============================================================================
