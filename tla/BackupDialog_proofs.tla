------------------------- MODULE BackupDialog_proofs -------------------------
(***************************************************************************)
(* Theorems about BackupDialog for every set of archives and schedules and   *)
(* every number of openings, requests, errors and changes by others.        *)
(***************************************************************************)
EXTENDS BackupDialog, FiniteSetTheorems, TLAPS

-----------------------------------------------------------------------------
(* The invariant *)

ListOps == {"backups", "schedules"}
Ops == WorkingOps \cup {"restore", "backup"} \cup ListOps
Points == {"sent", "list", "listed"}

\* Requests, well formed.
Calls ==
  [id : Nat, op : Ops, item : Archives \cup Presets \cup {NoArchive},
   at : Points, got : SUBSET (Archives \cup Presets)]

LeftInv == left \in [openings : Nat, requests : Nat, errors : Nat, others : Nat]

ArchiveStates == {"future", "there", "deleted", "removed"}

\* What is known of a request by its operation and how far it is.
CallInv(c) ==
  /\ c.op \in {"schedule", "unschedule"} => c.item \in Presets
  /\ c.op \in {"restore", "backup"} => c.at = "sent"
  /\ c.op \in ListOps => c.at # "sent"
  /\ c.got \subseteq IF ListOf(c.op) = "backups" THEN Archives ELSE Presets

TypeInv ==
  /\ LeftInv
  /\ isOpen \in BOOLEAN /\ working \in BOOLEAN /\ unsettled \in BOOLEAN
  /\ archived \in [Archives -> ArchiveStates]
  /\ cluster \subseteq Presets
  /\ backups \subseteq Archives
  /\ schedules \subseteq Presets
  /\ target \in Archives \cup {NoArchive}
  /\ others \subseteq Presets
  /\ calls \subseteq Calls
  /\ \A c \in calls : CallInv(c)

\* One change at a time, and the flag says so.
WorkInv ==
  /\ working \in BOOLEAN
  /\ \A c, d \in calls : c.op \in WorkingOps /\ d.op \in WorkingOps => c = d
  /\ working <=> \E c \in calls : c.op \in WorkingOps

\* A request that will bring the list l, or has it.
Brings(c, l) == ListOf(c.op) = l /\ c.at \in {"list", "listed"}

\* Backups that this dialog has not deleted.
Kept == {a \in Archives : archived[a] \in {"there", "removed"}}

\* A list that is older than a deletion is followed by the deletion's own.
BackupsInv ==
  ~ unsettled =>
    /\ \/ backups \subseteq Kept
       \/ \E d \in calls : d.op = "delete" /\ d.at \in {"list", "listed"}
    /\ \A c \in calls : Brings(c, "backups") /\ c.at = "listed" =>
         \/ c.got \subseteq Kept
         \/ \E d \in calls : d.op = "delete" /\ d.at = "list"

\* The same for the schedules, but for those that others changed.
SchedulesInv ==
  ~ unsettled /\ left.openings < MaxOpenings =>
    /\ schedules \ others = cluster \ others \/ \E c \in calls : Brings(c, "schedules")
    /\ \A c \in calls : Brings(c, "schedules") /\ c.at = "listed" =>
         \/ c.got \ others = cluster \ others
         \/ \E d \in calls : Brings(d, "schedules") /\ d.at = "list"

Inv == TypeInv /\ WorkInv /\ BackupsInv /\ SchedulesInv

-----------------------------------------------------------------------------
(* Requests *)

\* What the two kinds of request are when they are made.
LEMMA NewCall ==
  ASSUME LeftInv, NEW op \in Ops, NEW item \in Archives \cup Presets \cup {NoArchive}
  PROVE  /\ Call(op, item) \in Calls /\ Call(op, item).op = op
         /\ Call(op, item).at = "sent" /\ Call(op, item).item = item
         /\ Call(op, item).got = {}
         /\ ListCall(op) \in Calls /\ ListCall(op).op = op
         /\ ListCall(op).at = "list" /\ ListCall(op).got = {}
  BY DEF LeftInv, Call, ListCall, Calls, Points

\* What the bounds leave after a request or an error.
LEMMA LeftType ==
  ASSUME LeftInv
  PROVE  /\ \A c : Start(c) => LeftInv' /\ left'.openings = left.openings
         /\ Fails => LeftInv' /\ left'.openings = left.openings
         /\ Interferes => LeftInv' /\ left'.openings = left.openings
  BY DEF LeftInv, Start, Fails, Interferes

\* A request that goes on is the same request.
LEMMA SameCall ==
  ASSUME NEW c \in Calls, CallInv(c), NEW at \in {"list", "listed"},
         c.op \in WorkingOps \cup ListOps,
         NEW g \in SUBSET (IF ListOf(c.op) = "backups" THEN Archives ELSE Presets)
  PROVE  /\ [c EXCEPT !.at = at] \in Calls /\ CallInv([c EXCEPT !.at = at])
         /\ [c EXCEPT !.at = at].op = c.op /\ [c EXCEPT !.at = at].at = at
         /\ [c EXCEPT !.at = at].got = c.got
         /\ [c EXCEPT !.at = at, !.got = g] \in Calls
         /\ CallInv([c EXCEPT !.at = at, !.got = g])
         /\ [c EXCEPT !.at = at, !.got = g].op = c.op
         /\ [c EXCEPT !.at = at, !.got = g].at = at
         /\ [c EXCEPT !.at = at, !.got = g].got = g
  <1> DEFINE d == [c EXCEPT !.at = at]
             e == [c EXCEPT !.at = at, !.got = g]
  <1>1. /\ d.id = c.id /\ d.op = c.op /\ d.item = c.item /\ d.at = at /\ d.got = c.got
        /\ e.id = c.id /\ e.op = c.op /\ e.item = c.item /\ e.at = at /\ e.got = g
    BY DEF Calls
  <1>2. g \subseteq Archives \cup Presets
    OBVIOUS
  <1>3. d \in Calls /\ e \in Calls
    BY <1>2 DEF Calls, Points
  <1>4. CallInv(d)
    <2> HIDE DEF d
    <2> QED
      BY <1>1 DEF CallInv, WorkingOps, ListOps
  <1>5. CallInv(e)
    <2> HIDE DEF e
    <2> QED
      BY <1>1 DEF CallInv, WorkingOps, ListOps
  <1> QED
    BY <1>1, <1>3, <1>4, <1>5

\* What the backend answers is of the right kind.
LEMMA AnsweredType ==
  ASSUME TypeInv, NEW op \in Ops
  PROVE  Answered(op) \subseteq IF ListOf(op) = "backups" THEN Archives ELSE Presets
  BY DEF TypeInv, Answered, There

-----------------------------------------------------------------------------
(* TypeInv *)

\* The types hold at the start.
LEMMA InitType == BackupAssumption /\ Init => TypeInv
  <1> SUFFICES ASSUME BackupAssumption, Init PROVE TypeInv
    OBVIOUS
  <1>1. LeftInv
    BY DEF BackupAssumption, Init, LeftInv
  <1>2. archived \in [Archives -> ArchiveStates]
    BY DEF Init, ArchiveStates
  <1> QED
    BY <1>1, <1>2 DEF Init, TypeInv

\* The requests that are new or go on are well formed.
LEMMA CallsStep ==
  ASSUME TypeInv, [Next]_vars
  PROVE  calls' \subseteq Calls /\ \A c \in calls' : CallInv(c)'
  <1> USE DEF TypeInv
  <1>0. \A c : CallInv(c)' <=> CallInv(c)
    BY DEF CallInv, ListOf
  <1>1. CASE calls' \subseteq calls
    BY <1>0, <1>1
  <1>2. ASSUME NEW d \in Calls, CallInv(d), calls' \subseteq calls \cup {d}
        PROVE  calls' \subseteq Calls /\ \A c \in calls' : CallInv(c)'
    BY <1>0, <1>2
  <1>3. ASSUME NEW op \in Ops, NEW item \in Archives \cup Presets \cup {NoArchive},
               Start(Call(op, item)), op \notin ListOps,
               op \in {"schedule", "unschedule"} => item \in Presets
        PROVE  calls' \subseteq Calls /\ \A c \in calls' : CallInv(c)'
    <2> DEFINE d == Call(op, item)
    <2>1. d \in Calls /\ d.op = op /\ d.at = "sent" /\ d.item = item /\ d.got = {}
      BY NewCall
    <2>2. calls' \subseteq calls \cup {d}
      BY <1>3 DEF Start
    <2> HIDE DEF d
    <2>3. CallInv(d)
      BY <1>3, <2>1 DEF CallInv
    <2> QED
      BY <1>2, <2>1, <2>2, <2>3
  <1>4. CASE Open
    <2> DEFINE d == ListCall("backups")
               e == ListCall("schedules")
    <2>1. /\ d \in Calls /\ d.op = "backups" /\ d.at = "list" /\ d.got = {}
          /\ e \in Calls /\ e.op = "schedules" /\ e.at = "list" /\ e.got = {}
      BY NewCall DEF Ops, ListOps
    <2>2. calls' = calls \cup {d, e}
      BY <1>4 DEF Open
    <2> HIDE DEF d, e
    <2>3. CallInv(d) /\ CallInv(e)
      BY <2>1 DEF CallInv
    <2> QED
      BY <1>0, <2>1, <2>2, <2>3
  <1>5. CASE Close \/ CancelRestore \/ UNCHANGED vars
    BY <1>1, <1>5 DEF Close, CancelRestore, vars
  <1>6. ASSUME NEW a \in Archives, ChooseRestore(a) \/ Made(a) \/ Removed(a)
         PROVE  calls' \subseteq calls
    BY <1>6 DEF ChooseRestore, Made, Removed
  <1>7. ASSUME NEW p \in Presets, Rescheduled(p)
         PROVE  calls' \subseteq calls
    BY <1>7 DEF Rescheduled
  <1>8. CASE Restore
    BY <1>3, <1>8 DEF Restore, Ops, ListOps
  <1>9. CASE BackupNow
    BY <1>3, <1>9 DEF BackupNow, Ops, ListOps
  <1>10. ASSUME NEW a \in Archives, Delete(a)
        PROVE  calls' \subseteq Calls /\ \A c \in calls' : CallInv(c)'
    BY <1>3, <1>10 DEF Delete, Ops, ListOps, WorkingOps
  <1>11. ASSUME NEW p \in Presets, Schedule(p) \/ Unschedule(p)
        PROVE  calls' \subseteq Calls /\ \A c \in calls' : CallInv(c)'
    BY <1>3, <1>11 DEF Schedule, Unschedule, Ops, ListOps, WorkingOps
  <1>12. ASSUME NEW c \in calls,
                \/ RestoreAnswered(c) \/ BackupAnswered(c) \/ Failed(c)
                \/ NotThere(c) \/ ListAnswered(c)
         PROVE  calls' \subseteq calls
    BY <1>12 DEF RestoreAnswered, BackupAnswered, Failed, NotThere, ListAnswered, Over
  <1>13. ASSUME NEW c \in calls, Changed(c)
         PROVE  calls' \subseteq Calls /\ \A d \in calls' : CallInv(d)'
    <2>1. c \in Calls /\ CallInv(c) /\ c.op \in WorkingOps
      BY <1>13 DEF Changed
    <2>2. [c EXCEPT !.at = "list"] \in Calls /\ CallInv([c EXCEPT !.at = "list"])
      BY <2>1, SameCall
    <2>3. calls' = (calls \ {c}) \cup {[c EXCEPT !.at = "list"]}
      BY <1>13, <2>1 DEF Changed, Relists, Goes
    <2> QED
      BY <1>2, <2>2, <2>3
  <1>14. ASSUME NEW c \in calls, ListRead(c)
         PROVE  calls' \subseteq Calls /\ \A d \in calls' : CallInv(d)'
    <2>1. c \in Calls /\ CallInv(c) /\ c.at = "list"
      BY <1>14 DEF ListRead
    <2>2. c.op \in WorkingOps \cup ListOps /\ c.op \in Ops
      BY <2>1 DEF CallInv, Calls, Ops
    <2> DEFINE d == [c EXCEPT !.at = "listed", !.got = Answered(c.op)]
    <2>3. d \in Calls /\ CallInv(d)
      BY <2>1, <2>2, SameCall, AnsweredType
    <2>4. calls' = (calls \ {c}) \cup {d}
      BY <1>14 DEF ListRead, Goes
    <2> HIDE DEF d
    <2> QED
      BY <1>2, <2>3, <2>4
  <1> QED
    BY <1>1, <1>4, <1>5, <1>6, <1>7, <1>8, <1>9, <1>10, <1>11, <1>12, <1>13, <1>14
       DEF Next

\* Every step keeps the types.
LEMMA TypeStep == TypeInv /\ [Next]_vars => TypeInv'
  <1> SUFFICES ASSUME TypeInv, [Next]_vars PROVE TypeInv'
    OBVIOUS
  <1>0. calls' \subseteq Calls /\ \A c \in calls' : CallInv(c)'
    BY CallsStep
  <1> DEFINE Rest == /\ isOpen' \in BOOLEAN /\ working' \in BOOLEAN
                     /\ unsettled' \in BOOLEAN
                     /\ archived' \in [Archives -> ArchiveStates]
                     /\ cluster' \subseteq Presets
                     /\ backups' \subseteq Archives
                     /\ schedules' \subseteq Presets
                     /\ target' \in Archives \cup {NoArchive}
                     /\ others' \subseteq Presets
  <1>1. LeftInv' /\ Rest => TypeInv'
    BY <1>0 DEF TypeInv
  <1>2. /\ LeftInv
        /\ \A c : Start(c) => LeftInv'
        /\ Fails => LeftInv'
        /\ Interferes => LeftInv'
        /\ UNCHANGED left => LeftInv'
    BY LeftType DEF TypeInv, LeftInv
  <1>3. ASSUME NEW c \in calls, c.op \in WorkingOps, Done(c)
        PROVE  /\ archived' \in [Archives -> ArchiveStates]
               /\ cluster' \subseteq Presets
    <2>1. CASE c.op = "delete"
      <3>1. archived' = [archived EXCEPT ![c.item] = "deleted"] /\ UNCHANGED cluster
        BY <1>3, <2>1 DEF Done
      <3>2. "deleted" \in ArchiveStates
        BY DEF ArchiveStates
      <3> QED
        BY <3>1, <3>2 DEF TypeInv
    <2>2. CASE c.op \in {"schedule", "unschedule"}
      <3>1. UNCHANGED archived
            /\ (cluster' = cluster \cup {c.item} \/ cluster' = cluster \ {c.item})
        BY <1>3, <2>2 DEF Done
      <3>2. c.item \in Presets
        BY <2>2 DEF TypeInv, CallInv
      <3> QED
        BY <3>1, <3>2 DEF TypeInv
    <2> QED
      BY <1>3, <2>1, <2>2 DEF WorkingOps
  <1>4. \A c : Released(c) \in BOOLEAN
    BY DEF Released, TypeInv
  <1>5. CASE Open
    <2>1. LeftInv'
      BY <1>5 DEF Open, TypeInv, LeftInv
    <2> QED
      BY <1>1, <1>5, <2>1 DEF Open, TypeInv, proxmox, shown
  <1>6. CASE Close \/ CancelRestore
    BY <1>1, <1>2, <1>6 DEF Close, CancelRestore, TypeInv, proxmox, shown,
                            WorkingWhenClosed
  <1>7. CASE Restore \/ BackupNow
    BY <1>1, <1>2, <1>7 DEF Restore, BackupNow, TypeInv, proxmox, shown
  <1>8. ASSUME NEW a \in Archives, ChooseRestore(a) \/ Delete(a)
        PROVE  TypeInv'
    BY <1>1, <1>2, <1>8 DEF ChooseRestore, Delete, TypeInv, proxmox, shown
  <1>9. ASSUME NEW a \in Archives, Made(a) \/ Removed(a)
        PROVE  TypeInv'
    <2>1. archived' \in [Archives -> ArchiveStates]
      BY <1>9 DEF Made, Removed, TypeInv, ArchiveStates
    <2> QED
      BY <1>1, <1>2, <1>9, <2>1 DEF Made, Removed, TypeInv, shown
  <1>10. ASSUME NEW p \in Presets, Schedule(p) \/ Unschedule(p)
         PROVE  TypeInv'
    BY <1>1, <1>2, <1>10 DEF Schedule, Unschedule, TypeInv, proxmox, shown
  <1>11. ASSUME NEW c \in calls, RestoreAnswered(c) \/ BackupAnswered(c)
         PROVE  TypeInv'
    BY <1>1, <1>2, <1>11 DEF RestoreAnswered, BackupAnswered, TypeInv, proxmox, shown
  <1>12. ASSUME NEW c \in calls, Changed(c)
         PROVE  TypeInv'
    <2>1. /\ archived' \in [Archives -> ArchiveStates]
          /\ cluster' \subseteq Presets
      BY <1>3, <1>12 DEF Changed
    <2>2. working' \in BOOLEAN
      BY <1>4, <1>12 DEF Changed, TypeInv
    <2> QED
      BY <1>1, <1>2, <1>12, <2>1, <2>2 DEF Changed, TypeInv, shown
  <1>13. ASSUME NEW c \in calls, Failed(c)
         PROVE  TypeInv'
    <2>1. /\ archived' \in [Archives -> ArchiveStates]
          /\ cluster' \subseteq Presets
      BY <1>3, <1>13 DEF Failed, TypeInv, proxmox
    <2>2. LeftInv'
      BY <1>2, <1>13 DEF Failed
    <2> QED
      BY <1>1, <1>4, <1>13, <2>1, <2>2 DEF Failed, TypeInv, shown
  <1>14. ASSUME NEW c \in calls, ListRead(c)
         PROVE  TypeInv'
    <2>1. unsettled' \in BOOLEAN
      BY <1>14 DEF ListRead, TypeInv
    <2> QED
      BY <1>1, <1>2, <1>14, <2>1 DEF ListRead, TypeInv, proxmox, shown
  <1>15. ASSUME NEW c \in calls, ListAnswered(c)
         PROVE  TypeInv'
    <2>1. c.got \subseteq IF ListOf(c.op) = "backups" THEN Archives ELSE Presets
      BY DEF TypeInv, CallInv
    <2>2. ASSUME NEW got, got \in {c.got, {}}, Shows(c, got)
          PROVE  backups' \subseteq Archives /\ schedules' \subseteq Presets
      BY <2>1, <2>2 DEF Shows, ListOf, TypeInv
    <2>3. /\ backups' \subseteq Archives /\ schedules' \subseteq Presets
          /\ LeftInv' /\ unsettled' \in BOOLEAN
      BY <1>2, <1>15, <2>2 DEF ListAnswered, TypeInv
    <2> QED
      BY <1>1, <1>4, <1>15, <2>3 DEF ListAnswered, TypeInv, proxmox
  <1>16. CASE UNCHANGED vars
    BY <1>1, <1>2, <1>16 DEF vars, TypeInv, proxmox, shown
  <1>17. ASSUME NEW p \in Presets, Rescheduled(p)
         PROVE  TypeInv'
    BY <1>1, <1>2, <1>17 DEF Rescheduled, TypeInv, shown
  <1>18. ASSUME NEW c \in calls, NotThere(c)
         PROVE  TypeInv'
    BY <1>1, <1>2, <1>4, <1>18 DEF NotThere, TypeInv, proxmox, shown
  <1> QED
    BY <1>5, <1>6, <1>7, <1>8, <1>9, <1>10, <1>11, <1>12, <1>13, <1>14, <1>15, <1>16,
       <1>17, <1>18 DEF Next

-----------------------------------------------------------------------------
(* One change at a time *)

\* The flag and the changes on their way.
LEMMA WorkStep ==
  ASSUME TypeInv, WorkInv, [Next]_vars
  PROVE  WorkInv'
  <1>0. /\ calls \subseteq Calls /\ LeftInv /\ \A c \in calls : CallInv(c)
        /\ WorkingOps \cap ListOps = {}
    BY DEF TypeInv, WorkingOps, ListOps
  <1>1. ASSUME NEW d, d.op \notin WorkingOps, calls' = calls \cup {d}, UNCHANGED working
        PROVE  WorkInv'
    BY <1>1 DEF WorkInv
  <1>2. ASSUME NEW d, d.op \in WorkingOps, calls' = calls \cup {d}, ~ working, working'
        PROVE  WorkInv'
    BY <1>2 DEF WorkInv
  <1>3. ASSUME NEW c \in calls, Over(c), working' = Released(c)
        PROVE  WorkInv'
    BY <1>3 DEF WorkInv, Over, Released
  <1>4. ASSUME NEW c \in calls, NEW d, d.op = c.op, Goes(c, d), UNCHANGED working
        PROVE  WorkInv'
    BY <1>4 DEF WorkInv, Goes
  <1>5. CASE UNCHANGED <<working, calls>>
    BY <1>5 DEF WorkInv
  <1>6. CASE Open
    <2> DEFINE d == ListCall("backups")
               e == ListCall("schedules")
    <2>1. d.op \notin WorkingOps /\ e.op \notin WorkingOps
      BY <1>0, NewCall DEF Ops, ListOps
    <2>2. calls' = calls \cup {d, e} /\ UNCHANGED working
      BY <1>6 DEF Open
    <2> HIDE DEF d, e
    <2> QED
      BY <2>1, <2>2 DEF WorkInv
  <1>7. CASE Close \/ CancelRestore \/ UNCHANGED vars
    BY <1>5, <1>7 DEF Close, CancelRestore, vars, WorkingWhenClosed
  <1>8. ASSUME NEW a \in Archives, ChooseRestore(a) \/ Made(a) \/ Removed(a)
         PROVE  WorkInv'
    BY <1>5, <1>8 DEF ChooseRestore, Made, Removed
  <1>9. ASSUME NEW p \in Presets, Rescheduled(p)
         PROVE  WorkInv'
    BY <1>5, <1>9 DEF Rescheduled
  <1>10. CASE Restore
    <2>1. target \in Archives \cup Presets \cup {NoArchive}
      BY DEF TypeInv
    <2>2. Call("restore", target).op = "restore" /\ "restore" \notin WorkingOps
      BY <1>0, <2>1, NewCall DEF Ops, WorkingOps
    <2> QED
      BY <1>1, <1>10, <2>2 DEF Restore, Start
  <1>11. CASE BackupNow
    <2>1. Call("backup", NoArchive).op = "backup" /\ "backup" \notin WorkingOps
      BY <1>0, NewCall DEF Ops, WorkingOps
    <2> QED
      BY <1>1, <1>11, <2>1 DEF BackupNow, Start
  <1>12. ASSUME NEW a \in Archives, Delete(a)
         PROVE  WorkInv'
    <2>1. Call("delete", a).op = "delete" /\ "delete" \in WorkingOps
      BY <1>0, NewCall DEF Ops, WorkingOps
    <2> QED
      BY <1>2, <1>12, <2>1 DEF Delete, Start
  <1>13. ASSUME NEW p \in Presets, Schedule(p) \/ Unschedule(p)
         PROVE  WorkInv'
    <2>1. /\ Call("schedule", p).op = "schedule" /\ "schedule" \in WorkingOps
          /\ Call("unschedule", p).op = "unschedule" /\ "unschedule" \in WorkingOps
      BY <1>0, NewCall DEF Ops, WorkingOps
    <2> QED
      BY <1>2, <1>13, <2>1 DEF Schedule, Unschedule, Start
  <1>14. ASSUME NEW c \in calls, RestoreAnswered(c) \/ BackupAnswered(c)
         PROVE  WorkInv'
    <2>1. Over(c) /\ UNCHANGED working /\ c.op \notin WorkingOps
      BY <1>14 DEF RestoreAnswered, BackupAnswered, WorkingOps
    <2> QED
      BY <2>1 DEF WorkInv, Over
  <1>15. ASSUME NEW c \in calls, Changed(c)
         PROVE  WorkInv'
    <2>1. [c EXCEPT !.at = "list"].op = c.op
      BY <1>0 DEF Calls
    <2> QED
      BY <1>4, <1>15, <2>1 DEF Changed, Relists
  <1>16. ASSUME NEW c \in calls, Failed(c) \/ NotThere(c) \/ ListAnswered(c)
         PROVE  WorkInv'
    BY <1>3, <1>16 DEF Failed, NotThere, ListAnswered
  <1>17. ASSUME NEW c \in calls, ListRead(c)
         PROVE  WorkInv'
    <2>1. [c EXCEPT !.at = "listed", !.got = Answered(c.op)].op = c.op
      BY <1>0 DEF Calls
    <2> QED
      BY <1>4, <1>17, <2>1 DEF ListRead
  <1> QED
    BY <1>6, <1>7, <1>8, <1>9, <1>10, <1>11, <1>12, <1>13, <1>14, <1>15, <1>16, <1>17
       DEF Next

-----------------------------------------------------------------------------
(* The lists *)

\* The steps that neither change Proxmox nor a list that is shown.
LEMMA ListsFrame ==
  ASSUME TypeInv,
         \/ Close \/ CancelRestore \/ Restore \/ BackupNow \/ UNCHANGED vars
         \/ \E a \in Archives : ChooseRestore(a) \/ Delete(a)
         \/ \E p \in Presets : Schedule(p) \/ Unschedule(p)
         \/ \E c \in calls : RestoreAnswered(c) \/ BackupAnswered(c) \/ NotThere(c)
  PROVE  /\ UNCHANGED <<archived, cluster, backups, schedules, others, unsettled>>
         /\ left'.openings = left.openings
         /\ \A c \in calls : c \in calls' \/ c.at = "sent"
         /\ \A c \in calls' : c \in calls \/ c.at # "listed"
  <1>0. LeftInv
    BY DEF TypeInv
  <1>1. \A op, item : Call(op, item).at = "sent"
    BY DEF Call
  <1>2. ASSUME NEW c, Start(c), c.at = "sent"
        PROVE  /\ left'.openings = left.openings
               /\ \A d \in calls : d \in calls'
               /\ \A d \in calls' : d \in calls \/ d.at # "listed"
    BY <1>0, <1>2, LeftType DEF Start
  <1>3. CASE Close \/ CancelRestore \/ UNCHANGED vars
    BY <1>3 DEF Close, CancelRestore, vars, proxmox, shown
  <1>4. CASE Restore \/ BackupNow
    BY <1>1, <1>2, <1>4 DEF Restore, BackupNow, proxmox, shown
  <1>5. ASSUME NEW a \in Archives, ChooseRestore(a) \/ Delete(a)
        PROVE  /\ UNCHANGED <<archived, cluster, backups, schedules, others, unsettled>>
               /\ left'.openings = left.openings
               /\ \A c \in calls : c \in calls' \/ c.at = "sent"
               /\ \A c \in calls' : c \in calls \/ c.at # "listed"
    BY <1>1, <1>2, <1>5 DEF ChooseRestore, Delete, proxmox, shown
  <1>6. ASSUME NEW p \in Presets, Schedule(p) \/ Unschedule(p)
        PROVE  /\ UNCHANGED <<archived, cluster, backups, schedules, others, unsettled>>
               /\ left'.openings = left.openings
               /\ \A c \in calls : c \in calls' \/ c.at = "sent"
               /\ \A c \in calls' : c \in calls \/ c.at # "listed"
    BY <1>1, <1>2, <1>6 DEF Schedule, Unschedule, proxmox, shown
  <1>7. ASSUME NEW c \in calls, RestoreAnswered(c) \/ BackupAnswered(c) \/ NotThere(c)
        PROVE  /\ UNCHANGED <<archived, cluster, backups, schedules, others, unsettled>>
               /\ left'.openings = left.openings
               /\ \A d \in calls : d \in calls' \/ d.at = "sent"
               /\ \A d \in calls' : d \in calls \/ d.at # "listed"
    BY <1>7 DEF RestoreAnswered, BackupAnswered, NotThere, Over, proxmox, shown
  <1> QED
    BY <1>3, <1>4, <1>5, <1>6, <1>7

\* What a step does to the requests alone: one more that has no answer yet, or one
\* less that brings no list.  The same for the schedules.
LEMMA BackupsKept ==
  ASSUME BackupsInv, UNCHANGED <<archived, backups, unsettled>>,
         \A c \in calls : c \in calls' \/ c.at = "sent",
         \A c \in calls' : c \in calls \/ c.at # "listed"
  PROVE  BackupsInv'
  BY DEF BackupsInv, Brings, Kept

\* A step that changes no schedule, and neither takes a list of schedules away
\* nor brings one, keeps what is known of the schedules shown.
LEMMA SchedulesKept ==
  ASSUME SchedulesInv, UNCHANGED <<cluster, schedules, others, unsettled>>,
         left'.openings = left.openings,
         \A c \in calls : c \in calls' \/ c.at = "sent",
         \A c \in calls' : c \in calls \/ c.at # "listed"
  PROVE  SchedulesInv'
  BY DEF SchedulesInv, Brings

\* The backups shown, or a deletion's list to come, are those there are.
LEMMA BackupsStep ==
  ASSUME TypeInv, BackupsInv, [Next]_vars
  PROVE  BackupsInv'
  <1>0. calls \subseteq Calls /\ \A c \in calls : CallInv(c)
    BY DEF TypeInv
  <1>1. CASE Open
    <2> DEFINE d == ListCall("backups")
               e == ListCall("schedules")
    <2>1. d.at # "listed" /\ e.at # "listed"
      BY DEF ListCall
    <2>2. calls' = calls \cup {d, e} /\ UNCHANGED <<archived, backups, unsettled>>
      BY <1>1 DEF Open, proxmox, shown
    <2> HIDE DEF d, e
    <2> QED
      BY <2>1, <2>2, BackupsKept
  <1>2. ASSUME NEW a \in Archives, Made(a) \/ Removed(a)
        PROVE  BackupsInv'
    <2>1. Kept \subseteq Kept'
      BY <1>2 DEF Made, Removed, Kept, TypeInv
    <2> QED
      BY <1>2, <2>1 DEF Made, Removed, shown, BackupsInv, Brings
  <1>3. ASSUME NEW c \in calls, Changed(c)
        PROVE  BackupsInv'
    <2> DEFINE d == [c EXCEPT !.at = "list"]
    <2>1. d.op = c.op /\ d.at = "list"
      BY <1>0 DEF Calls
    <2>2. calls' = (calls \ {c}) \cup {d} /\ c.at = "sent" /\ c.op \in WorkingOps
          /\ UNCHANGED <<backups, unsettled>>
      BY <1>3 DEF Changed, Relists, Goes, shown
    <2>3. c.op # "delete" => UNCHANGED archived
      BY <1>3, <2>2 DEF Changed, Done, WorkingOps
    <2> HIDE DEF d
    <2>4. CASE c.op = "delete"
      BY <2>1, <2>2, <2>4 DEF BackupsInv, Brings
    <2>5. CASE c.op # "delete"
      BY <2>1, <2>2, <2>3, <2>5, BackupsKept
    <2> QED
      BY <2>4, <2>5
  <1>4. ASSUME NEW p \in Presets, Rescheduled(p)
        PROVE  BackupsInv'
    BY <1>4, BackupsKept DEF Rescheduled, shown
  <1>5. ASSUME NEW c \in calls, Failed(c)
        PROVE  BackupsInv'
    BY <1>5 DEF Failed, BackupsInv
  <1>6. ASSUME NEW c \in calls, ListRead(c)
        PROVE  BackupsInv'
    <2> DEFINE e == [c EXCEPT !.at = "listed", !.got = Answered(c.op)]
    <2>1. e.op = c.op /\ e.at = "listed" /\ e.got = Answered(c.op)
      BY <1>0 DEF Calls
    <2>2. calls' = (calls \ {c}) \cup {e} /\ c.at = "list"
          /\ UNCHANGED <<archived, backups>>
      BY <1>6 DEF ListRead, Goes, shown, proxmox
    <2>3. ~ unsettled' =>
            ~ unsettled /\ \A d \in calls : d.at = "listed" => ListOf(d.op) # ListOf(c.op)
      BY <1>6 DEF ListRead
    <2>4. ListOf(c.op) = "backups" => e.got \subseteq Kept
      BY <2>1 DEF Answered, There, Kept
    <2> HIDE DEF e
    <2>5. CASE ListOf(c.op) = "backups"
      <3> SUFFICES ASSUME ~ unsettled' PROVE BackupsInv'
        BY DEF BackupsInv
      <3>1. backups \subseteq Kept
            \/ \E d \in calls' : d.op = "delete" /\ d.at \in {"list", "listed"}
        BY <2>1, <2>2, <2>3 DEF BackupsInv
      <3>2. \A d \in calls' : Brings(d, "backups") /\ d.at = "listed" => d = e
        BY <2>2, <2>3, <2>5 DEF Brings
      <3>3. Kept' = Kept /\ \A d \in calls' : Brings(d, "backups")' = Brings(d, "backups")
        BY <2>2 DEF Kept, Brings, ListOf
      <3> QED
        BY <2>2, <2>4, <2>5, <3>1, <3>2, <3>3 DEF BackupsInv
    <2>6. CASE ListOf(c.op) # "backups"
      <3>1. c.op # "delete"
        BY <2>6 DEF ListOf
      <3> QED
        BY <2>1, <2>2, <2>3, <2>6, <3>1 DEF BackupsInv, Brings, Kept, ListOf
    <2> QED
      BY <2>5, <2>6
  <1>7. ASSUME NEW c \in calls, ListAnswered(c)
        PROVE  BackupsInv'
    <2>1. c.at = "listed" /\ calls' = calls \ {c} /\ UNCHANGED archived
      BY <1>7 DEF ListAnswered, Over, proxmox
    <2>2. CASE unsettled'
      BY <2>2 DEF BackupsInv
    <2>3. CASE ~ unsettled' /\ Shows(c, c.got) /\ UNCHANGED unsettled
      <3>1. CASE ListOf(c.op) = "backups"
        <4>1. backups' = c.got
          BY <2>3, <3>1 DEF Shows
        <4> QED
          BY <2>1, <2>3, <3>1, <4>1 DEF BackupsInv, Brings, Kept
      <3>2. CASE ListOf(c.op) # "backups"
        <4>1. backups' = backups /\ c.op # "delete"
          BY <2>3, <3>2 DEF Shows, ListOf
        <4> QED
          BY <2>1, <2>3, <4>1 DEF BackupsInv, Brings, Kept
      <3> QED
        BY <3>1, <3>2
    <2> QED
      BY <1>7, <2>2, <2>3 DEF ListAnswered
  <1> QED
    BY <1>1, <1>2, <1>3, <1>4, <1>5, <1>6, <1>7, ListsFrame, BackupsKept DEF Next

\* The schedules shown, or a list to come, are the guest's.
LEMMA SchedulesStep ==
  ASSUME TypeInv, SchedulesInv, [Next]_vars
  PROVE  SchedulesInv'
  <1>0. calls \subseteq Calls /\ LeftInv
    BY DEF TypeInv
  <1>1. CASE Open
    <2> DEFINE d == ListCall("backups")
               e == ListCall("schedules")
    <2>1. e.at = "list" /\ e.op = "schedules"
      BY DEF ListCall
    <2>2. calls' = calls \cup {d, e}
      BY <1>1 DEF Open
    <2> HIDE DEF d, e
    <2>3. \E f \in calls' : Brings(f, "schedules")' /\ f.at = "list"
      BY <2>1, <2>2 DEF Brings, ListOf
    <2> QED
      BY <2>3 DEF SchedulesInv
  <1>2. ASSUME NEW a \in Archives, Made(a) \/ Removed(a)
        PROVE  SchedulesInv'
    BY <1>0, <1>2, LeftType, SchedulesKept DEF Made, Removed, shown
  <1>3. ASSUME NEW p \in Presets, Rescheduled(p)
        PROVE  SchedulesInv'
    <2>1. /\ left'.openings = left.openings /\ others' = others \cup {p}
          /\ cluster' \ others' = cluster \ others'
          /\ UNCHANGED <<calls, schedules, unsettled>>
      BY <1>0, <1>3, LeftType DEF Rescheduled, shown
    <2>2. \A S : S \ others = cluster \ others => S \ others' = cluster' \ others'
      BY <2>1
    <2> QED
      BY <2>1, <2>2 DEF SchedulesInv, Brings
  <1>4. ASSUME NEW c \in calls, Changed(c)
        PROVE  SchedulesInv'
    <2> DEFINE d == [c EXCEPT !.at = "list"]
    <2>1. d.op = c.op /\ d.at = "list"
      BY <1>0 DEF Calls
    <2>2. calls' = (calls \ {c}) \cup {d} /\ c.at = "sent" /\ c.op \in WorkingOps
          /\ UNCHANGED <<schedules, others, unsettled, left>>
      BY <1>4 DEF Changed, Relists, Goes, shown
    <2>3. c.op = "delete" => UNCHANGED cluster
      BY <1>4 DEF Changed, Done
    <2> HIDE DEF d
    <2>4. CASE c.op = "delete"
      BY <2>1, <2>2, <2>3, <2>4, SchedulesKept
    <2>5. CASE c.op # "delete"
      <3>1. d \in calls' /\ Brings(d, "schedules")' /\ d.at = "list"
        BY <2>1, <2>2, <2>5 DEF Brings, ListOf, WorkingOps
      <3> QED
        BY <3>1 DEF SchedulesInv
    <2> QED
      BY <2>4, <2>5
  <1>5. ASSUME NEW c \in calls, Failed(c)
        PROVE  SchedulesInv'
    BY <1>5 DEF Failed, SchedulesInv
  <1>6. ASSUME NEW c \in calls, ListRead(c)
        PROVE  SchedulesInv'
    <2> DEFINE e == [c EXCEPT !.at = "listed", !.got = Answered(c.op)]
    <2>1. e.op = c.op /\ e.at = "listed" /\ e.got = Answered(c.op)
      BY <1>0 DEF Calls
    <2>2. calls' = (calls \ {c}) \cup {e} /\ c.at = "list"
          /\ UNCHANGED <<cluster, schedules, left>>
          /\ (ListOf(c.op) # "schedules" => UNCHANGED others)
      BY <1>6 DEF ListRead, Goes, shown, proxmox
    <2>3. ~ unsettled' =>
            ~ unsettled /\ \A d \in calls : d.at = "listed" => ListOf(d.op) # ListOf(c.op)
      BY <1>6 DEF ListRead
    <2>4. ListOf(c.op) = "schedules" => e.got = cluster
      BY <2>1 DEF Answered
    <2> HIDE DEF e
    <2>5. CASE ListOf(c.op) = "schedules"
      <3>1. \A d \in calls' : ~ unsettled' /\ Brings(d, "schedules") /\ d.at = "listed"
              => d = e
        BY <2>2, <2>3, <2>5 DEF Brings
      <3>2. e \in calls' /\ Brings(e, "schedules")
        BY <2>1, <2>2, <2>5 DEF Brings
      <3>3. \A d : Brings(d, "schedules")' = Brings(d, "schedules")
        BY DEF Brings, ListOf
      <3> QED
        BY <2>2, <2>4, <2>5, <3>1, <3>2, <3>3 DEF SchedulesInv
    <2>6. CASE ListOf(c.op) # "schedules"
      BY <2>1, <2>2, <2>3, <2>6 DEF SchedulesInv, Brings, ListOf
    <2> QED
      BY <2>5, <2>6
  <1>7. ASSUME NEW c \in calls, ListAnswered(c)
        PROVE  SchedulesInv'
    <2>1. c.at = "listed" /\ calls' = calls \ {c} /\ UNCHANGED <<cluster, others>>
      BY <1>7 DEF ListAnswered, Over, proxmox
    <2>2. CASE unsettled'
      BY <2>2 DEF SchedulesInv
    <2>3. CASE ~ unsettled' /\ Shows(c, c.got) /\ UNCHANGED <<left, unsettled>>
      <3>1. CASE ListOf(c.op) = "schedules"
        <4>1. schedules' = c.got /\ Brings(c, "schedules")
          BY <2>1, <2>3, <3>1 DEF Shows, Brings
        <4> QED
          BY <2>1, <2>3, <4>1 DEF SchedulesInv, Brings
      <3>2. CASE ListOf(c.op) # "schedules"
        <4>1. schedules' = schedules
          BY <2>3, <3>2 DEF Shows, ListOf
        <4> QED
          BY <2>1, <2>3, <3>2, <4>1 DEF SchedulesInv, Brings
      <3> QED
        BY <3>1, <3>2
    <2> QED
      BY <1>7, <2>2, <2>3 DEF ListAnswered
  <1> QED
    BY <1>1, <1>2, <1>3, <1>4, <1>5, <1>6, <1>7, ListsFrame, SchedulesKept DEF Next

-----------------------------------------------------------------------------
(* The theorems *)

\* No request has been made at the start.
LEMMA InitInv == BackupAssumption /\ Init => Inv
  <1> SUFFICES ASSUME BackupAssumption, Init PROVE Inv
    OBVIOUS
  <1>1. calls = {} /\ working = FALSE /\ backups = {} /\ left.openings = MaxOpenings
    BY DEF Init
  <1>2. WorkInv /\ BackupsInv
    BY <1>1 DEF WorkInv, BackupsInv
  <1>3. SchedulesInv
    BY <1>1 DEF SchedulesInv, BackupAssumption
  <1> QED
    BY <1>2, <1>3, InitType DEF Inv

\* Inv is inductive.
LEMMA InvStep == Inv /\ [Next]_vars => Inv'
  BY TypeStep, WorkStep, BackupsStep, SchedulesStep DEF Inv

\* Inv holds in every state.
THEOREM Invariant == ASSUME BackupAssumption PROVE Spec => []Inv
  <1>1. Init => Inv
    BY InitInv
  <1> QED
    BY <1>1, InvStep, PTL DEF Spec

\* The types of the variables (TypeOK).
THEOREM TypeCorrect == ASSUME BackupAssumption PROVE Spec => []TypeOK
  <1>1. Inv => TypeOK
    <2> SUFFICES ASSUME Inv PROVE TypeOK
      OBVIOUS
    <2>1. \A c \in calls : c \in Calls /\ CallInv(c)
      BY DEF Inv, TypeInv
    <2>2. \A c \in calls :
            /\ c.op \in WorkingOps \cup {"restore", "backup", "backups", "schedules"}
            /\ c.at \in {"sent", "list", "listed"}
            /\ c.item \in Archives \cup Presets \cup {NoArchive}
            /\ c.got \subseteq IF ListOf(c.op) = "backups" THEN Archives ELSE Presets
      BY <2>1 DEF Calls, CallInv, Ops, ListOps, Points
    <2> QED
      BY <2>2 DEF Inv, TypeInv, TypeOK, ArchiveStates
  <1> QED
    BY Invariant, <1>1, PTL

\* The dialog works on one change at a time, and its flag says so exactly as long
\* as it does (WorkingIsTrue).
THEOREM FlagIsTrue == ASSUME BackupAssumption PROVE Spec => []WorkingIsTrue
  <1>1. Inv => WorkingIsTrue
    <2> SUFFICES ASSUME Inv PROVE WorkingIsTrue
      OBVIOUS
    <2>1. \A c, d \in AtWork : c = d
      BY DEF Inv, WorkInv, AtWork
    <2>2. Cardinality(AtWork) <= 1
      <3>1. CASE AtWork = {}
        BY <3>1, FS_EmptySet
      <3>2. CASE AtWork # {}
        <4>1. PICK c : c \in AtWork
          BY <3>2
        <4>2. AtWork = {c}
          BY <2>1, <4>1
        <4>3. Cardinality(AtWork) = 1
          BY <4>2, FS_Singleton, Zenon
        <4> QED
          BY <4>3
      <3> QED
        BY <3>1, <3>2
    <2>3. working <=> AtWork # {}
      BY DEF Inv, WorkInv, AtWork
    <2> QED
      BY <2>2, <2>3 DEF WorkingIsTrue
  <1> QED
    BY Invariant, <1>1, PTL

\* A backup that this dialog deleted is not offered, whatever others make and
\* remove meanwhile (OfferedExists).
THEOREM OfferedIsThere == ASSUME BackupAssumption PROVE Spec => []OfferedExists
  <1>1. Inv => OfferedExists
    BY DEF Inv, WorkInv, BackupsInv, Kept, OfferedExists, WorkingOps
  <1> QED
    BY Invariant, <1>1, PTL

\* When nothing is on its way the schedules shown are the guest's, but for those
\* that others changed since they were read (SchedulesSettle).
THEOREM SchedulesRight == ASSUME BackupAssumption PROVE Spec => []SchedulesSettle
  <1>1. Inv => SchedulesSettle
    BY DEF Inv, SchedulesInv, SchedulesSettle
  <1> QED
    BY Invariant, <1>1, PTL
=============================================================================
