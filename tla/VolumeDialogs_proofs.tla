------------------------ MODULE VolumeDialogs_proofs ------------------------
(***************************************************************************)
(* Theorems about VolumeDialogs for every number of browsers, slots, sizes,  *)
(* requests and errors.                                                     *)
(***************************************************************************)
EXTENDS VolumeDialogs, FiniteSetTheorems, TLAPS

-----------------------------------------------------------------------------
(* The invariant *)

DialogKinds == {"none", "resize", "add"}
Phases == {"confirm", "working", "done", "failed"}
Points == {"sent", "picked", "task", "done", "over"}
Works == [op : {"none", "resize", "add"}, slot : Slots \cup {NoSlot},
          size : 0 .. MaxSize, at : Points]

DisksInv ==
  /\ config \in Configs
  /\ seen \in [Browsers -> Configs]
  /\ pools \in [Browsers -> BOOLEAN]
  /\ raced \subseteq Slots /\ replaced \subseteq Slots
  /\ errors \in 0 .. MaxErrors

FormsInv ==
  /\ dialog \in [Browsers -> DialogKinds]
  /\ phase \in [Browsers -> Phases]
  /\ selected \in [Browsers -> Slots \cup {NoSlot}]
  /\ size \in [Browsers -> 0 .. MaxSize]
  /\ storage \in [Browsers -> BOOLEAN]

RequestsInv ==
  /\ sent \in 0 .. MaxSubmits
  /\ request \in [Browsers -> 0 .. sent]
  /\ work \in [Ids -> Works]
  /\ fresh \subseteq Ids /\ refused \subseteq Ids
  /\ \A i \in fresh \cup refused : i \leq sent
  /\ \A i \in Ids : work[i].at # "over" => i \leq sent
  /\ \A i \in Ids : Called(i) \/ work[i].at \in {"task", "done"}
       => work[i].slot # NoSlot

TypeInv == DisksInv /\ FormsInv /\ RequestsInv

\* A slot that was not raced for is free as long as a request aims at it, and
\* one request at a time does.
SlotInv ==
  /\ replaced \subseteq raced
  /\ \A s \in Slots \ raced : \A i \in Ids :
       Aims(i, s) => config[s] = 0 /\ \A j \in Ids : Aims(j, s) => j = i

\* The disk of a task that ended well has its size, or has grown since.
SizeInv ==
  \A i \in Ids : work[i].at = "done" /\ work[i].slot \notin raced
    => config[work[i].slot] >= work[i].size

\* A dialog that says done shows a request that was accepted.
SaysInv ==
  \A b \in Browsers : phase[b] = "done" =>
    /\ request[b] # NoId
    /\ work[request[b]].slot # NoSlot
    /\ work[request[b]].at \notin {"sent", "picked"}

\* A resize under fresh sizes grows its disk, until it does.
FreshInv ==
  \A i \in fresh :
    /\ i \notin refused
    /\ work[i].op = "resize"
    /\ work[i].at \in {"sent", "task"} => Larger(i)

SafetyInv == SlotInv /\ SizeInv /\ SaysInv /\ FreshInv

Inv == TypeInv /\ SafetyInv

-----------------------------------------------------------------------------
(* Slots *)

\* A set of slots has a smallest one: CHOOSE finds it.
LEMMA SmallestSlot ==
  ASSUME VolumeAssumption, NEW S \in SUBSET Slots, S # {}
  PROVE  \E s \in S : \A t \in S : s <= t
  <1> DEFINE R == StrictSubsetOrdering(Slots)
             T == {0 .. s : s \in S}
  <1>0. LastSlot \in Nat /\ S \subseteq Nat
    BY DEF VolumeAssumption, Slots
  <1>1. IsFiniteSet(Slots)
    BY <1>0, FS_Interval DEF Slots
  <1>2. IsWellFoundedOn(R, FiniteSubsetsOf(Slots))
    BY FS_StrictSubsetOrderingWellFounded
  <1>3. T \subseteq FiniteSubsetsOf(Slots) /\ T # {}
    <2>1. ASSUME NEW s \in S
          PROVE  0 .. s \in FiniteSubsetsOf(Slots)
      <3>1. 0 .. s \subseteq Slots
        BY <1>0 DEF Slots
      <3>2. IsFiniteSet(0 .. s)
        BY <1>1, <3>1, FS_Subset
      <3> QED
        BY <3>1, <3>2 DEF FiniteSubsetsOf
    <2> QED
      BY <2>1
  <1> HIDE DEF R
  <1>4. \E x \in T : \A y \in T : ~ (<<y, x>> \in R)
    BY <1>2, <1>3, WFMin
  <1>5. PICK s \in S : \A t \in S : <<0 .. t, 0 .. s>> \notin R
    BY <1>4
  <1>6. ASSUME NEW t \in S, t < s
        PROVE  FALSE
    <2>1. s \in Nat /\ t \in Nat
      BY <1>0
    <2>2. 0 .. t \subseteq 0 .. s /\ 0 .. t # 0 .. s
      BY <1>6, <2>1
    <2>3. 0 .. t \subseteq Slots /\ 0 .. s \subseteq Slots
      BY <1>0 DEF Slots
    <2>4. <<0 .. t, 0 .. s>> \in R
      BY <2>2, <2>3 DEF R, StrictSubsetOrdering
    <2> QED
      BY <1>5, <2>4
  <1> QED
    BY <1>0, <1>6

\* The first disk is a slot, or none.
LEMMA FirstType ==
  ASSUME VolumeAssumption, NEW c \in Configs
  PROVE  First(c) \in Slots \cup {NoSlot}
  <1>1. Disks(c) \in SUBSET Slots
    BY DEF Disks
  <1>2. CASE Disks(c) # {}
    BY <1>1, <1>2, SmallestSlot DEF First
  <1> QED
    BY <1>2 DEF First

\* The slot AddVMDisk picks is free.
LEMMA PickedSlot ==
  ASSUME VolumeAssumption, config \in Configs, Free(config) # {}
  PROVE  FirstFree(config) \in Slots /\ config[FirstFree(config)] = 0
  <1>1. Free(config) \in SUBSET Slots
    BY DEF Free
  <1>2. FirstFree(config) \in Free(config)
    BY <1>1, SmallestSlot DEF FirstFree
  <1> QED
    BY <1>2 DEF Free

\* No disk, and the sizes of the requests.
LEMMA Numbers ==
  ASSUME VolumeAssumption
  PROVE  /\ NoSlot \notin Slots /\ 0 \in Slots /\ 0 \in 0 .. MaxSize
         /\ 1 \in 0 .. MaxSize /\ Sizes \subseteq 0 .. MaxSize
         /\ NoConfig \in Configs /\ NoWork \in Works
         /\ 0 .. MaxSize \subseteq Nat
         /\ \A n \in 0 .. MaxErrors : n > 0 => n - 1 \in 0 .. MaxErrors
  BY DEF VolumeAssumption, NoSlot, Slots, Sizes, NoConfig, Configs, NoWork, Works, Points

-----------------------------------------------------------------------------
(* How the work of a request changes *)

Backend(i) ==
  \/ NoSlotFree(i) \/ Picks(i) \/ Accepted(i) \/ Refused(i) \/ GivesUp(i)
  \/ TaskDone(i) \/ TaskFails(i)

\* Work that goes on is the same work.
LEMMA GoesOn ==
  ASSUME work \in [Ids -> Works], NEW i \in Ids, NEW at \in Points, Goes(i, at)
  PROVE  /\ work' \in [Ids -> Works]
         /\ \A j \in Ids \ {i} : work'[j] = work[j]
         /\ work'[i].op = work[i].op /\ work'[i].slot = work[i].slot
         /\ work'[i].size = work[i].size /\ work'[i].at = at
  <1> DEFINE w == [work[i] EXCEPT !.at = at]
  <1>1. work[i] \in Works
    OBVIOUS
  <1>2. /\ w \in Works /\ w.op = work[i].op /\ w.slot = work[i].slot
        /\ w.size = work[i].size /\ w.at = at
    BY <1>1 DEF Works
  <1>3. work' = [work EXCEPT ![i] = w]
    BY DEF Goes
  <1> HIDE DEF w
  <1> QED
    BY <1>2, <1>3

\* Work whose slot is picked.
LEMMA GoesPicked ==
  ASSUME VolumeAssumption, config \in Configs, work \in [Ids -> Works], NEW i \in Ids,
         Picks(i)
  PROVE  /\ work' \in [Ids -> Works]
         /\ \A j \in Ids \ {i} : work'[j] = work[j]
         /\ work'[i].op = "add" /\ work'[i].slot = FirstFree(config)
         /\ work'[i].size = work[i].size /\ work'[i].at = "picked"
         /\ FirstFree(config) \in Slots /\ config[FirstFree(config)] = 0
  <1> DEFINE s == FirstFree(config)
             w == [[work[i] EXCEPT !.at = "picked"] EXCEPT !.slot = s]
  <1>1. work[i] \in Works /\ work[i].op = "add" /\ s \in Slots /\ config[s] = 0
    BY PickedSlot DEF Picks
  <1>2. work' = [work EXCEPT ![i] = w]
    BY DEF Picks
  <1> HIDE DEF s
  <1>3. /\ w \in Works /\ w.op = "add" /\ w.slot = s
        /\ w.size = work[i].size /\ w.at = "picked"
    BY <1>1 DEF Works, Points
  <1> HIDE DEF w
  <1>4. /\ work' \in [Ids -> Works] /\ work'[i] = w
        /\ \A j \in Ids \ {i} : work'[j] = work[j]
    BY <1>2, <1>3
  <1> QED
    BY <1>1, <1>3, <1>4 DEF s

\* A new request.
LEMMA GoesNew ==
  ASSUME VolumeAssumption, TypeInv, NEW b \in Browsers,
         NEW op \in {"resize", "add"}, NEW slot \in Slots \cup {NoSlot},
         Sends(b, op, slot)
  PROVE  /\ sent' = sent + 1 /\ sent' \in Ids /\ sent' \in 0 .. MaxSubmits
         /\ 0 .. sent \subseteq 0 .. sent'
         /\ request' \in [Browsers -> 0 .. sent'] /\ request'[b] = sent'
         /\ \A c \in Browsers \ {b} :
              request'[c] = request[c] /\ phase'[c] = phase[c]
         /\ phase' \in [Browsers -> Phases] /\ phase'[b] = "working"
         /\ work' \in [Ids -> Works]
         /\ \A j \in Ids \ {sent'} : work'[j] = work[j]
         /\ work'[sent'].op = op /\ work'[sent'].slot = slot
         /\ work'[sent'].size = size[b] /\ work'[sent'].at = "sent"
         /\ \A c \in Browsers : request[c] # sent'
         /\ sent' \notin fresh \cup refused
  <1> DEFINE w == [op |-> op, slot |-> slot, size |-> size[b], at |-> "sent"]
  <1>0. /\ sent \in 0 .. MaxSubmits /\ sent < MaxSubmits /\ sent' = sent + 1
        /\ MaxSubmits \in Nat
    BY DEF TypeInv, RequestsInv, Sends, VolumeAssumption
  <1>1. /\ sent' \in Ids /\ sent' \in 0 .. MaxSubmits /\ 0 .. sent \subseteq 0 .. sent'
        /\ sent' \in 0 .. sent' /\ sent' \notin 0 .. sent /\ ~ (sent' \leq sent)
    BY <1>0 DEF Ids
  <1>2. /\ w \in Works /\ w.op = op /\ w.slot = slot /\ w.size = size[b]
        /\ w.at = "sent"
    BY DEF TypeInv, FormsInv, Works, Points
  <1>3. work' = [work EXCEPT ![sent'] = w]
    BY DEF Sends
  <1> HIDE DEF w
  <1>4. /\ work' \in [Ids -> Works] /\ work'[sent'] = w
        /\ \A j \in Ids \ {sent'} : work'[j] = work[j]
    BY <1>1, <1>2, <1>3 DEF TypeInv, RequestsInv
  <1>5. /\ request' \in [Browsers -> 0 .. sent'] /\ request'[b] = sent'
        /\ \A c \in Browsers \ {b} : request'[c] = request[c]
        /\ \A c \in Browsers : request[c] # sent'
    BY <1>1 DEF TypeInv, RequestsInv, Sends
  <1>6. /\ phase' \in [Browsers -> Phases] /\ phase'[b] = "working"
        /\ \A c \in Browsers \ {b} : phase'[c] = phase[c]
    BY DEF TypeInv, FormsInv, Sends, Phases
  <1>7. sent' \notin fresh \cup refused
    BY <1>1 DEF TypeInv, RequestsInv
  <1> QED
    BY <1>0, <1>1, <1>2, <1>4, <1>5, <1>6, <1>7

\* The dialog that is answered, and those that are not.
LEMMA AnswerType ==
  ASSUME FormsInv, NEW i, NEW ok \in BOOLEAN, Answered(i, ok)
  PROVE  /\ phase' \in [Browsers -> Phases]
         /\ \A b \in Browsers : phase'[b] = "done" =>
              phase[b] = "done" \/ (ok /\ request[b] = i)
  BY DEF FormsInv, Answered, Outcome, Phases

\* What every step of the backend leaves alone, and how its work changes.
LEMMA BackendStep ==
  ASSUME VolumeAssumption, TypeInv, NEW i \in Ids, Backend(i)
  PROVE  /\ UNCHANGED <<seen, pools, dialog, selected, size, storage, request, sent>>
         /\ work' \in [Ids -> Works] /\ phase' \in [Browsers -> Phases]
         /\ \A j \in Ids \ {i} : work'[j] = work[j]
         /\ work'[i].op = work[i].op /\ work'[i].size = work[i].size
         /\ Picks(i) \/ work'[i].slot = work[i].slot
  <1>0. DisksInv /\ FormsInv /\ RequestsInv
    BY DEF TypeInv
  <1>1. UNCHANGED <<seen, pools, dialog, selected, size, storage, request, sent>>
    BY DEF Backend, NoSlotFree, Picks, Accepted, Refused, GivesUp, TaskDone, TaskFails,
           pages
  <1>2. phase' \in [Browsers -> Phases]
    <2>1. CASE NoSlotFree(i) \/ Refused(i) \/ GivesUp(i)
      BY <1>0, <2>1, AnswerType DEF NoSlotFree, Refused, GivesUp
    <2>2. CASE Accepted(i)
      BY <1>0, <2>2, AnswerType DEF Accepted
    <2>3. CASE Picks(i) \/ TaskDone(i) \/ TaskFails(i)
      BY <1>0, <2>3 DEF Picks, TaskDone, TaskFails, FormsInv
    <2> QED
      BY <2>1, <2>2, <2>3 DEF Backend
  <1>3. CASE Picks(i)
    BY <1>0, <1>1, <1>2, <1>3, GoesPicked DEF DisksInv, RequestsInv, Picks
  <1>4. CASE GivesUp(i)
    BY <1>0, <1>1, <1>2, <1>4 DEF GivesUp, RequestsInv
  <1>5. CASE \E at \in Points : Goes(i, at)
    BY <1>0, <1>1, <1>2, <1>5, GoesOn DEF RequestsInv
  <1>6. NoSlotFree(i) \/ Accepted(i) \/ Refused(i) \/ TaskDone(i) \/ TaskFails(i)
          => \E at \in Points : Goes(i, at)
    BY DEF NoSlotFree, Accepted, Refused, TaskDone, TaskFails, Points
  <1> QED
    BY <1>3, <1>4, <1>5, <1>6 DEF Backend

-----------------------------------------------------------------------------
(* TypeInv *)

\* The types hold at the start.
LEMMA InitType == VolumeAssumption /\ Init => TypeInv
  <1> SUFFICES ASSUME VolumeAssumption, Init PROVE TypeInv
    OBVIOUS
  <1>1. config \in Configs
    BY Numbers DEF Init, Configs
  <1>2. seen \in [Browsers -> Configs]
    BY <1>1, Numbers DEF Init
  <1>3. MaxErrors \in 0 .. MaxErrors /\ 0 \in 0 .. MaxSubmits /\ 0 \in 0 .. 0
    BY DEF VolumeAssumption
  <1>4. DisksInv
    BY <1>1, <1>2, <1>3 DEF Init, DisksInv
  <1>5. \A b \in Browsers : First(seen[b]) \in Slots \cup {NoSlot}
    BY <1>2, FirstType
  <1>6. FormsInv
    BY <1>5, Numbers DEF Init, FormsInv, DialogKinds, Phases
  <1>7. \A i \in Ids : work[i] = NoWork
    BY DEF Init
  <1>8. \A i \in Ids : work[i].at = "over"
    BY <1>7 DEF NoWork
  <1>9. RequestsInv
    BY <1>3, <1>8, Numbers DEF Init, RequestsInv, NoId, Called
  <1> QED
    BY <1>4, <1>6, <1>9 DEF TypeInv

\* The disks, what the pages know of them, and the bounds.
LEMMA DisksStep ==
  ASSUME VolumeAssumption, TypeInv, [Next]_vars
  PROVE  DisksInv'
  <1> USE Numbers DEF TypeInv
  <1>0. DisksInv /\ RequestsInv
    OBVIOUS
  <1>1. Fails => errors' \in 0 .. MaxErrors
    BY DEF Fails, DisksInv
  <1>2. ASSUME NEW b \in Browsers, ConfigPolled(b) \/ StoragesPolled(b)
        PROVE  DisksInv'
    BY <1>1, <1>2 DEF ConfigPolled, StoragesPolled, DisksInv, history
  <1>3. ASSUME NEW b \in Browsers,
               \/ \E d \in {"resize", "add"} : Open(b, d)
               \/ \E s \in Slots : PickDisk(b, s)
               \/ \E n \in Sizes : TypeSize(b, n)
               \/ Resize(b) \/ Add(b) \/ Close(b)
        PROVE  DisksInv'
    BY <1>3 DEF Open, PickDisk, TypeSize, Resize, Add, Close, DisksInv, history
  <1>4. ASSUME NEW b \in Browsers, Leave(b)
        PROVE  DisksInv'
    BY <1>4 DEF Leave, DisksInv, history
  <1>5. ASSUME NEW i \in Ids, Backend(i)
        PROVE  DisksInv'
    <2>1. UNCHANGED <<seen, pools>>
      BY <1>5, BackendStep
    <2>2. errors' \in 0 .. MaxErrors
      BY <1>1, <1>5 DEF Backend, NoSlotFree, Picks, Accepted, Refused, GivesUp, TaskDone,
                        TaskFails, DisksInv
    <2>3. raced' \subseteq Slots
      <3>1. CASE Picks(i)
        BY <3>1, PickedSlot DEF Picks, DisksInv
      <3>2. CASE UNCHANGED raced
        BY <3>2 DEF DisksInv
      <3> QED
        BY <1>5, <3>1, <3>2 DEF Backend, NoSlotFree, Accepted, Refused, GivesUp, TaskDone,
                                TaskFails, history
    <2>4. config' \in Configs /\ replaced' \subseteq Slots
      <3>1. CASE TaskDone(i)
        <4>1. work[i].size \in 0 .. MaxSize /\ work[i].slot \in Slots
          BY <3>1 DEF TaskDone, RequestsInv, Works
        <4> QED
          BY <3>1, <4>1 DEF TaskDone, DisksInv, Configs
      <3>2. CASE UNCHANGED <<config, replaced>>
        BY <3>2 DEF DisksInv
      <3> QED
        BY <1>5, <3>1, <3>2 DEF Backend, NoSlotFree, Picks, Accepted, Refused, GivesUp,
                                TaskFails, history
    <2> QED
      BY <2>1, <2>2, <2>3, <2>4 DEF DisksInv
  <1>6. CASE UNCHANGED vars
    BY <1>6 DEF vars, history, DisksInv
  <1> QED
    BY <1>2, <1>3, <1>4, <1>5, <1>6 DEF Next, Backend

\* The dialogs.
LEMMA FormsStep ==
  ASSUME VolumeAssumption, TypeInv, [Next]_vars
  PROVE  FormsInv'
  <1> USE Numbers DEF TypeInv
  <1>0. FormsInv /\ DisksInv
    OBVIOUS
  <1>1. ASSUME NEW b \in Browsers, ConfigPolled(b) \/ StoragesPolled(b)
        PROVE  FormsInv'
    BY <1>1 DEF ConfigPolled, StoragesPolled, formVars, FormsInv
  <1>2. ASSUME NEW b \in Browsers, NEW d \in {"resize", "add"}, Open(b, d)
        PROVE  FormsInv'
    BY <1>2 DEF Open, FormsInv, DialogKinds
  <1>3. ASSUME NEW b \in Browsers, NEW s \in Slots, PickDisk(b, s)
        PROVE  FormsInv'
    BY <1>3 DEF PickDisk, FormsInv
  <1>4. ASSUME NEW b \in Browsers, NEW n \in Sizes, TypeSize(b, n)
        PROVE  FormsInv'
    BY <1>4 DEF TypeSize, FormsInv
  <1>5. ASSUME NEW b \in Browsers, Resize(b) \/ Add(b)
        PROVE  FormsInv'
    BY <1>5 DEF Resize, Add, Sends, FormsInv, Phases
  <1>6. ASSUME NEW b \in Browsers, Close(b) \/ Leave(b)
        PROVE  FormsInv'
    <2>1. selected' \in [Browsers -> Slots \cup {NoSlot}]
          /\ storage' \in [Browsers -> BOOLEAN]
      <3>1. First(seen[b]) \in Slots \cup {NoSlot} /\ pools[b] \in BOOLEAN
        BY FirstType DEF DisksInv
      <3> QED
        BY <1>6, <3>1 DEF Close, Leave, ResizeCleared, AddCleared, DefaultDisk, FormsInv
    <2> QED
      BY <1>6, <2>1 DEF Close, Leave, Idle, FormsInv, DialogKinds, Phases
  <1>7. ASSUME NEW i \in Ids, Backend(i)
        PROVE  FormsInv'
    BY <1>7, BackendStep DEF FormsInv
  <1>8. CASE UNCHANGED vars
    BY <1>8 DEF vars, formVars, FormsInv
  <1> QED
    BY <1>1, <1>2, <1>3, <1>4, <1>5, <1>6, <1>7, <1>8 DEF Next, Backend

\* The requests and what they have the backend do.
LEMMA RequestsStep ==
  ASSUME VolumeAssumption, TypeInv, [Next]_vars
  PROVE  RequestsInv'
  <1>0. RequestsInv /\ FormsInv /\ DisksInv
    BY DEF TypeInv
  <1>1. CASE UNCHANGED <<sent, work, fresh, refused>>
             /\ request' \in [Browsers -> 0 .. sent]
    BY <1>0, <1>1 DEF RequestsInv, Called
  <1>2. ASSUME NEW b \in Browsers,
               \/ ConfigPolled(b) \/ StoragesPolled(b)
               \/ \E d \in {"resize", "add"} : Open(b, d)
               \/ \E s \in Slots : PickDisk(b, s)
               \/ \E n \in Sizes : TypeSize(b, n)
        PROVE  RequestsInv'
    <2>1. UNCHANGED <<sent, work, fresh, refused, request>>
      BY <1>2 DEF ConfigPolled, StoragesPolled, Open, PickDisk, TypeSize, history
    <2> QED
      BY <1>0, <1>1, <2>1 DEF RequestsInv
  <1>3. ASSUME NEW b \in Browsers, Close(b) \/ Leave(b)
        PROVE  RequestsInv'
    <2>1. UNCHANGED <<sent, work, fresh, refused>>
          /\ request' = [request EXCEPT ![b] = NoId]
      BY <1>3 DEF Close, Leave, Idle, history
    <2>2. NoId \in 0 .. sent
      BY <1>0 DEF RequestsInv, NoId
    <2> QED
      BY <1>0, <1>1, <2>1, <2>2 DEF RequestsInv
  <1>4. ASSUME NEW b \in Browsers, NEW op \in {"resize", "add"},
               NEW slot \in Slots \cup {NoSlot}, Sends(b, op, slot),
               op = "resize" => slot # NoSlot,
               fresh' \subseteq fresh \cup {sent'}, UNCHANGED refused
        PROVE  RequestsInv'
    <2>1. /\ sent' \in Ids /\ sent' \in 0 .. MaxSubmits /\ sent' = sent + 1
          /\ request' \in [Browsers -> 0 .. sent'] /\ work' \in [Ids -> Works]
      BY <1>4, GoesNew
    <2>2. /\ \A j \in Ids \ {sent'} : work'[j] = work[j]
          /\ work'[sent'].op = op /\ work'[sent'].slot = slot
          /\ work'[sent'].at = "sent"
      BY <1>4, GoesNew
    <2>3. \A i \in Ids : Called(i)' \/ work'[i].at \in {"task", "done"}
            => work'[i].slot # NoSlot
      <3> SUFFICES ASSUME NEW i \in Ids, Called(i)' \/ work'[i].at \in {"task", "done"}
                   PROVE  work'[i].slot # NoSlot
        OBVIOUS
      <3>1. CASE i = sent'
        BY <1>4, <2>2, <3>1 DEF Called
      <3>2. CASE i # sent'
        BY <1>0, <2>2, <3>2 DEF Called, RequestsInv
      <3> QED
        BY <3>1, <3>2
    <2>4. \A i \in fresh' \cup refused' : i \in Ids /\ i \leq sent'
      BY <1>0, <1>4, <2>1 DEF RequestsInv, Ids
    <2>5. \A i \in Ids : work'[i].at # "over" => i \leq sent'
      BY <1>0, <2>1, <2>2 DEF RequestsInv, Ids
    <2> QED
      BY <2>1, <2>3, <2>4, <2>5 DEF RequestsInv
  <1>5. ASSUME NEW b \in Browsers, Resize(b)
        PROVE  RequestsInv'
    <2>1. selected[b] \in Slots \cup {NoSlot} /\ selected[b] # NoSlot
      BY <1>0, <1>5 DEF Resize, CanResize, FormsInv
    <2> QED
      BY <1>4, <1>5, <2>1 DEF Resize
  <1>6. ASSUME NEW b \in Browsers, Add(b)
        PROVE  RequestsInv'
    BY <1>4, <1>6 DEF Add, history
  <1>7. ASSUME NEW i \in Ids, Backend(i)
        PROVE  RequestsInv'
    <2>1. /\ UNCHANGED <<request, sent>> /\ work' \in [Ids -> Works]
          /\ \A j \in Ids \ {i} : work'[j] = work[j]
          /\ work'[i].op = work[i].op
      BY <1>7, BackendStep
    <2>2. /\ fresh' \subseteq fresh /\ refused' \subseteq refused \cup {i}
          /\ work[i].at # "over"
      <3>1. CASE NoSlotFree(i) \/ Picks(i) \/ Accepted(i) \/ GivesUp(i) \/ TaskFails(i)
        BY <3>1 DEF NoSlotFree, Picks, Accepted, GivesUp, TaskFails, history, Called
      <3>2. CASE Refused(i)
        BY <3>2 DEF Refused
      <3>3. CASE TaskDone(i)
        BY <3>3 DEF TaskDone
      <3> QED
        BY <1>7, <3>1, <3>2, <3>3 DEF Backend
    <2>3. i \leq sent
      BY <1>0, <2>2 DEF RequestsInv
    <2>4. Called(i)' \/ work'[i].at \in {"task", "done"} => work'[i].slot # NoSlot
      <3>1. CASE Picks(i)
        BY <1>0, <3>1, GoesPicked, Numbers DEF DisksInv, RequestsInv
      <3>2. CASE NoSlotFree(i) \/ Refused(i) \/ TaskFails(i)
        <4>1. work'[i].at = "over"
          BY <1>0, <3>2, GoesOn DEF NoSlotFree, Refused, TaskFails, RequestsInv, Points
        <4> QED
          BY <4>1 DEF Called
      <3>3. CASE Accepted(i) \/ TaskDone(i)
        <4>1. Goes(i, "task") \/ Goes(i, "done") \/ Goes(i, "over")
          BY <3>3 DEF Accepted, TaskDone
        <4>2. work'[i].slot = work[i].slot
          BY <1>0, <4>1, GoesOn DEF RequestsInv, Points
        <4>3. work[i].slot # NoSlot
          BY <1>0, <3>3 DEF Accepted, TaskDone, RequestsInv
        <4> QED
          BY <4>2, <4>3
      <3>4. CASE GivesUp(i)
        BY <1>0, <3>4 DEF GivesUp, RequestsInv, Called
      <3> QED
        BY <1>7, <3>1, <3>2, <3>3, <3>4 DEF Backend
    <2>5. \A j \in Ids \ {i} : Called(j)' <=> Called(j)
      BY <2>1 DEF Called
    <2> QED
      BY <1>0, <2>1, <2>2, <2>3, <2>4, <2>5 DEF RequestsInv
  <1>8. CASE UNCHANGED vars
    BY <1>0, <1>1, <1>8 DEF vars, history, RequestsInv
  <1> QED
    BY <1>2, <1>3, <1>5, <1>6, <1>7, <1>8 DEF Next, Backend

\* Every step keeps the types.
LEMMA TypeStep == VolumeAssumption /\ TypeInv /\ [Next]_vars => TypeInv'
  BY DisksStep, FormsStep, RequestsStep DEF TypeInv

-----------------------------------------------------------------------------
(* SafetyInv: steps of the pages *)

\* A request a page waits for is one of those sent.
LEMMA RequestId ==
  ASSUME VolumeAssumption, RequestsInv, NEW b \in Browsers, request[b] # NoId
  PROVE  request[b] \in Ids
  <1>1. request[b] \in 0 .. sent /\ sent \in 0 .. MaxSubmits
    BY DEF RequestsInv
  <1> QED
    BY <1>1 DEF VolumeAssumption, Ids, NoId

\* A page that sends nothing: no dialog comes to say done.
LEMMA PageKeeps ==
  ASSUME SafetyInv, UNCHANGED <<config, work, history>>,
         \A b \in Browsers : phase'[b] = "done" =>
           phase[b] = "done" /\ request'[b] = request[b]
  PROVE  SafetyInv'
  <1>0. UNCHANGED <<config, work, fresh, refused, raced, replaced>>
    BY DEF history
  <1>1. SlotInv' /\ SizeInv'
    BY <1>0 DEF SafetyInv, SlotInv, SizeInv, Aims
  <1>2. SaysInv'
    BY <1>0 DEF SafetyInv, SaysInv
  <1>3. FreshInv'
    BY <1>0 DEF SafetyInv, FreshInv, Larger
  <1> QED
    BY <1>1, <1>2, <1>3 DEF SafetyInv

\* The actions of a page, the two that send apart.
LEMMA PageStep ==
  ASSUME TypeInv, SafetyInv, NEW b \in Browsers,
         \/ ConfigPolled(b) \/ StoragesPolled(b)
         \/ \E d \in {"resize", "add"} : Open(b, d)
         \/ \E s \in Slots : PickDisk(b, s)
         \/ \E n \in Sizes : TypeSize(b, n)
         \/ Close(b) \/ Leave(b)
  PROVE  SafetyInv'
  <1>1. UNCHANGED <<config, work, history>>
    BY DEF ConfigPolled, StoragesPolled, Open, PickDisk, TypeSize, Close, Leave
  <1>2. ASSUME NEW c \in Browsers, phase'[c] = "done"
        PROVE  phase[c] = "done" /\ request'[c] = request[c]
    <2>1. CASE UNCHANGED <<phase, request>>
      BY <1>2, <2>1
    <2>2. CASE Idle(b)
      BY <1>2, <2>2 DEF Idle, TypeInv, FormsInv, RequestsInv
    <2> QED
      BY <2>1, <2>2 DEF ConfigPolled, StoragesPolled, formVars, Open, PickDisk, TypeSize,
                        Close, Leave
  <1> QED
    BY <1>1, <1>2, PageKeeps

\* A request that is sent.
LEMMA SendKeeps ==
  ASSUME VolumeAssumption, TypeInv, SafetyInv, NEW b \in Browsers,
         NEW op \in {"resize", "add"}, NEW slot \in Slots \cup {NoSlot},
         Sends(b, op, slot),
         UNCHANGED <<config, refused, raced, replaced>>,
         fresh' \subseteq fresh \cup {sent'},
         sent' \in fresh' => op = "resize" /\ config[slot] # 0 /\ size[b] > config[slot]
  PROVE  SafetyInv'
  <1>1. /\ sent' \in Ids /\ \A j \in Ids \ {sent'} : work'[j] = work[j]
        /\ work'[sent'].op = op /\ work'[sent'].slot = slot
        /\ work'[sent'].size = size[b] /\ work'[sent'].at = "sent"
        /\ sent' \notin refused
    BY GoesNew
  <1>2. /\ phase'[b] = "working"
        /\ \A c \in Browsers \ {b} : request'[c] = request[c] /\ phase'[c] = phase[c]
        /\ \A c \in Browsers : request[c] # sent'
    BY GoesNew
  <1>3. \A s \in Slots, i \in Ids : Aims(i, s)' => Aims(i, s)
    BY <1>1 DEF Aims
  <1>4. SlotInv'
    BY <1>3 DEF SafetyInv, SlotInv
  <1>5. SizeInv'
    BY <1>1 DEF SafetyInv, SizeInv
  <1>6. SaysInv'
    <2> SUFFICES ASSUME NEW c \in Browsers, phase'[c] = "done"
                 PROVE  /\ request'[c] # NoId
                        /\ work'[request'[c]].slot # NoSlot
                        /\ work'[request'[c]].at \notin {"sent", "picked"}
      BY DEF SaysInv
    <2>1. c # b /\ request'[c] = request[c] /\ phase[c] = "done" /\ request[c] # sent'
      BY <1>2
    <2>2. request[c] \in Ids
      BY <2>1, RequestId DEF SafetyInv, SaysInv, TypeInv
    <2> QED
      BY <1>1, <2>1, <2>2 DEF SafetyInv, SaysInv
  <1>7. FreshInv'
    <2> SUFFICES ASSUME NEW i \in fresh'
                 PROVE  /\ i \notin refused'
                        /\ work'[i].op = "resize"
                        /\ work'[i].at \in {"sent", "task"} => Larger(i)'
      BY DEF FreshInv
    <2>1. CASE i = sent'
      BY <1>1, <2>1 DEF Larger
    <2>2. CASE i # sent'
      <3>1. i \in fresh /\ i \in Ids
        BY <2>2 DEF TypeInv, RequestsInv
      <3> QED
        BY <1>1, <2>2, <3>1 DEF SafetyInv, FreshInv, Larger
    <2> QED
      BY <2>1, <2>2
  <1> QED
    BY <1>4, <1>5, <1>6, <1>7 DEF SafetyInv

\* The resize dialog's check is as strict as Proxmox's for a fresh size.
LEMMA ResizeKeeps ==
  ASSUME VolumeAssumption, TypeInv, SafetyInv, NEW b \in Browsers, Resize(b)
  PROVE  SafetyInv'
  <1>1. selected[b] \in Slots \cup {NoSlot}
    BY DEF TypeInv, FormsInv
  <1>2. Sends(b, "resize", selected[b]) /\ UNCHANGED <<config, refused, raced, replaced>>
    BY DEF Resize
  <1>3. sent' \notin fresh
    BY <1>1, <1>2, GoesNew
  <1>4. UpToDate(b) => config[selected[b]] # 0 /\ size[b] > config[selected[b]]
    BY DEF Resize, UpToDate, Grows, MinSize, Disks
  <1> QED
    BY <1>1, <1>2, <1>3, <1>4, SendKeeps DEF Resize

\* The add dialog's request picks its slot later.
LEMMA AddKeeps ==
  ASSUME VolumeAssumption, TypeInv, SafetyInv, NEW b \in Browsers, Add(b)
  PROVE  SafetyInv'
  <1>1. Sends(b, "add", NoSlot) /\ UNCHANGED <<config, fresh, refused, raced, replaced>>
    BY DEF Add, history
  <1>2. sent' \notin fresh
    BY <1>1, GoesNew
  <1> QED
    BY <1>1, <1>2, SendKeeps

-----------------------------------------------------------------------------
(* SafetyInv: steps of the backend *)

\* A request whose work is over, or goes on unseen, and nothing else.
LEMMA SaysStep ==
  ASSUME VolumeAssumption, TypeInv, SafetyInv, NEW i \in Ids, Backend(i)
  PROVE  SaysInv'
  <1>0. FormsInv /\ RequestsInv /\ SaysInv
    BY DEF TypeInv, SafetyInv
  <1>1. /\ UNCHANGED request
        /\ \A j \in Ids \ {i} : work'[j] = work[j]
    BY BackendStep
  <1> SUFFICES ASSUME NEW b \in Browsers, phase'[b] = "done"
               PROVE  /\ request[b] # NoId
                      /\ work'[request[b]].slot # NoSlot
                      /\ work'[request[b]].at \notin {"sent", "picked"}
    BY <1>1 DEF SaysInv
  <1>2. CASE phase[b] = "done" /\ request[b] # i
    <2>1. request[b] \in Ids
      BY <1>0, <1>2, RequestId DEF SaysInv
    <2> QED
      BY <1>0, <1>1, <1>2, <2>1 DEF SaysInv
  <1>3. CASE phase[b] = "done" /\ request[b] = i
    <2>1. work[i].at \notin {"sent", "picked"} /\ work[i].slot # NoSlot /\ i # NoId
      BY <1>0, <1>3 DEF SaysInv
    <2>2. TaskDone(i) \/ TaskFails(i)
      BY <2>1 DEF Backend, NoSlotFree, Picks, Accepted, Called, Refused, GivesUp
    <2>3. Goes(i, "done") \/ Goes(i, "over")
      BY <2>2 DEF TaskDone, TaskFails
    <2>4. work'[i].slot = work[i].slot /\ work'[i].at \in {"done", "over"}
      BY <1>0, <2>3, GoesOn DEF RequestsInv, Points
    <2> QED
      BY <1>3, <2>1, <2>4
  <1>4. CASE phase[b] # "done"
    <2>1. Accepted(i) /\ request[b] = i
      <3>1. CASE NoSlotFree(i) \/ Refused(i) \/ GivesUp(i)
        BY <1>0, <1>4, <3>1, AnswerType DEF NoSlotFree, Refused, GivesUp
      <3>2. CASE Picks(i) \/ TaskDone(i) \/ TaskFails(i)
        BY <1>4, <3>2 DEF Picks, TaskDone, TaskFails
      <3>3. CASE Accepted(i)
        BY <1>0, <1>4, <3>3, AnswerType DEF Accepted
      <3> QED
        BY <3>1, <3>2, <3>3 DEF Backend
    <2>2. work[i].slot # NoSlot
      BY <1>0, <2>1 DEF Accepted, RequestsInv
    <2>3. work'[i].slot = work[i].slot /\ work'[i].at = "task"
      BY <1>0, <2>1, GoesOn DEF Accepted, RequestsInv, Points
    <2>4. i # NoId
      BY DEF Ids, NoId
    <2> QED
      BY <2>1, <2>2, <2>3, <2>4
  <1> QED
    BY <1>2, <1>3, <1>4

\* Steps that leave the disks alone and pick no slot.
LEMMA QuietKeeps ==
  ASSUME VolumeAssumption, TypeInv, SafetyInv, NEW i \in Ids,
         NoSlotFree(i) \/ Accepted(i) \/ GivesUp(i) \/ TaskFails(i)
  PROVE  SafetyInv'
  <1>0. Backend(i) /\ RequestsInv
    BY DEF Backend, TypeInv
  <1>1. UNCHANGED <<config, fresh, refused, raced, replaced>>
    BY DEF NoSlotFree, Accepted, GivesUp, TaskFails, history
  <1>2. /\ \A j \in Ids \ {i} : work'[j] = work[j]
        /\ work'[i].op = work[i].op /\ work'[i].slot = work[i].slot
        /\ work'[i].size = work[i].size
    <2>1. CASE GivesUp(i)
      BY <2>1 DEF GivesUp
    <2>2. CASE NoSlotFree(i) \/ Accepted(i) \/ TaskFails(i)
      BY <1>0, <2>2, GoesOn DEF NoSlotFree, Accepted, TaskFails, RequestsInv, Points
    <2> QED
      BY <2>1, <2>2
  <1>3. \/ work'[i].at = "over"
        \/ Called(i) /\ work'[i].at = "task"
        \/ work'[i].at = work[i].at
    <2>1. CASE GivesUp(i)
      BY <2>1 DEF GivesUp
    <2>2. CASE ~ GivesUp(i)
      BY <1>0, <2>2, GoesOn DEF NoSlotFree, Accepted, TaskFails, RequestsInv, Points
    <2> QED
      BY <2>1, <2>2
  <1>4. \A s \in Slots, j \in Ids : Aims(j, s)' => Aims(j, s)
    BY <1>2, <1>3 DEF Aims, Called
  <1>5. SlotInv'
    BY <1>1, <1>4 DEF SafetyInv, SlotInv
  <1>6. SizeInv'
    BY <1>1, <1>2, <1>3 DEF SafetyInv, SizeInv
  <1>7. FreshInv'
    <2> SUFFICES ASSUME NEW j \in fresh
                 PROVE  /\ j \notin refused
                        /\ work'[j].op = "resize"
                        /\ work'[j].at \in {"sent", "task"} => Larger(j)'
      BY <1>1 DEF FreshInv
    <2>1. /\ j \notin refused /\ work[j].op = "resize" /\ j \in Ids
          /\ work[j].at \in {"sent", "task"} => Larger(j)
      BY <1>0 DEF SafetyInv, FreshInv, RequestsInv
    <2>2. /\ work'[j].op = "resize" /\ work'[j].slot = work[j].slot
          /\ work'[j].size = work[j].size
          /\ work'[j].at \in {"sent", "task"} => work[j].at \in {"sent", "task"}
      BY <1>2, <1>3, <2>1 DEF Called
    <2> QED
      BY <1>1, <2>1, <2>2 DEF Larger
  <1> QED
    BY <1>0, <1>5, <1>6, <1>7, SaysStep DEF SafetyInv

\* A slot is picked: it is free, and raced for when another request aims at it.
LEMMA PicksKeeps ==
  ASSUME VolumeAssumption, TypeInv, SafetyInv, NEW i \in Ids, Picks(i)
  PROVE  SafetyInv'
  <1> DEFINE p == FirstFree(config)
  <1>0. Backend(i) /\ RequestsInv /\ DisksInv
    BY DEF Backend, TypeInv
  <1>1. /\ \A j \in Ids \ {i} : work'[j] = work[j]
        /\ work'[i].op = "add" /\ work'[i].slot = p /\ work'[i].at = "picked"
        /\ p \in Slots /\ config[p] = 0
    BY <1>0, GoesPicked DEF RequestsInv, DisksInv
  <1>2. /\ UNCHANGED <<config, fresh, refused, replaced>>
        /\ raced' = IF \E j \in Ids : Aims(j, p) THEN raced \cup {p} ELSE raced
        /\ work[i].op = "add" /\ work[i].at = "sent"
    BY DEF Picks
  <1> HIDE DEF p
  <1>3. raced \subseteq raced'
    BY <1>2
  <1>4. SlotInv'
    <2>1. replaced' \subseteq raced'
      BY <1>2, <1>3 DEF SafetyInv, SlotInv
    <2>2. ASSUME NEW s \in Slots \ raced', NEW j \in Ids, Aims(j, s)'
          PROVE  config[s] = 0 /\ \A k \in Ids : Aims(k, s)' => k = j
      <3>1. s \notin raced
        BY <1>3
      <3>2. \A k \in Ids \ {i} : Aims(k, s)' <=> Aims(k, s)
        BY <1>1 DEF Aims
      <3>3. CASE s = p
        <4>1. \A k \in Ids : ~ Aims(k, p)
          BY <1>2, <3>1, <3>3
        <4>2. \A k \in Ids : Aims(k, s)' => k = i
          BY <3>2, <3>3, <4>1
        <4> QED
          BY <1>1, <2>2, <3>3, <4>2
      <3>4. CASE s # p
        <4>1. ~ Aims(i, s)'
          BY <1>1, <3>4 DEF Aims
        <4>2. \A k \in Ids : Aims(k, s)' => Aims(k, s)
          BY <3>2, <4>1
        <4> QED
          BY <2>2, <3>1, <4>2 DEF SafetyInv, SlotInv
      <3> QED
        BY <3>3, <3>4
    <2> QED
      BY <1>2, <2>1, <2>2 DEF SlotInv
  <1>5. SizeInv'
    BY <1>1, <1>2, <1>3 DEF SafetyInv, SizeInv
  <1>6. FreshInv'
    <2>1. i \notin fresh
      BY <1>2 DEF SafetyInv, FreshInv
    <2>2. \A j \in fresh : j \in Ids \ {i}
      BY <1>0, <2>1 DEF RequestsInv
    <2> QED
      BY <1>1, <1>2, <2>2 DEF SafetyInv, FreshInv, Larger
  <1> QED
    BY <1>0, <1>4, <1>5, <1>6, SaysStep DEF SafetyInv

\* A resize that is refused, at the call or in its task, was not fresh.
LEMMA RefusedKeeps ==
  ASSUME VolumeAssumption, TypeInv, SafetyInv, NEW i \in Ids,
         Refused(i) \/ (TaskDone(i) /\ ~ (work[i].op = "add" \/ Larger(i)))
  PROVE  SafetyInv'
  <1>0. Backend(i) /\ RequestsInv
    BY DEF Backend, TypeInv
  <1>1. /\ UNCHANGED <<config, fresh, raced, replaced>>
        /\ refused' = refused \cup {i} /\ Goes(i, "over")
        /\ work[i].at \in {"sent", "task"} /\ ~ Larger(i)
    BY DEF Refused, TaskDone
  <1>2. /\ \A j \in Ids \ {i} : work'[j] = work[j]
        /\ work'[i].at = "over"
    BY <1>0, <1>1, GoesOn DEF RequestsInv, Points
  <1>3. i \notin fresh
    BY <1>1 DEF SafetyInv, FreshInv
  <1>4. \A s \in Slots, j \in Ids : Aims(j, s)' => Aims(j, s)
    BY <1>2 DEF Aims
  <1>5. SlotInv'
    BY <1>1, <1>4 DEF SafetyInv, SlotInv
  <1>6. SizeInv'
    BY <1>1, <1>2 DEF SafetyInv, SizeInv
  <1>7. FreshInv'
    <2>1. \A j \in fresh : j \in Ids \ {i}
      BY <1>0, <1>3 DEF RequestsInv
    <2> QED
      BY <1>1, <1>2, <2>1 DEF SafetyInv, FreshInv, Larger
  <1> QED
    BY <1>0, <1>5, <1>6, <1>7, SaysStep DEF SafetyInv

\* A disk that grows, or is attached.
LEMMA DiskKeeps ==
  ASSUME VolumeAssumption, TypeInv, SafetyInv, NEW i \in Ids,
         TaskDone(i), work[i].op = "add" \/ Larger(i)
  PROVE  SafetyInv'
  <1> DEFINE s == work[i].slot
             n == work[i].size
  <1>0. Backend(i) /\ RequestsInv /\ DisksInv
    BY DEF Backend, TypeInv
  <1>1. /\ UNCHANGED <<raced, refused>> /\ Goes(i, "done") /\ work[i].at = "task"
        /\ config' = [config EXCEPT ![s] = n]
        /\ fresh' = fresh \ Stale(s)
        /\ replaced' = IF work[i].op = "add" /\ config[s] # 0
                         THEN replaced \cup {s} ELSE replaced
    BY DEF TaskDone
  <1>2. /\ \A j \in Ids \ {i} : work'[j] = work[j]
        /\ work'[i].op = work[i].op /\ work'[i].slot = s
        /\ work'[i].size = n /\ work'[i].at = "done"
    BY <1>0, <1>1, GoesOn DEF RequestsInv, Points
  <1>3. s \in Slots /\ n \in Nat
    <2>1. work[i] \in Works /\ s # NoSlot
      BY <1>0, <1>1 DEF RequestsInv
    <2> QED
      BY <2>1, Numbers DEF Works
  <1>4. /\ config'[s] = n /\ \A t \in Slots \ {s} : config'[t] = config[t]
        /\ config[s] \in Nat
    BY <1>0, <1>1, <1>3, Numbers DEF DisksInv, Configs
  <1>5. work[i].op = "add" => Aims(i, s)
    BY <1>1 DEF Aims
  <1>6. work[i].op # "add" => config[s] # 0 /\ n > config[s]
    BY DEF Larger
  <1> HIDE DEF s, n
  <1>7. SlotInv'
    <2>1. replaced' \subseteq raced'
      BY <1>1, <1>3, <1>5 DEF SafetyInv, SlotInv
    <2>2. ASSUME NEW t \in Slots \ raced, NEW j \in Ids, Aims(j, t)'
          PROVE  config'[t] = 0 /\ \A k \in Ids : Aims(k, t)' => k = j
      <3>1. j # i /\ Aims(j, t)
        BY <1>2, <2>2 DEF Aims
      <3>2. config[t] = 0 /\ \A k \in Ids : Aims(k, t) => k = j
        BY <3>1 DEF SafetyInv, SlotInv
      <3>3. t # s
        BY <1>3, <1>5, <1>6, <3>1, <3>2
      <3>4. \A k \in Ids : Aims(k, t)' => Aims(k, t)
        BY <1>2 DEF Aims
      <3> QED
        BY <1>4, <3>2, <3>3, <3>4
    <2> QED
      BY <1>1, <2>1, <2>2 DEF SlotInv
  <1>8. SizeInv'
    <2> SUFFICES ASSUME NEW j \in Ids, work'[j].at = "done", work'[j].slot \notin raced
                 PROVE  config'[work'[j].slot] >= work'[j].size
      BY <1>1 DEF SizeInv
    <2>1. CASE j = i
      BY <1>2, <1>3, <1>4, <2>1
    <2>2. CASE j # i
      <3>1. /\ work'[j] = work[j] /\ work[j].slot \in Slots /\ work[j].size \in Nat
            /\ config[work[j].slot] >= work[j].size
        <4>1. work'[j] = work[j]
          BY <1>2, <2>2
        <4>2. work[j] \in Works /\ work[j].slot # NoSlot
          BY <1>0, <4>1 DEF RequestsInv
        <4> QED
          BY <4>1, <4>2, Numbers DEF Works, SafetyInv, SizeInv
      <3>2. CASE work[j].slot # s
        BY <1>4, <3>1, <3>2
      <3>3. CASE work[j].slot = s
        <4>1. n >= config[s]
          BY <1>3, <1>4, <1>5, <1>6, <2>2, <3>1, <3>3 DEF SafetyInv, SlotInv
        <4> QED
          BY <1>3, <1>4, <3>1, <3>3, <4>1
      <3> QED
        BY <3>2, <3>3
    <2> QED
      BY <2>1, <2>2
  <1>9. FreshInv'
    <2> SUFFICES ASSUME NEW j \in fresh'
                 PROVE  /\ j \notin refused
                        /\ work'[j].op = "resize"
                        /\ work'[j].at \in {"sent", "task"} => Larger(j)'
      BY <1>1 DEF FreshInv
    <2>1. j \in fresh /\ work[j].slot # s /\ j \in Ids
      BY <1>0, <1>1 DEF Stale, RequestsInv
    <2>2. j # i /\ work'[j] = work[j]
      BY <1>2, <2>1 DEF s
    <2>3. /\ j \notin refused /\ work[j].op = "resize"
          /\ work[j].at \in {"sent", "task"} => Larger(j)
      BY <2>1 DEF SafetyInv, FreshInv
    <2>4. work[j].at \in {"sent", "task"} => work[j].slot \in Slots
      BY <1>0, <2>1, <2>3 DEF RequestsInv, Called, Works
    <2> QED
      BY <1>4, <2>1, <2>2, <2>3, <2>4 DEF Larger
  <1> QED
    BY <1>0, <1>7, <1>8, <1>9, SaysStep DEF SafetyInv

-----------------------------------------------------------------------------
(* The theorems *)

\* Nothing has been asked for at the start.
LEMMA InitInv == VolumeAssumption /\ Init => Inv
  <1> SUFFICES ASSUME VolumeAssumption, Init PROVE Inv
    OBVIOUS
  <1>1. /\ \A b \in Browsers : phase[b] = "confirm"
        /\ \A i \in Ids : work[i] = NoWork
        /\ fresh = {} /\ replaced = {}
    BY DEF Init
  <1>2. SlotInv /\ SizeInv /\ SaysInv /\ FreshInv
    BY <1>1 DEF SlotInv, SizeInv, SaysInv, FreshInv, NoWork, Aims
  <1> QED
    BY <1>2, InitType DEF Inv, SafetyInv

\* Inv is inductive.
LEMMA InvStep == VolumeAssumption /\ Inv /\ [Next]_vars => Inv'
  <1> SUFFICES ASSUME VolumeAssumption, Inv, [Next]_vars PROVE Inv'
    OBVIOUS
  <1>0. TypeInv /\ SafetyInv
    BY DEF Inv
  <1>1. ASSUME NEW b \in Browsers,
               \/ ConfigPolled(b) \/ StoragesPolled(b)
               \/ \E d \in {"resize", "add"} : Open(b, d)
               \/ \E s \in Slots : PickDisk(b, s)
               \/ \E n \in Sizes : TypeSize(b, n)
               \/ Resize(b) \/ Add(b) \/ Close(b) \/ Leave(b)
        PROVE  SafetyInv'
    <2>1. CASE Resize(b) \/ Add(b)
      BY <1>0, <2>1, ResizeKeeps, AddKeeps
    <2>2. CASE ~ (Resize(b) \/ Add(b))
      BY <1>0, <1>1, <2>2, PageStep
    <2> QED
      BY <2>1, <2>2
  <1>2. ASSUME NEW i \in Ids, Backend(i)
        PROVE  SafetyInv'
    <2>1. CASE NoSlotFree(i) \/ Accepted(i) \/ GivesUp(i) \/ TaskFails(i)
      BY <1>0, <2>1, QuietKeeps
    <2>2. CASE Picks(i) \/ Refused(i)
      BY <1>0, <2>2, PicksKeeps, RefusedKeeps
    <2>3. CASE TaskDone(i)
      BY <1>0, <2>3, RefusedKeeps, DiskKeeps
    <2> QED
      BY <1>2, <2>1, <2>2, <2>3 DEF Backend
  <1>3. ASSUME UNCHANGED vars
        PROVE  SafetyInv'
    <2>1. UNCHANGED <<config, work, history, phase, request>>
      BY <1>3 DEF vars, formVars, history
    <2> QED
      BY <1>0, <2>1, PageKeeps
  <1>4. SafetyInv'
    BY <1>1, <1>2, <1>3 DEF Next, Backend
  <1> QED
    BY <1>0, <1>4, TypeStep DEF Inv

\* Inv holds in every state.
THEOREM Invariant == ASSUME VolumeAssumption PROVE Spec => []Inv
  <1>1. Init => Inv
    BY InitInv
  <1>2. Inv /\ [Next]_vars => Inv'
    BY InvStep
  <1> QED
    BY <1>1, <1>2, PTL DEF Spec

\* The types of the variables (TypeOK).
THEOREM TypeCorrect == ASSUME VolumeAssumption PROVE Spec => []TypeOK
  <1>1. Inv => TypeOK
    BY DEF Inv, TypeInv, DisksInv, FormsInv, RequestsInv, TypeOK, DialogKinds, Phases,
           Points, Works
  <1> QED
    BY Invariant, <1>1, PTL

\* However late AddVMDisk's call is carried out, the slot it picked is free,
\* unless another request picked it before this one was over (NoDiskReplaced).
THEOREM SlotIsFree == ASSUME VolumeAssumption PROVE Spec => []NoDiskReplaced
  <1>1. Inv => NoDiskReplaced
    BY DEF Inv, SafetyInv, SlotInv, NoDiskReplaced
  <1> QED
    BY Invariant, <1>1, PTL

\* A dialog that says done tells of a call that Proxmox accepted, and of a size
\* the disk has once the task has ended well (DoneIsTrue).
THEOREM DoneIsReal == ASSUME VolumeAssumption PROVE Spec => []DoneIsTrue
  <1>1. ASSUME Inv, NEW b \in Browsers, phase[b] = "done"
        PROVE  request[b] \in Ids
    BY <1>1, RequestId DEF Inv, SafetyInv, SaysInv, TypeInv
  <1>2. Inv => DoneIsTrue
    BY <1>1 DEF Inv, SafetyInv, SaysInv, SizeInv, DoneIsTrue, SaysDone
  <1> QED
    BY Invariant, <1>2, PTL

\* A resize that went by the size the disk still has is not refused, at the call
\* or later in its task (FreshResizeSucceeds).
THEOREM FreshIsAccepted == ASSUME VolumeAssumption PROVE Spec => []FreshResizeSucceeds
  <1>1. Inv => FreshResizeSucceeds
    BY DEF Inv, SafetyInv, FreshInv, FreshResizeSucceeds
  <1> QED
    BY Invariant, <1>1, PTL
=============================================================================
