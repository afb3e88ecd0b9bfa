------------------------ MODULE BackupRestore_proofs ------------------------
(***************************************************************************)
(* Theorems about BackupRestore, for any number of clients, namespaces,    *)
(* secrets, plans, writes, faults and restarts.  ChangesGetBackedUp stays  *)
(* with TLC.                                                               *)
(***************************************************************************)
EXTENDS BackupRestore, TLAPS

Labels == {"idle", "count", "next", "gather", "persist", "row", "audit", "restore", "restored"}
Job == [space : Spaces \cup {None}, data : [Handles -> Secret], plan : Plans \cup {None},
        left : SUBSET Handles, seen : SUBSET Handles]

Stores ==
    /\ live \in [Handles -> Secret] /\ now \in 0..MaxVer
    /\ unsealed \in BOOLEAN /\ quiet \in BOOLEAN
    /\ anacron \in [since : 0..Interval, changes : 0..Threshold, idle : -1..IdleTicks]
    /\ todo \subseteq Spaces /\ done \subseteq Spaces
    /\ files \subseteq Artifact /\ rows \subseteq Artifact
    /\ plans \in [Plans -> Plan \cup {None}]
    /\ faults \in 0..MaxFaults /\ miss \in [Handles -> Reasons]

\* What a worker holds at each step: a backup its namespace and data, a restore
\* a plan that exists; only the scheduler walks the namespaces.
Holds(w) ==
    /\ pc[w] \in {"idle", "next"} => job[w] = NoJob
    /\ pc[w] \in {"gather", "persist", "row", "audit"} => job[w].space \in Spaces
    /\ pc[w] \in {"persist", "row", "audit"} => \E h \in Handles : job[w].data[h] # Absent
    /\ pc[w] \in {"restore", "restored"} => job[w].plan \in Plans /\ plans[job[w].plan] # None
    /\ w = Scheduler => pc[w] \notin {"count", "restore", "restored"}
    /\ w # Scheduler => pc[w] # "next"

TypeInv ==
    /\ Stores /\ pc \in [Workers -> Labels] /\ job \in [Workers -> Job]
    /\ \A w \in Workers : Holds(w)

\* Between the file and the row the artifact is there, and only its own worker
\* can take it away again.
FileInv ==
    /\ RowsHaveArtifacts
    /\ \A w \in Workers : pc[w] = "row" => TheArtifact(w) \in files

\* A plan that is marked is marked once: by a restore that has still to report,
\* or by the one that has reported.
PlanInv ==
    /\ acks \in [Plans -> Nat] /\ RestoreOnce
    /\ \A p \in Plans : acks[p] > 0 => plans[p] # None /\ plans[p].applied
    /\ \A w \in Workers : pc[w] = "restored" =>
        /\ plans[job[w].plan].applied /\ acks[job[w].plan] = 0
        /\ \A v \in Workers : pc[v] = "restored" /\ job[v].plan = job[w].plan => v = w

-----------------------------------------------------------------------------
LEMMA Constants ==
    /\ Absent \in Secret /\ NoData \in [Handles -> Secret] /\ NoJob \in Job
    /\ Scheduler \in Workers /\ Clients \subseteq Workers /\ None \notin Plans \cup Spaces
    /\ MaxVer \in Nat /\ MaxFaults \in Nat /\ Threshold \in Nat \ {0} /\ IdleTicks \in Nat \ {0}
    /\ Interval \in Nat \ {0} /\ PlanTTL \in Nat \ {0}
    /\ Default \in Spaces /\ Scheduler \notin Clients
<1>1. Absent \in Secret
  BY BackupAssumption DEF Absent, Secret
<1>2. NoData \in [Handles -> Secret]
  BY <1>1 DEF NoData
<1>3. NoJob \in Job
  BY <1>2 DEF NoJob, Job
<1> QED
  BY <1>1, <1>2, <1>3, BackupAssumption, NoneAssumption DEF Workers

LEMMA InitInv == Init => TypeInv /\ FileInv /\ PlanInv
<1> SUFFICES ASSUME Init PROVE TypeInv /\ FileInv /\ PlanInv
  OBVIOUS
<1> USE Constants
<1>1. Stores
  <2>1. /\ anacron \in [since : 0..Interval, changes : 0..Threshold, idle : -1..IdleTicks]
        /\ now \in 0..MaxVer /\ faults \in 0..MaxFaults
    BY DEF Init, Fresh
  <2>2. /\ unsealed \in BOOLEAN /\ quiet \in BOOLEAN
        /\ plans \in [Plans -> Plan \cup {None}] /\ miss \in [Handles -> Reasons]
    BY DEF Init, Reasons
  <2> QED
    BY <2>1, <2>2 DEF Init, Stores
<1>2. pc \in [Workers -> Labels] /\ job \in [Workers -> Job] /\ \A w \in Workers : Holds(w)
  BY DEF Init, Labels, Holds
<1>3. FileInv
  BY DEF Init, FileInv, RowsHaveArtifacts
<1>4. PlanInv
  BY DEF Init, PlanInv, RestoreOnce
<1> QED
  BY <1>1, <1>2, <1>3, <1>4 DEF TypeInv
LEMMA TypeInvTypes == TypeInv => TypeOK
<1> SUFFICES ASSUME TypeInv PROVE TypeOK
  OBVIOUS
<1>1. /\ pc[Scheduler] \in {"idle", "next", "gather", "persist", "row", "audit"}
      /\ \A c \in Clients : pc[c] \in {"idle", "count", "gather", "persist",
                                     "row", "audit", "restore", "restored"}
  BY Constants DEF TypeInv, Holds, Labels
<1> QED
  BY <1>1 DEF TypeInv, Stores, Holds, TypeOK

-----------------------------------------------------------------------------
\* Types.  A step of a worker touches its own place and job only, and no plan
\* disappears.
LEMMA Frame ==
  ASSUME TypeInv, NEW w \in Workers, Stores', pc'[w] \in Labels, job'[w] \in Job,
         pc' = [pc EXCEPT ![w] = pc'[w]], job' = [job EXCEPT ![w] = job'[w]],
         \A p \in Plans : plans[p] # None => plans'[p] # None, Holds(w)'
  PROVE  TypeInv'
  BY DEF TypeInv, Holds

\* The same, for the forms in which the actions say it.
LEMMA StartStep ==
  ASSUME TypeInv, NEW w \in Workers, Stores', NEW l \in Labels, NEW j \in Job, Start(w, l, j),
         \A p \in Plans : plans[p] # None => plans'[p] # None,
         /\ l \in {"idle", "next"} => j = NoJob
         /\ l \in {"gather", "persist", "row", "audit"} => j.space \in Spaces
         /\ l \in {"persist", "row", "audit"} => \E h \in Handles : j.data[h] # Absent
         /\ l \in {"restore", "restored"} => j.plan \in Plans /\ plans'[j.plan] # None
         /\ w = Scheduler => l \notin {"count", "restore", "restored"}
         /\ w # Scheduler => l # "next"
  PROVE  TypeInv'
<1>1. pc'[w] = l /\ job'[w] = j
  BY DEF Start, TypeInv
<1>2. pc' = [pc EXCEPT ![w] = pc'[w]] /\ job' = [job EXCEPT ![w] = job'[w]]
  BY <1>1 DEF Start
<1>3. Holds(w)'
  BY <1>1 DEF Holds
<1> QED
  BY <1>1, <1>2, <1>3, Frame

LEMMA ReturnStep ==
  ASSUME TypeInv, NEW w \in Workers, Stores', Return(w) \/ Leave(w),
         \A p \in Plans : plans[p] # None => plans'[p] # None
  PROVE  TypeInv'
  BY StartStep, Constants DEF Return, Leave, Labels

LEMMA GotoStep ==
  ASSUME TypeInv, NEW w \in Workers, Stores', NEW l \in Labels, Goto(w, l),
         \A p \in Plans : plans[p] # None => plans'[p] # None,
         \/ pc[w] = "idle" /\ l = "next" /\ w = Scheduler
         \/ pc[w] \in {"persist", "row"} /\ l \in {"row", "audit"}
         \/ pc[w] = "restore" /\ l = "restored"
  PROVE  TypeInv'
<1>1. pc'[w] = l /\ job'[w] = job[w] /\ pc' = [pc EXCEPT ![w] = pc'[w]]
      /\ job' = [job EXCEPT ![w] = job'[w]]
  BY DEF Goto, TypeInv
<1>2. Holds(w)'
  BY <1>1 DEF Holds, TypeInv
<1> QED
  BY <1>1, <1>2, Frame DEF TypeInv

-----------------------------------------------------------------------------
\* What the operators of the module return.

LEMMA FaultType == ASSUME Stores, Fault PROVE faults' \in 0..MaxFaults
  BY Constants DEF Stores, Fault

LEMMA MissedType ==
  ASSUME Stores, NEW hs, NEW why \in Reasons, Missed(hs, why) PROVE miss' \in [Handles -> Reasons]
  BY DEF Stores, Missed, Reasons

LEMMA TouchType ==
  ASSUME Stores, Touch
  PROVE  anacron' \in [since : 0..Interval, changes : 0..Threshold, idle : -1..IdleTicks] /\ quiet' \in BOOLEAN
<1>1. -1 \in -1..IdleTicks
  BY Constants
<1>2. \A a \in [since : 0..Interval, changes : 0..Threshold, idle : -1..IdleTicks] :
        [a EXCEPT !.idle = -1] \in [since : 0..Interval, changes : 0..Threshold, idle : -1..IdleTicks]
  BY <1>1
<1>3. quiet' \in BOOLEAN
  BY DEF Touch
<1> QED
  BY <1>2, <1>3 DEF Stores, Touch, Touched

LEMMA ArtifactType ==
  ASSUME TypeInv, NEW w \in Workers, pc[w] \in {"persist", "row"} PROVE TheArtifact(w) \in Artifact
<1>1. job[w] \in Job /\ job[w].space \in Spaces
  BY DEF TypeInv, Holds
<1> QED
  BY <1>1 DEF Job, Artifact, TheArtifact

LEMMA WriteStep == ASSUME TypeInv, NEW c \in Clients, NEW h \in Handles, Write(c, h) PROVE TypeInv'
<1>1. now' \in 0..MaxVer
  BY Constants DEF TypeInv, Stores, Write
<1>2. live' \in [Handles -> Secret]
  <2>1. live[h] \in Secret /\ now + 1 \in 0..MaxVer
    BY Constants DEF TypeInv, Stores, Write
  <2>2. [ver |-> now + 1, born |-> IF live[h] = Absent THEN now + 1 ELSE live[h].born] \in Secret
    BY <2>1 DEF Secret
  <2>3. live \in [Handles -> Secret] /\ Absent \in Secret
    BY Constants DEF TypeInv, Stores
  <2>4. \A x \in Secret : [live EXCEPT ![h] = x] \in [Handles -> Secret]
    BY <2>3
  <2> QED
    BY <2>2, <2>3, <2>4 DEF Write
<1>3. miss' \in [Handles -> Reasons]
  BY MissedType DEF Write, TypeInv, Reasons
<1>4. Stores'
  BY <1>1, <1>2, <1>3, TouchType DEF Write, TypeInv, Stores
<1>5. [NoJob EXCEPT !.left = {h}] \in Job
  BY Constants DEF Job
<1>6. c \in Workers /\ c # Scheduler /\ "count" \in Labels /\ plans' = plans
  BY Constants DEF Labels, Write
<1> QED
  BY <1>4, <1>5, <1>6, StartStep DEF Write

LEMMA SchedulerStep == ASSUME TypeInv, Poll \/ NextSpace \/ Completed PROVE TypeInv'
<1> USE Constants
<1>1. CASE Poll
  <2>1. OpenWindow(anacron) \in [since : 0..Interval, changes : 0..Threshold, idle : -1..IdleTicks]
    BY DEF TypeInv, Stores, OpenWindow
  <2>2. Stores'
    BY <1>1, <2>1 DEF Poll, TypeInv, Stores, db
  <2>3. CASE Goto(Scheduler, "next")
    BY <1>1, <2>2, <2>3, GotoStep DEF Poll, Labels, db
  <2>4. CASE UNCHANGED <<pc, job>>
    BY <1>1, <2>2, <2>4 DEF Poll, TypeInv, Holds, db
  <2> QED
    BY <1>1, <2>3, <2>4 DEF Poll
<1>2. CASE NextSpace
  <2>1. Stores'
    BY <1>2 DEF NextSpace, TypeInv, Stores, db
  <2>2. PICK s \in todo : IF Held(s) = {} THEN UNCHANGED <<pc, job>>
                          ELSE Start(Scheduler, "gather", [NoJob EXCEPT !.space = s])
    BY <1>2 DEF NextSpace
  <2>3. s \in Spaces /\ [NoJob EXCEPT !.space = s] \in Job /\ [NoJob EXCEPT !.space = s].space = s
    BY <2>2 DEF TypeInv, Stores, Job
  <2>4. CASE UNCHANGED <<pc, job>>
    BY <1>2, <2>1, <2>4 DEF NextSpace, TypeInv, Holds, db
  <2>5. CASE Start(Scheduler, "gather", [NoJob EXCEPT !.space = s])
    BY <1>2, <2>1, <2>3, <2>5, StartStep DEF NextSpace, Labels, db
  <2> QED
    BY <2>2, <2>4, <2>5
<1>3. CASE Completed
  <2>1. miss' \in [Handles -> Reasons]
    BY <1>3, MissedType DEF Completed, TypeInv, Reasons
  <2>2. Stores'
    BY <1>3, <2>1 DEF Completed, TypeInv, Stores, db
  <2> QED
    BY <1>3, <2>2, ReturnStep DEF Completed, db
<1> QED
  BY <1>1, <1>2, <1>3

LEMMA BackupStep == ASSUME TypeInv, NEW w \in Workers, Backup(w) PROVE TypeInv'
<1> USE Constants DEF db, mem
<1>1. CASE Gather(w)
  <2>1. Stores' /\ plans' = plans
    BY <1>1 DEF Gather, TypeInv, Stores
  <2>2. CASE Leave(w)
    BY <2>1, <2>2, ReturnStep
  <2> DEFINE d == [h \in Handles |-> IF h \in Held(job[w].space) THEN live[h] ELSE Absent]
             j == [job[w] EXCEPT !.data = d]
  <2>3. CASE Held(job[w].space) # {} /\ Start(w, "persist", j)
    <3>1. d \in [Handles -> Secret] /\ \E h \in Handles : d[h] # Absent
      BY <2>3 DEF TypeInv, Stores, Held
    <3>2. job[w] \in Job /\ job[w].space \in Spaces
      BY <1>1 DEF Gather, TypeInv, Holds
    <3> HIDE DEF d
    <3>3. j \in Job /\ j.space = job[w].space /\ j.data = d
      BY <3>1, <3>2 DEF Job
    <3> HIDE DEF j
    <3> QED
      BY <2>1, <2>3, <3>1, <3>2, <3>3, StartStep DEF Labels
  <2> QED
    BY <1>1, <2>2, <2>3 DEF Gather
<1>2. CASE Persist(w)
  <2>1. Stores' /\ plans' = plans
    BY <1>2, FaultType, ArtifactType DEF Persist, TypeInv, Stores
  <2> QED
    BY <1>2, <2>1, ReturnStep, GotoStep DEF Persist, Labels
<1>3. CASE Row(w)
  <2>1. Stores' /\ plans' = plans
    BY <1>3, FaultType, ArtifactType DEF Row, TypeInv, Stores
  <2> QED
    BY <1>3, <2>1, ReturnStep, GotoStep DEF Row, Labels
<1>4. CASE AuditBackup(w)
  <2>1. w = Scheduler => job[w].space \in Spaces
    BY <1>4 DEF AuditBackup, TypeInv, Holds
  <2>2. Stores' /\ plans' = plans
    BY <1>4, <2>1, FaultType DEF AuditBackup, TypeInv, Stores
  <2> QED
    BY <1>4, <2>2, ReturnStep DEF AuditBackup
<1> QED
  BY <1>1, <1>2, <1>3, <1>4 DEF Backup
LEMMA RequestStep ==
  ASSUME TypeInv, NEW c \in Clients, RecordChange(c) \/ Uncounted(c) \/ Request(c) \/ Manual(c)
  PROVE  TypeInv'
<1> USE Constants DEF db
<1>1. CASE RecordChange(c)
  <2>1. Stores' /\ plans' = plans
    BY <1>1 DEF RecordChange, TypeInv, Stores
  <2> QED
    BY <1>1, <2>1, ReturnStep DEF RecordChange
<1>2. CASE Request(c)
  <2>1. Stores' /\ UNCHANGED <<plans, pc, job>>
    BY <1>2, TouchType DEF Request, TypeInv, Stores
  <2> QED
    BY <2>1 DEF TypeInv, Holds
<1>3. CASE Manual(c)
  <2>1. Stores' /\ plans' = plans
    BY <1>3, TouchType DEF Manual, TypeInv, Stores
  <2>2. [NoJob EXCEPT !.space = Default] \in Job /\ [NoJob EXCEPT !.space = Default].space = Default
    BY DEF Job
  <2> QED
    BY <1>3, <2>1, <2>2, StartStep DEF Manual, Labels
<1>4. CASE Uncounted(c)
  <2>1. miss' \in [Handles -> Reasons]
    BY <1>4, MissedType DEF Uncounted, TypeInv, Reasons
  <2>2. Stores' /\ plans' = plans
    BY <1>4, <2>1 DEF Uncounted, TypeInv, Stores, mem
  <2> QED
    BY <1>4, <2>2, ReturnStep DEF Uncounted
<1> QED
  BY <1>1, <1>2, <1>3, <1>4

LEMMA PlanStep ==
  ASSUME TypeInv, NEW c \in Clients, NEW p \in Plans, NEW b \in rows, NEW mode \in Modes,
         MakePlan(c, p, b, mode)
  PROVE  TypeInv'
<1> DEFINE res == [h \in Handles |-> IF b.data[h] # Absent /\ live[h] # Absent
                                     THEN Resolve(mode, b.data[h], live[h]) ELSE "none"]
           plan == [data |-> b.data, left |-> PlanTTL, applied |-> FALSE, res |-> res]
<1>1. \A x, y : Resolve(mode, x, y) \in Resolutions
  BY BackupAssumption DEF Resolve, Resolutions
<1>2. res \in [Handles -> Resolutions]
  BY <1>1 DEF Resolutions
<1> HIDE DEF res
<1>3. plan \in Plan
  <2>1. b.data \in [Handles -> Secret] /\ PlanTTL \in 0..PlanTTL
    BY Constants DEF TypeInv, Stores, Artifact
  <2> QED
    BY <1>2, <2>1 DEF Plan
<1> HIDE DEF plan
<1>4. plans' = [plans EXCEPT ![p] = plan] /\ UNCHANGED <<pc, job>>
  BY DEF MakePlan, plan, res
<1>5. Stores'
  BY <1>3, <1>4, TouchType DEF MakePlan, TypeInv, Stores
<1>6. \A q \in Plans : plans[q] # None => plans'[q] # None
  BY <1>3, <1>4, NoneAssumption DEF TypeInv, Stores
<1> QED
  BY <1>4, <1>5, <1>6 DEF TypeInv, Holds

LEMMA RestoreStep ==
  ASSUME TypeInv, NEW c \in Clients,
         (\E p \in Plans : ExecuteRestore(c, p)) \/ RestoreOne(c) \/ Applied(c) \/ AuditRestore(c)
  PROVE  TypeInv'
<1> USE Constants DEF db, mem
<1>1. ASSUME NEW p \in Plans, ExecuteRestore(c, p) PROVE TypeInv'
  <2> DEFINE todoH == {h \in Handles : plans[p].data[h] # Absent}
             j == [NoJob EXCEPT !.plan = p, !.left = todoH, !.seen = Held(Default)]
  <2>1. Stores' /\ plans' = plans /\ plans[p] # None /\ Start(c, "restore", j)
    BY <1>1, TouchType DEF ExecuteRestore, TypeInv, Stores
  <2>2. todoH \subseteq Handles /\ Held(Default) \subseteq Handles
    BY DEF Held
  <2> HIDE DEF todoH
  <2>3. j \in Job /\ j.plan = p
    BY <2>2 DEF Job
  <2> HIDE DEF j
  <2> QED
    BY <2>1, <2>3, StartStep DEF Labels
<1>2. CASE RestoreOne(c)
  <2>1. /\ job[c] \in Job /\ job[c].plan \in Plans /\ plans[job[c].plan] \in Plan
    BY <1>2 DEF RestoreOne, TypeInv, Holds, Stores
  <2>2. PICK h \in job[c].left :
          LET t == Target(job[c], h) IN
          \/ /\ Start(c, "restore", [job[c] EXCEPT !.left = @ \ {h}])
             /\ live' = IF t = None THEN live ELSE [live EXCEPT ![t] = plans[job[c].plan].data[h]]
             /\ Missed({t}, "lost") /\ UNCHANGED faults
          \/ t # None /\ Fault /\ Return(c) /\ UNCHANGED <<live, miss>>
    BY <1>2 DEF RestoreOne
  <2>3. h \in Handles /\ plans[job[c].plan].data[h] \in Secret
    BY <2>1, <2>2 DEF Job, Plan
  <2>4. live' \in [Handles -> Secret]
    BY <2>2, <2>3 DEF TypeInv, Stores
  <2>4a. miss' \in [Handles -> Reasons]
    BY <2>2, MissedType DEF TypeInv, Stores, Reasons
  <2>5. Stores' /\ plans' = plans
    BY <1>2, <2>2, <2>4, <2>4a, FaultType DEF RestoreOne, TypeInv, Stores
  <2>6. [job[c] EXCEPT !.left = @ \ {h}] \in Job /\ [job[c] EXCEPT !.left = @ \ {h}].plan = job[c].plan
    BY <2>1 DEF Job
  <2>7. plans[job[c].plan] # None
    BY <2>1, NoneAssumption
  <2> QED
    BY <2>1, <2>2, <2>5, <2>6, <2>7, StartStep, ReturnStep DEF Labels
<1>3. CASE Applied(c)
  <2>1. job[c].plan \in Plans /\ plans[job[c].plan] \in Plan
    BY <1>3 DEF Applied, TypeInv, Holds, Stores
  <2>2. [plans[job[c].plan] EXCEPT !.applied = TRUE] \in Plan
    BY <2>1 DEF Plan
  <2>3. /\ plans' \in [Plans -> Plan \cup {None}]
        /\ \A p \in Plans : plans[p] # None => plans'[p] # None
    BY <1>3, <2>1, <2>2, NoneAssumption DEF Applied, TypeInv, Stores
  <2>4. Stores'
    BY <1>3, <2>3, FaultType DEF Applied, TypeInv, Stores
  <2> QED
    BY <1>3, <2>3, <2>4, ReturnStep, GotoStep DEF Applied, Labels
<1>4. CASE AuditRestore(c)
  <2>1. Stores' /\ plans' = plans
    BY <1>4, FaultType DEF AuditRestore, TypeInv, Stores
  <2> QED
    BY <1>4, <2>1, ReturnStep DEF AuditRestore
<1> QED
  BY <1>1, <1>2, <1>3, <1>4

LEMMA OtherStep == ASSUME TypeInv, Tick \/ SealOrUnseal \/ Restart \/ UNCHANGED vars PROVE TypeInv'
<1> USE Constants DEF db, mem
<1>1. CASE Tick
  <2>1. \A p \in Plans : Older(plans[p]) \in Plan \cup {None} /\ (plans[p] # None => Older(plans[p]) # None)
    <3> SUFFICES ASSUME NEW p \in Plans, plans[p] # None PROVE Older(plans[p]) \in Plan
      BY NoneAssumption DEF Older
    <3>1. plans[p] \in Plan
      BY DEF TypeInv, Stores
    <3> QED
      BY <3>1 DEF Older, Plan
  <2>2. anacron' \in [since : 0..Interval, changes : 0..Threshold, idle : -1..IdleTicks]
    <3>1. PICK a \in [since : 0..Interval, changes : 0..Threshold, idle : -1..IdleTicks] : a = anacron
      BY DEF TypeInv, Stores
    <3>2. /\ (IF a.since < Interval THEN a.since + 1 ELSE a.since) \in 0..Interval
          /\ (IF a.idle \in 0..(IdleTicks - 1) THEN a.idle + 1 ELSE a.idle) \in -1..IdleTicks
      OBVIOUS
    <3>3. anacron' = [a EXCEPT !.since = IF a.since < Interval THEN a.since + 1 ELSE a.since,
                               !.idle = IF a.idle \in 0..(IdleTicks - 1) THEN a.idle + 1 ELSE a.idle]
      BY <1>1, <3>1 DEF Tick
    <3> QED
      BY <3>2, <3>3
  <2>3. plans' \in [Plans -> Plan \cup {None}] /\ quiet' \in BOOLEAN
    BY <1>1, <2>1 DEF Tick
  <2>4. Stores'
    BY <1>1, <2>2, <2>3 DEF Tick, TypeInv, Stores
  <2> QED
    BY <1>1, <2>1, <2>4 DEF Tick, TypeInv, Holds
<1>2. CASE SealOrUnseal
  <2>1. Stores' /\ UNCHANGED <<plans, pc, job>>
    BY <1>2 DEF SealOrUnseal, TypeInv, Stores
  <2> QED
    BY <2>1 DEF TypeInv, Holds
<1>3. CASE Restart
  <2>1. Fresh \in [since : 0..Interval, changes : 0..Threshold, idle : -1..IdleTicks]
    BY DEF Fresh
  <2>2. unsealed' \in BOOLEAN /\ quiet' \in BOOLEAN /\ miss' \in [Handles -> Reasons]
    BY <1>3, MissedType DEF Restart, TypeInv, Reasons
  <2>3. Stores'
    BY <1>3, <2>1, <2>2, FaultType DEF Restart, TypeInv, Stores
  <2>4. pc' = [w \in Workers |-> "idle"] /\ job' = [w \in Workers |-> NoJob]
    BY <1>3 DEF Restart
  <2> QED
    BY <2>3, <2>4 DEF TypeInv, Holds, Labels
<1>4. CASE UNCHANGED vars
  BY <1>4 DEF vars, TypeInv, Stores, Holds
<1> QED
  BY <1>1, <1>2, <1>3, <1>4

LEMMA TypeStep == ASSUME TypeInv, [Next]_vars PROVE TypeInv'
  BY WriteStep, SchedulerStep, BackupStep, RequestStep, PlanStep, RestoreStep, OtherStep, Constants
     DEF Next, Schedule
-----------------------------------------------------------------------------
\* Files and rows.  Most steps touch neither and bring no worker between them.

LEMMA FileFrame ==
  ASSUME FileInv, UNCHANGED <<files, rows>>,
         \A v \in Workers : pc'[v] = "row" => pc[v] = "row" /\ job'[v] = job[v]
  PROVE  FileInv'
  BY DEF FileInv, RowsHaveArtifacts, TheArtifact

\* What a step of one worker does to the places of all.
LEMMA Moves ==
  ASSUME TypeInv, NEW w \in Workers, NEW l, NEW j, Start(w, l, j)
  PROVE  /\ pc'[w] = l /\ job'[w] = j
         /\ \A v \in Workers \ {w} : pc'[v] = pc[v] /\ job'[v] = job[v]
  BY DEF TypeInv, Start

LEMMA GoesOn ==
  ASSUME TypeInv, NEW w \in Workers, NEW l, Goto(w, l)
  PROVE  /\ pc'[w] = l
         /\ \A v \in Workers : job'[v] = job[v] /\ (v # w => pc'[v] = pc[v])
  BY DEF TypeInv, Goto

LEMMA Leaves ==
  ASSUME TypeInv, NEW w \in Workers, Leave(w) \/ Return(w)
  PROVE  /\ pc'[w] \in {"idle", "next"}
         /\ \A v \in Workers \ {w} : pc'[v] = pc[v] /\ job'[v] = job[v]
  BY DEF TypeInv, Leave, Return, Start

LEMMA FileStep == ASSUME TypeInv, FileInv, [Next]_vars PROVE FileInv'
<1> USE DEF mem, db
<1>1. ASSUME NEW w \in Workers, Persist(w) PROVE FileInv'
  <2>1. CASE Leave(w) /\ files' = files
    BY <1>1, <2>1, Leaves, FileFrame DEF Persist
  <2>2. CASE files' = files \cup {TheArtifact(w)} /\ Goto(w, "row")
    <3>1. \A v \in Workers : job'[v] = job[v] /\ (v # w => pc'[v] = pc[v])
      BY <2>2, GoesOn
    <3> QED
      BY <1>1, <2>2, <3>1 DEF Persist, FileInv, RowsHaveArtifacts, TheArtifact
  <2> QED
    BY <1>1, <2>1, <2>2 DEF Persist
<1>2. ASSUME NEW w \in Workers, Row(w) PROVE FileInv'
  <2>1. TheArtifact(w) \in files
    BY <1>2 DEF Row, FileInv
  <2>2. CASE rows' = rows \cup {TheArtifact(w)} /\ Goto(w, "audit") /\ files' = files
    <3>1. \A v \in Workers : job'[v] = job[v] /\ (pc'[v] = "row" => pc[v] = "row")
      BY <2>2, GoesOn
    <3> QED
      BY <2>1, <2>2, <3>1 DEF FileInv, RowsHaveArtifacts, TheArtifact
  <2>3. CASE Leave(w) /\ files' = files \ ({TheArtifact(w)} \ rows) /\ rows' = rows
    <3>1. \A v \in Workers : pc'[v] = "row" => v # w /\ pc[v] = "row" /\ job'[v] = job[v]
      BY <2>3, Leaves
    <3>2. \A v \in Workers : TheArtifact(v).by = v
      BY DEF TheArtifact
    <3>3. RowsHaveArtifacts'
      BY <2>3 DEF FileInv, RowsHaveArtifacts
    <3>4. ASSUME NEW v \in Workers, pc'[v] = "row" PROVE TheArtifact(v)' \in files'
      <4>1. TheArtifact(v)' = TheArtifact(v) /\ TheArtifact(v) \in files /\ TheArtifact(v) # TheArtifact(w)
        BY <3>1, <3>2, <3>4 DEF FileInv, TheArtifact
      <4> QED
        BY <2>3, <4>1
    <3> QED
      BY <3>3, <3>4 DEF FileInv
  <2> QED
    BY <1>2, <2>2, <2>3 DEF Row
<1>3. ASSUME NEW w \in Workers, Gather(w) \/ AuditBackup(w) PROVE FileInv'
  <2>1. CASE Leave(w)
    BY <1>3, <2>1, Leaves, FileFrame DEF Gather, AuditBackup
  <2>2. ASSUME NEW j, Start(w, "persist", j), UNCHANGED <<files, rows>> PROVE FileInv'
    BY <2>2, Moves, FileFrame
  <2> QED
    BY <1>3, <2>1, <2>2 DEF Gather, AuditBackup
<1>4. CASE Poll \/ NextSpace \/ Completed
  <2>1. UNCHANGED <<files, rows>>
    BY <1>4 DEF Poll, NextSpace, Completed
  <2>2. CASE Goto(Scheduler, "next") \/ UNCHANGED <<pc, job>> \/ Return(Scheduler)
    BY <2>1, <2>2, GoesOn, Leaves, Constants, FileFrame
  <2>3. ASSUME NEW j, Start(Scheduler, "gather", j) PROVE FileInv'
    BY <2>1, <2>3, Moves, Constants, FileFrame
  <2> QED
    BY <1>4, <2>2, <2>3 DEF Poll, NextSpace, Completed
<1>5. ASSUME NEW c \in Clients, NEW h, Write(c, h) PROVE FileInv'
  BY <1>5, Moves, Constants, FileFrame DEF Write
<1>6. ASSUME NEW c \in Clients, RecordChange(c) \/ Uncounted(c) \/ Request(c) \/ AuditRestore(c)
      PROVE FileInv'
  BY <1>6, Leaves, Constants, FileFrame DEF RecordChange, Uncounted, Request, AuditRestore
<1>7. ASSUME NEW c \in Clients, Manual(c) PROVE FileInv'
  BY <1>7, Moves, Constants, FileFrame DEF Manual
<1>8. ASSUME NEW c \in Clients, NEW p, ExecuteRestore(c, p) PROVE FileInv'
  BY <1>8, Moves, Constants, FileFrame DEF ExecuteRestore
<1>9. ASSUME NEW c \in Clients, RestoreOne(c) PROVE FileInv'
  BY <1>9, Moves, Leaves, Constants, FileFrame DEF RestoreOne
<1>10. ASSUME NEW c \in Clients, Applied(c) PROVE FileInv'
  BY <1>10, GoesOn, Leaves, Constants, FileFrame DEF Applied
<1>11. ASSUME NEW c \in Clients, NEW p, NEW b, NEW mode, MakePlan(c, p, b, mode) PROVE FileInv'
  BY <1>11, FileFrame DEF MakePlan
<1>12. CASE Tick \/ SealOrUnseal \/ Restart \/ UNCHANGED vars
  BY <1>12, FileFrame DEF Tick, SealOrUnseal, Restart, vars
<1> QED
  BY <1>1, <1>2, <1>3, <1>4, <1>5, <1>6, <1>7, <1>8, <1>9, <1>10, <1>11, <1>12, Constants
     DEF Next, Schedule, Backup
-----------------------------------------------------------------------------
\* Plans.  Most steps mark none, unmark none and report none.

Keeps == \A p \in Plans : plans[p] # None =>
            plans'[p] # None /\ (plans[p].applied => plans'[p].applied)

LEMMA PlanFrame ==
  ASSUME TypeInv, PlanInv, acks' = acks, Keeps,
         \A v \in Workers : pc'[v] = "restored" => pc[v] = "restored" /\ job'[v] = job[v]
  PROVE  PlanInv'
<1>1. \A v \in Workers : pc[v] = "restored" => job[v].plan \in Plans /\ plans[job[v].plan] # None
  BY DEF TypeInv, Holds
<1> QED
  BY <1>1 DEF PlanInv, RestoreOnce, Keeps

LEMMA KeepsSame == ASSUME plans' = plans PROVE Keeps
  BY DEF Keeps

LEMMA PlanStepInv == ASSUME TypeInv, PlanInv, [Next]_vars PROVE PlanInv'
<1> USE DEF mem, db
<1>1. ASSUME NEW c \in Clients, Applied(c) PROVE PlanInv'
  <2> DEFINE q == job[c].plan
  <2>1. c \in Workers /\ q \in Plans /\ plans[q] \in Plan /\ acks' = acks
    BY <1>1, Constants DEF Applied, TypeInv, Holds, Stores
  <2>2. CASE Return(c) /\ plans' = plans
    BY <2>1, <2>2, Leaves, KeepsSame, PlanFrame
  <2>3. CASE ~plans[q].applied /\ plans' = [plans EXCEPT ![q].applied = TRUE] /\ Goto(c, "restored")
    <3>1. /\ pc'[c] = "restored" /\ \A v \in Workers : job'[v] = job[v] /\ (v # c => pc'[v] = pc[v])
      BY <2>1, <2>3, GoesOn
    <3>2. /\ plans'[q].applied
          /\ \A p \in Plans \ {q} : plans'[p] = plans[p]
      BY <2>1, <2>3 DEF TypeInv, Stores, Plan
    <3>3. plans'[q] # None
      <4>1. plans'[q] \in Plan
        BY <2>1, <2>3 DEF TypeInv, Stores, Plan
      <4> QED
        BY <4>1, NoneAssumption
    <3>4. \A v \in Workers : pc[v] = "restored" => job[v].plan \in Plans /\ job[v].plan # q
      BY <2>3 DEF PlanInv, TypeInv, Holds
    <3>5. acks[q] = 0
      BY <2>1, <2>3 DEF PlanInv
    <3> HIDE DEF q
    <3>6. job[c].plan = q
      BY DEF q
    <3> QED
      BY <2>1, <3>1, <3>2, <3>3, <3>4, <3>5, <3>6 DEF PlanInv, RestoreOnce
  <2> QED
    BY <1>1, <2>2, <2>3 DEF Applied
<1>2. ASSUME NEW c \in Clients, AuditRestore(c) PROVE PlanInv'
  <2> DEFINE q == job[c].plan
  <2>1. c \in Workers /\ pc[c] = "restored" /\ q \in Plans /\ plans[q] # None /\ plans' = plans
    BY <1>2, Constants DEF AuditRestore, TypeInv, Holds
  <2>2. plans[q].applied /\ acks[q] = 0
        /\ \A v \in Workers : pc[v] = "restored" /\ v # c => job[v].plan # q
    BY <2>1 DEF PlanInv
  <2>3. \A v \in Workers : pc'[v] = "restored" => v # c /\ pc[v] = "restored" /\ job'[v] = job[v]
    BY <1>2, <2>1, Leaves DEF AuditRestore
  <2>4. CASE acks' = acks
    BY <2>1, <2>3, <2>4, KeepsSame, PlanFrame
  <2>5. CASE acks' = [acks EXCEPT ![q] = acks[q] + 1]
    <3>1. acks' \in [Plans -> Nat] /\ acks'[q] = 1 /\ \A p \in Plans \ {q} : acks'[p] = acks[p]
      BY <2>1, <2>2, <2>5 DEF PlanInv
    <3> HIDE DEF q
    <3>2. \A v \in Workers : pc[v] = "restored" => job[v].plan \in Plans
      BY DEF TypeInv, Holds
    <3> QED
      BY <2>1, <2>2, <2>3, <3>1, <3>2 DEF PlanInv, RestoreOnce
  <2> QED
    BY <1>2, <2>4, <2>5 DEF AuditRestore
<1>3. ASSUME NEW c \in Clients, NEW p, NEW b, NEW mode, p \in Plans, MakePlan(c, p, b, mode) PROVE PlanInv'
  BY <1>3, PlanFrame DEF MakePlan, Keeps, TypeInv, Stores
<1>4. CASE Tick
  <2>1. \A p \in Plans : plans[p] # None => Older(plans[p]).applied = plans[p].applied
    BY DEF Older, TypeInv, Stores, Plan
  <2>2. \A p \in Plans : plans[p] # None => Older(plans[p]) # None
    <3> SUFFICES ASSUME NEW p \in Plans, plans[p] # None PROVE Older(plans[p]) \in Plan
      BY NoneAssumption
    <3>1. plans[p] \in Plan
      BY DEF TypeInv, Stores
    <3> QED
      BY <3>1, Constants DEF Older, Plan
  <2> QED
    BY <1>4, <2>1, <2>2, PlanFrame DEF Tick, Keeps
<1>5. ASSUME NEW w \in Workers, Backup(w) PROVE PlanInv'
  <2>1. plans' = plans /\ acks' = acks
    BY <1>5 DEF Backup, Gather, Persist, Row, AuditBackup
  <2>2. CASE Leave(w) \/ Goto(w, "row") \/ Goto(w, "audit")
    BY <2>1, <2>2, Leaves, GoesOn, KeepsSame, PlanFrame
  <2>3. ASSUME NEW j, Start(w, "persist", j) PROVE PlanInv'
    BY <2>1, <2>3, Moves, KeepsSame, PlanFrame
  <2> QED
    BY <1>5, <2>2, <2>3 DEF Backup, Gather, Persist, Row, AuditBackup
<1>6. CASE Poll \/ NextSpace \/ Completed
  <2>1. plans' = plans /\ acks' = acks
    BY <1>6 DEF Poll, NextSpace, Completed
  <2>2. CASE Goto(Scheduler, "next") \/ UNCHANGED <<pc, job>> \/ Return(Scheduler)
    BY <2>1, <2>2, GoesOn, Leaves, Constants, KeepsSame, PlanFrame
  <2>3. ASSUME NEW j, Start(Scheduler, "gather", j) PROVE PlanInv'
    BY <2>1, <2>3, Moves, Constants, KeepsSame, PlanFrame
  <2> QED
    BY <1>6, <2>2, <2>3 DEF Poll, NextSpace, Completed
<1>7. ASSUME NEW c \in Clients, NEW h, Write(c, h) PROVE PlanInv'
  BY <1>7, Moves, Constants, KeepsSame, PlanFrame DEF Write
<1>8. ASSUME NEW c \in Clients, RecordChange(c) \/ Uncounted(c) \/ Request(c) PROVE PlanInv'
  BY <1>8, Leaves, Constants, KeepsSame, PlanFrame DEF RecordChange, Uncounted, Request
<1>9. ASSUME NEW c \in Clients, Manual(c) PROVE PlanInv'
  BY <1>9, Moves, Constants, KeepsSame, PlanFrame DEF Manual
<1>10. ASSUME NEW c \in Clients, NEW p, ExecuteRestore(c, p) PROVE PlanInv'
  BY <1>10, Moves, Constants, KeepsSame, PlanFrame DEF ExecuteRestore
<1>11. ASSUME NEW c \in Clients, RestoreOne(c) PROVE PlanInv'
  BY <1>11, Moves, Leaves, Constants, KeepsSame, PlanFrame DEF RestoreOne
<1>12. CASE SealOrUnseal \/ Restart \/ UNCHANGED vars
  BY <1>12, KeepsSame, PlanFrame DEF SealOrUnseal, Restart, vars
<1> QED
  BY <1>1, <1>2, <1>3, <1>4, <1>5, <1>6, <1>7, <1>8, <1>9, <1>10, <1>11, <1>12, Constants
     DEF Next, Schedule

-----------------------------------------------------------------------------
LEMMA Invariance == Spec => [](TypeInv /\ FileInv /\ PlanInv)
  BY InitInv, TypeStep, FileStep, PlanStepInv, PTL DEF Spec

\* trigger_backup.rs: every backup the database lists has its artifact in the
\* directory, whatever failed, was sealed or crashed between file and row, with
\* any number of workers.
THEOREM BackupsStaySound == Spec => []BackupsSound
<1>1. TypeInv /\ FileInv => BackupsSound
  BY TypeInvTypes DEF FileInv, BackupsSound
<1> QED
  BY <1>1, Invariance, PTL

\* execute_restore.rs: two applications of one plan, racing or retried after an
\* error or a restart, never both report success.
THEOREM RestoresOnce == Spec => []RestoreOnce
<1>1. PlanInv => RestoreOnce
  BY DEF PlanInv
<1> QED
  BY <1>1, Invariance, PTL
=============================================================================
