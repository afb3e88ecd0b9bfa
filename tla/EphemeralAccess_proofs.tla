----------------------- MODULE EphemeralAccess_proofs -----------------------
(***************************************************************************)
(* Theorems about EphemeralAccess for any number of clients, tokens and    *)
(* files, any lifetimes and reaper period, and all faults.                 *)
(***************************************************************************)
EXTENDS EphemeralAccess, TLAPS

\* What a command at work holds, beyond its type: its token or its file, and
\* both were drawn.
JobInv(c) ==
    /\ pc[c] \in {"issue", "consume", "load"} => job[c].token \in Tokens \cap drawn
    /\ pc[c] \in {"audit", "unlink", "register"} => job[c].file \in Files \cap drawn

\* Everything that was handed out was drawn, so that nothing is drawn twice.
DrawnInv ==
    /\ DOMAIN tokens \subseteq drawn /\ DOMAIN grant \subseteq drawn /\ failed \subseteq drawn
    /\ \A f \in DOMAIN grant : grant[f].token \in drawn

TypeInv == TypeOK /\ DrawnInv /\ \A c \in Clients : JobInv(c)

\* A token has been spent: a command past consume_use_token holds it, or a file
\* was made for it.
Loading(c, t) == pc[c] = "load" /\ job[c].token = t
Spent(t) == \/ \E c \in Clients : Loading(c, t)
            \/ \E f \in DOMAIN grant : grant[f].token = t

\* A token that can still be consumed, or is about to be registered, is unspent;
\* a spent one has one owner, of the right handle.
TokenInv ==
    /\ \A t \in DOMAIN tokens : ~tokens[t].consumed => ~Spent(t)
    /\ \A c \in Clients : pc[c] = "issue" =>
         /\ job[c].token \notin DOMAIN tokens /\ ~Spent(job[c].token)
         /\ \A d \in Clients : pc[d] = "issue" /\ job[d].token = job[c].token => d = c
    /\ \A c \in Clients : pc[c] = "load" =>
         /\ job[c].bound
         /\ \A d \in Clients : Loading(d, job[c].token) => d = c
         /\ \A f \in DOMAIN grant : grant[f].token # job[c].token
    /\ SingleUse

-----------------------------------------------------------------------------
LEMMA InitTypeInv == Init => TypeInv
<1> SUFFICES ASSUME Init PROVE TypeInv
  OBVIOUS
<1> USE EphemeralAssumption
<1>1. NoJob \in Job
  BY DEF NoJob, Job
<1>2. Asleep \in [pc : {"sleep", "reap", "sweep"}, left : 0..Interval,
                  todo : SUBSET Files, seen : SUBSET Files]
  BY DEF Asleep
<1>3. TypeOK
  BY <1>1, <1>2 DEF Init, TypeOK, Labels
<1>4. DrawnInv /\ \A c \in Clients : JobInv(c)
  BY DEF Init, DrawnInv, JobInv
<1> QED
  BY <1>3, <1>4 DEF TypeInv

\* The jobs that requests start with.
LEMMA JobTypes ==
    /\ NoJob \in Job
    /\ \A t \in Tokens : [NoJob EXCEPT !.token = t, !.left = TokenTTL] \in Job
    /\ \A t \in Tokens, b \in BOOLEAN : [NoJob EXCEPT !.token = t, !.bound = b] \in Job
    /\ \A f \in Files : [NoJob EXCEPT !.file = f] \in Job
<1>1. 0 \in 0..TokenTTL /\ TokenTTL \in 0..TokenTTL
  BY EphemeralAssumption
<1> QED
  BY <1>1 DEF NoJob, Job

LEMMA LessRange == \A m \in Nat : \A n \in 0..m : Less(n) \in 0..m
BY DEF Less

\* A tick only shortens what is left of a job and of a token's entry.
LEMMA JobUpdates ==
    ASSUME NEW j \in Job
    PROVE  LET i == [j EXCEPT !.left = Less(@)]
           IN  i \in Job /\ i.token = j.token /\ i.file = j.file /\ i.bound = j.bound
<1>1. Less(j.left) \in 0..TokenTTL
  BY LessRange, EphemeralAssumption DEF Job
<1> QED
  BY <1>1 DEF Job

LEMMA EntryUpdates ==
    ASSUME NEW e \in Entry
    PROVE  /\ [e EXCEPT !.consumed = TRUE] \in Entry
           /\ [e EXCEPT !.left = Less(@)] \in Entry
<1>1. Less(e.left) \in 0..TokenTTL
  BY LessRange, EphemeralAssumption DEF Entry
<1> QED
  BY <1>1 DEF Entry

LEMMA TypeStep == ASSUME TypeInv, [Next]_vars PROVE TypeInv'
<1> USE DEF TypeInv, TypeOK, DrawnInv, JobInv, Labels, At, Goto, Return, mem, history
<1>a. NoJob \in Job
  BY JobTypes
<1>1. ASSUME NEW c \in Clients, Issue(c) PROVE TypeInv'
  <2>1. PICK t \in Tokens \ drawn :
          /\ job' = [job EXCEPT ![c] = [NoJob EXCEPT !.token = t, !.left = TokenTTL]]
          /\ drawn' = drawn \cup {t}
    BY <1>1 DEF Issue
  <2> DEFINE j == [NoJob EXCEPT !.token = t, !.left = TokenTTL]
  <2>2. j \in Job /\ j.token = t
    <3>1. j \in Job
      BY JobTypes
    <3>2. j.token = t
      BY DEF NoJob
    <3> QED
      BY <3>1, <3>2
  <2> HIDE DEF j
  <2> QED
    BY <1>1, <2>1, <2>2 DEF Issue, j
<1>2. ASSUME NEW c \in Clients, Materialize(c) PROVE TypeInv'
  <2>1. PICK t \in drawn \cap Tokens, b \in BOOLEAN :
          job' = [job EXCEPT ![c] = [NoJob EXCEPT !.token = t, !.bound = b]]
    BY <1>2 DEF Materialize
  <2> DEFINE j == [NoJob EXCEPT !.token = t, !.bound = b]
  <2>2. j \in Job /\ j.token = t
    <3>1. j \in Job
      BY JobTypes
    <3>2. j.token = t
      BY DEF NoJob
    <3> QED
      BY <3>1, <3>2
  <2> HIDE DEF j
  <2> QED
    BY <1>2, <2>1, <2>2 DEF Materialize, j
<1>3. ASSUME NEW c \in Clients, RevokeUnlink(c) PROVE TypeInv'
  <2>1. PICK f \in returned : /\ disk' = disk \ {f}
                             /\ job' = [job EXCEPT ![c] = [NoJob EXCEPT !.file = f]]
    BY <1>3 DEF RevokeUnlink
  <2> DEFINE j == [NoJob EXCEPT !.file = f]
  <2>2. j \in Job
    BY JobTypes
  <2> HIDE DEF j
  <2> QED
    BY <1>3, <2>1, <2>2 DEF RevokeUnlink, j
<1>4. ASSUME NEW c \in Clients, CloseTokens(c) PROVE TypeInv'
  BY <1>4, <1>a DEF CloseTokens
<1>5. ASSUME NEW c \in Clients, RegisterUseToken(c) PROVE TypeInv'
  BY <1>5, <1>a DEF RegisterUseToken, Put, Entry, Job
<1>6. ASSUME NEW c \in Clients, ConsumeUseToken(c) PROVE TypeInv'
  <2>1. CASE Consumable(job[c].token, job[c].bound)
    <3>1. /\ DOMAIN tokens' = DOMAIN tokens
          /\ \A t \in DOMAIN tokens : tokens'[t] \in Entry
      <4>1. tokens' = [tokens EXCEPT ![job[c].token] = [@ EXCEPT !.consumed = TRUE]]
        BY <1>6, <2>1 DEF ConsumeUseToken
      <4> QED
        BY <4>1, EntryUpdates
    <3> QED
      BY <1>6, <2>1, <3>1 DEF ConsumeUseToken
  <2>2. CASE ~Consumable(job[c].token, job[c].bound)
    BY <1>6, <1>a, <2>2 DEF ConsumeUseToken
  <2> QED
    BY <2>1, <2>2
<1>7. ASSUME NEW c \in Clients, IssueFails(c) \/ LoadFails(c) \/ Cancel(c) PROVE TypeInv'
  BY <1>7, <1>a DEF IssueFails, LoadFails, Cancel
<1>8. ASSUME NEW c \in Clients, CreateFile(c) PROVE TypeInv'
  <2>1. PICK f \in Files \ drawn, k \in Kinds :
          /\ disk' = disk \cup {f}
          /\ drawn' = drawn \cup {f}
          /\ job' = [job EXCEPT ![c].file = f, ![c].kind = k]
          /\ grant' = Put(grant, f, [token |-> job[c].token, bound |-> job[c].bound])
    BY <1>8 DEF CreateFile
  <2>2. job' \in [Clients -> Job] /\ job'[c].file = f
    <3>1. job' = [job EXCEPT ![c] = [@ EXCEPT !.file = f, !.kind = k]]
      BY <2>1
    <3>2. k \in {"tmp", "fifo"} /\ job[c] \in Job
      BY EphemeralAssumption
    <3> DEFINE i == [job[c] EXCEPT !.file = f, !.kind = k]
    <3>3. i \in Job /\ i.file = f
      BY <3>2 DEF Job
    <3>4. job' = [job EXCEPT ![c] = i]
      BY <3>1
    <3> HIDE DEF i
    <3> QED
      BY <3>3, <3>4
  <2>3. /\ DOMAIN grant' = DOMAIN grant \cup {f}
        /\ \A g \in DOMAIN grant' : grant'[g].token \in drawn
    BY <1>8, <2>1 DEF CreateFile, Put
  <2>4. \A d \in Clients : d # c => job'[d] = job[d]
    BY <2>1
  <2> QED
    BY <1>8, <2>1, <2>2, <2>3, <2>4 DEF CreateFile
<1>9. ASSUME NEW c \in Clients, AuditFails(c) \/ UnlinkFile(c) \/ AuditOk(c) PROVE TypeInv'
  BY <1>9, <1>a DEF AuditFails, UnlinkFile, AuditOk
<1>10. ASSUME NEW c \in Clients, RegisterTempfile(c) PROVE TypeInv'
  BY <1>10, <1>a, EphemeralAssumption DEF RegisterTempfile, Put
<1>11. ASSUME NEW c \in Clients, UnregisterTempfile(c) \/ CloseTempfiles(c) PROVE TypeInv'
  <2>1. CASE UnregisterTempfile(c)
    BY <2>1, <1>a DEF UnregisterTempfile, Drop
  <2>2. CASE CloseTempfiles(c)
    BY <2>2, <1>a DEF CloseTempfiles
  <2> QED
    BY <1>11, <2>1, <2>2
<1>12. ASSUME NEW f \in Files, WriterOpens(f) \/ WriterDelivers(f) PROVE TypeInv'
  BY <1>12 DEF WriterOpens, WriterDelivers
<1>13. CASE ReapStart
  BY <1>13 DEF ReapStart, Expired
<1>14. CASE ReapUnlink
  BY <1>14 DEF ReapUnlink, Drop
<1>15. CASE SweepStart
  BY <1>15 DEF SweepStart
<1>16. CASE SweepEntry
  BY <1>16 DEF SweepEntry
<1>17. CASE SweepDone
  BY <1>17, EphemeralAssumption DEF SweepDone, Asleep
<1>18. CASE Tick
  <2> USE EphemeralAssumption
  <2>1. /\ DOMAIN tokens' = DOMAIN tokens
        /\ \A t \in DOMAIN tokens : tokens'[t] \in Entry
    BY <1>18, EntryUpdates DEF Tick
  <2>2. /\ job' \in [Clients -> Job]
        /\ \A c \in Clients : job'[c].token = job[c].token /\ job'[c].file = job[c].file
    BY <1>18, JobUpdates DEF Tick
  <2>3. /\ DOMAIN registry' = DOMAIN registry
        /\ \A f \in DOMAIN registry : registry'[f] \in 0..FileTTL
    BY <1>18, LessRange DEF Tick
  <2>4. /\ idle' \in [Files -> Nat]
        /\ reaper' \in [pc : {"sleep", "reap", "sweep"}, left : 0..Interval,
                        todo : SUBSET Files, seen : SUBSET Files]
    BY <1>18 DEF Tick
  <2> QED
    BY <1>18, <2>1, <2>2, <2>3, <2>4 DEF Tick
<1>19. CASE Seal \/ Unseal
  BY <1>19 DEF Seal, Unseal
<1>20. CASE Restart
  <2>1. Asleep \in [pc : {"sleep", "reap", "sweep"}, left : 0..Interval,
                    todo : SUBSET Files, seen : SUBSET Files]
    BY EphemeralAssumption DEF Asleep
  <2>2. DOMAIN tokens' = {} /\ DOMAIN registry' = {}
    BY <1>20 DEF Restart
  <2>3. /\ pc' \in [Clients -> Labels] /\ \A c \in Clients : pc'[c] = "idle"
        /\ job' \in [Clients -> Job]
    BY <1>20, <1>a DEF Restart
  <2>4. /\ writer' \in [Files -> {"none", "spawned", "blocked"}]
        /\ idle' \in [Files -> Nat] /\ unsealed' \in BOOLEAN
    BY <1>20 DEF Restart
  <2>5. reaper' = Asleep /\ UNCHANGED <<disk, drawn, grant, returned, failed>>
    BY <1>20 DEF Restart
  <2> QED
    BY <2>1, <2>2, <2>3, <2>4, <2>5
<1>21. CASE UNCHANGED vars
  BY <1>21 DEF vars
<1> QED
  BY <1>1, <1>2, <1>3, <1>4, <1>5, <1>6, <1>7, <1>8, <1>9, <1>10, <1>11, <1>12, <1>13, <1>14, <1>15,
     <1>16, <1>17, <1>18, <1>19, <1>20, <1>21 DEF Next, Request, Run, Reaper

-----------------------------------------------------------------------------
LEMMA TokenStep == ASSUME TypeInv, TokenInv, [Next]_vars PROVE TokenInv'
<1> USE DEF TypeInv, TypeOK, DrawnInv, JobInv, TokenInv, Spent, Loading, SingleUse,
    At, Goto, Return, mem, history
<1>1. ASSUME NEW c \in Clients, Issue(c) PROVE TokenInv'
  BY <1>1 DEF Issue, NoJob
<1>a. ASSUME NEW c \in Clients, UNCHANGED <<tokens, grant>>, pc'[c] \notin {"issue", "load"},
             \A d \in Clients \ {c} : pc'[d] = pc[d] /\ job'[d] = job[d]
      PROVE  TokenInv'
  BY <1>a
<1>2. ASSUME NEW c \in Clients, Materialize(c) PROVE TokenInv'
  BY <1>2, <1>a DEF Materialize
<1>3. ASSUME NEW c \in Clients, RevokeUnlink(c) PROVE TokenInv'
  BY <1>3, <1>a DEF RevokeUnlink
<1>4. ASSUME NEW c \in Clients, CloseTokens(c) PROVE TokenInv'
  BY <1>4 DEF CloseTokens
<1>5. ASSUME NEW c \in Clients, RegisterUseToken(c) PROVE TokenInv'
  BY <1>5 DEF RegisterUseToken, Put
<1>6. ASSUME NEW c \in Clients, ConsumeUseToken(c) PROVE TokenInv'
  BY <1>6 DEF ConsumeUseToken, Consumable, Entry
<1>7. ASSUME NEW c \in Clients, IssueFails(c) \/ LoadFails(c) \/ Cancel(c) PROVE TokenInv'
  BY <1>7 DEF IssueFails, LoadFails, Cancel
<1>8. ASSUME NEW c \in Clients, CreateFile(c) PROVE TokenInv'
  <2>1. PICK f \in Files \ drawn :
          grant' = Put(grant, f, [token |-> job[c].token, bound |-> job[c].bound])
    BY <1>8 DEF CreateFile
  <2>2. /\ DOMAIN grant' = DOMAIN grant \cup {f} /\ f \notin DOMAIN grant
        /\ grant'[f].token = job[c].token /\ grant'[f].bound = job[c].bound
        /\ \A g \in DOMAIN grant : grant'[g] = grant[g]
    BY <2>1 DEF Put
  <2>3. /\ pc[c] = "load" /\ pc'[c] = "audit" /\ tokens' = tokens
        /\ \A d \in Clients \ {c} : pc'[d] = pc[d] /\ job'[d] = job[d]
    BY <1>8 DEF CreateFile
  <2> QED
    BY <2>2, <2>3
<1>9. ASSUME NEW c \in Clients, AuditFails(c) \/ UnlinkFile(c) \/ AuditOk(c) PROVE TokenInv'
  BY <1>9, <1>a DEF AuditFails, UnlinkFile, AuditOk
<1>10. ASSUME NEW c \in Clients, RegisterTempfile(c) \/ UnregisterTempfile(c) \/ CloseTempfiles(c) PROVE TokenInv'
  BY <1>10, <1>a DEF RegisterTempfile, UnregisterTempfile, CloseTempfiles
<1>11. ASSUME NEW f \in Files, WriterOpens(f) \/ WriterDelivers(f) PROVE TokenInv'
  BY <1>11 DEF WriterOpens, WriterDelivers
<1>12. CASE Reaper
  BY <1>12 DEF Reaper, ReapStart, ReapUnlink, SweepStart, SweepEntry, SweepDone
<1>13. CASE Tick
  <2>1. /\ DOMAIN tokens' = DOMAIN tokens
        /\ \A t \in DOMAIN tokens : tokens'[t].consumed = tokens[t].consumed
    BY <1>13 DEF Tick, Entry
  <2>2. \A c \in Clients : job'[c].token = job[c].token /\ job'[c].bound = job[c].bound
    BY <1>13 DEF Tick, Job
  <2>3. pc' = pc /\ grant' = grant
    BY <1>13 DEF Tick
  <2> QED
    BY <2>1, <2>2, <2>3
<1>14. CASE Seal \/ Unseal
  BY <1>14 DEF Seal, Unseal
<1>15. CASE Restart
  BY <1>15 DEF Restart
<1>16. CASE UNCHANGED vars
  BY <1>16 DEF vars
<1> QED
  BY <1>1, <1>2, <1>3, <1>4, <1>5, <1>6, <1>7, <1>8, <1>9, <1>10, <1>11, <1>12, <1>13, <1>14,
  <1>15, <1>16
     DEF Next, Request, Run

LEMMA TokenInvHolds == Spec => [](TypeInv /\ TokenInv)
<1>1. Init => TokenInv
  BY DEF Init, TokenInv, Spent, Loading, SingleUse
<1>2. TypeInv /\ TokenInv /\ [Next]_vars => TypeInv' /\ TokenInv'
  BY TypeStep, TokenStep
<1> QED
  BY InitTypeInv, <1>1, <1>2, PTL DEF Spec

-----------------------------------------------------------------------------
\* use_token.rs, write_tempfile.rs, write_fifo.rs: for any number of commands
\* that present the same token at the same time, through audit failures, seals,
\* hang-ups and restarts, one token buys at most one file, of its own handle.
THEOREM TokensStaySafe == Spec => []TokensSafe
<1>1. TypeInv /\ TokenInv => TokensSafe
  BY DEF TypeInv, TokenInv, TokensSafe
<1> QED
  BY <1>1, TokenInvHolds, PTL

\* write_tempfile.rs, write_fifo.rs: a command that returned an error has left no
\* plaintext behind, and nothing puts it back later.
THEOREM NothingStaysBehind == Spec => []NothingLeftBehind
<1>1. Init => NothingLeftBehind
  BY DEF Init, NothingLeftBehind
<1>2. TypeInv /\ NothingLeftBehind /\ [Next]_vars => NothingLeftBehind'
  <2> SUFFICES ASSUME TypeInv, NothingLeftBehind, [Next]_vars PROVE NothingLeftBehind'
    OBVIOUS
  <2> USE DEF NothingLeftBehind, mem, history
  <2>1. ASSUME NEW c \in Clients, Request(c) \/ Cancel(c) PROVE NothingLeftBehind'
    BY <2>1 DEF Request, Issue, Materialize, RevokeUnlink, CloseTokens, Cancel
  <2>2. ASSUME NEW c \in Clients, CreateFile(c) PROVE NothingLeftBehind'
    BY <2>2 DEF CreateFile, TypeInv, DrawnInv
  <2>3. ASSUME NEW c \in Clients, Run(c), ~CreateFile(c) PROVE NothingLeftBehind'
    BY <2>3 DEF Run, RegisterUseToken, IssueFails, ConsumeUseToken, LoadFails, AuditFails, UnlinkFile,
       AuditOk, RegisterTempfile, UnregisterTempfile, CloseTempfiles
  <2>4. ASSUME NEW f \in Files, WriterOpens(f) \/ WriterDelivers(f) PROVE NothingLeftBehind'
    BY <2>4 DEF WriterOpens, WriterDelivers
  <2>5. CASE Reaper
    BY <2>5 DEF Reaper, ReapStart, ReapUnlink, SweepStart, SweepEntry, SweepDone
  <2>6. CASE Tick \/ Seal \/ Unseal \/ Restart
    BY <2>6 DEF Tick, Seal, Unseal, Restart
  <2>7. CASE UNCHANGED vars
    BY <2>7 DEF vars
  <2> QED
    BY <2>1, <2>2, <2>3, <2>4, <2>5, <2>6, <2>7 DEF Next
<1> QED
  BY <1>1, <1>2, TokenInvHolds, PTL DEF Spec

-----------------------------------------------------------------------------
\* Retention.

\* How long the reaper has slept since its last pass.
Slept == Interval - reaper.left

\* A path is never drawn again, and a revoke has unlinked its path before it
\* takes it off the registry.
PathInv ==
    /\ disk \subseteq drawn /\ returned \subseteq drawn
    /\ \A f \in Files : f \notin drawn => idle[f] = 0
    /\ \A c \in Clients : pc[c] = "unregister" => job[c].file \notin disk /\ job[c].file \in drawn
    /\ \A f \in Files : InFlight(f) => idle[f] = 0

\* A registered file has not been idle for longer than it has been registered, or
\* it expired since the last pass; any other has been idle since that pass at most.
ClockInv ==
    /\ \A f \in disk \cap DOMAIN registry :
         /\ registry[f] > 0 => idle[f] + registry[f] <= FileTTL
         /\ registry[f] = 0 => idle[f] <= FileTTL + Slept
    /\ \A f \in disk \ DOMAIN registry : idle[f] <= Slept

\* A pass of the reaper forgets nothing that was there when it began.
PassInv ==
    /\ reaper.pc = "reap" => Expired \subseteq reaper.todo
    /\ reaper.pc = "sweep" =>
         /\ Expired = {}
         /\ \A f \in disk : idle[f] > 0 =>
              /\ f \in reaper.todo \/ f \in DOMAIN registry
              /\ f \in reaper.seen => f \in DOMAIN registry

RetentionInv == PathInv /\ ClockInv /\ PassInv

Working == {"audit", "unlink", "register"}

\* A step of c, or of none, that creates no path.
LEMMA PathFrame ==
    ASSUME PathInv, TypeInv, disk' \subseteq disk, returned' \subseteq returned,
           drawn \subseteq drawn', UNCHANGED idle,
           \A c \in Clients :
             /\ pc'[c] \in Working => pc[c] \in Working /\ job'[c].file = job[c].file
             /\ pc'[c] = "unregister" => pc[c] = "unregister" /\ job'[c].file = job[c].file
    PROVE  PathInv'
<1>1. ASSUME NEW f \in Files, InFlight(f)' PROVE InFlight(f)
  BY <1>1 DEF InFlight, Working
<1>2. \A f \in Files : InFlight(f)' => idle'[f] = 0
  BY <1>1 DEF PathInv
<1> QED
  BY <1>2 DEF PathInv, TypeInv, TypeOK

LEMMA PathStep == ASSUME TypeInv, PathInv, [Next]_vars PROVE PathInv'
<1> USE DEF At, Goto, Return, mem, history
<1>0. TypeOK /\ \A c \in Clients : JobInv(c)
  BY DEF TypeInv
<1>1. ASSUME NEW c \in Clients,
             Issue(c) \/ Materialize(c) \/ CloseTokens(c) \/ RegisterUseToken(c) \/ IssueFails(c)
             \/ LoadFails(c) \/ Cancel(c)
      PROVE  PathInv'
  <2>1. UNCHANGED <<disk, returned, idle>> /\ drawn \subseteq drawn'
    BY <1>1 DEF Issue, Materialize, CloseTokens, RegisterUseToken, IssueFails, LoadFails, Cancel
  <2>2. /\ pc'[c] \notin Working \cup {"unregister"}
        /\ \A d \in Clients \ {c} : pc'[d] = pc[d] /\ job'[d] = job[d]
    BY <1>0, <1>1 DEF Issue, Materialize, CloseTokens, RegisterUseToken, IssueFails, LoadFails, Cancel,
       Working, TypeOK
  <2> QED
    BY <2>1, <2>2, PathFrame
<1>2. ASSUME NEW c \in Clients, ConsumeUseToken(c) \/ UnlinkFile(c) \/ AuditFails(c) \/ AuditOk(c)
      PROVE  PathInv'
  <2>1. UNCHANGED <<returned, idle, drawn>> /\ disk' \subseteq disk
    BY <1>2 DEF ConsumeUseToken, UnlinkFile, AuditFails, AuditOk
  <2>2. /\ pc'[c] \in Working => pc[c] \in Working /\ job'[c].file = job[c].file
        /\ pc'[c] # "unregister"
        /\ \A d \in Clients \ {c} : pc'[d] = pc[d] /\ job'[d] = job[d]
    BY <1>0, <1>2 DEF ConsumeUseToken, UnlinkFile, AuditFails, AuditOk, Working, TypeOK
  <2> QED
    BY <2>1, <2>2, PathFrame
<1>3. ASSUME NEW c \in Clients, UnregisterTempfile(c) \/ CloseTempfiles(c) PROVE PathInv'
  <2>1. UNCHANGED <<returned, idle, drawn>> /\ disk' \subseteq disk
    BY <1>3 DEF UnregisterTempfile, CloseTempfiles
  <2>2. /\ pc'[c] = "idle"
        /\ \A d \in Clients \ {c} : pc'[d] = pc[d] /\ job'[d] = job[d]
    BY <1>0, <1>3 DEF UnregisterTempfile, CloseTempfiles, TypeOK
  <2> QED
    BY <2>1, <2>2, PathFrame DEF Working
<1>4. ASSUME NEW c \in Clients, RevokeUnlink(c) PROVE PathInv'
  <2>1. PICK f \in returned : /\ disk' = disk \ {f}
                             /\ job' = [job EXCEPT ![c] = [NoJob EXCEPT !.file = f]]
    BY <1>4 DEF RevokeUnlink
  <2>2. job'[c].file = f
    BY <1>0, <2>1 DEF TypeOK, NoJob
  <2>3. /\ UNCHANGED <<returned, idle, drawn>> /\ pc'[c] = "unregister"
        /\ \A d \in Clients \ {c} : pc'[d] = pc[d] /\ job'[d] = job[d]
    BY <1>0, <1>4 DEF RevokeUnlink, TypeOK
  <2>4. ASSUME NEW g \in Files, InFlight(g)' PROVE InFlight(g)
    BY <2>3, <2>4 DEF InFlight
  <2>5. \A g \in Files : InFlight(g)' => idle'[g] = 0
    BY <2>3, <2>4 DEF PathInv
  <2> QED
    BY <2>1, <2>2, <2>3, <2>5 DEF PathInv
<1>5. ASSUME NEW c \in Clients, CreateFile(c) PROVE PathInv'
  <2>1. PICK f \in Files \ drawn, k \in Kinds :
          /\ disk' = disk \cup {f}
          /\ drawn' = drawn \cup {f}
          /\ job' = [job EXCEPT ![c].file = f, ![c].kind = k]
    BY <1>5 DEF CreateFile
  <2>2. job'[c].file = f
    BY <1>0, <2>1 DEF TypeOK, Job
  <2>3. /\ UNCHANGED <<returned, idle>> /\ pc'[c] = "audit"
        /\ \A d \in Clients \ {c} : pc'[d] = pc[d] /\ job'[d] = job[d]
    BY <1>0, <1>5 DEF CreateFile, TypeOK
  <2>4. ASSUME NEW g \in Files, g # f, InFlight(g)' PROVE InFlight(g)
    BY <2>2, <2>3, <2>4 DEF InFlight
  <2>5. \A g \in Files : InFlight(g)' => idle'[g] = 0
    BY <2>1, <2>3, <2>4 DEF PathInv
  <2>6. ASSUME NEW d \in Clients, pc'[d] = "unregister"
        PROVE  job'[d].file \notin disk' /\ job'[d].file \in drawn'
    <3>1. d # c
      BY <2>3, <2>6
    <3>2. pc[d] = "unregister" /\ job'[d] = job[d]
      BY <2>3, <2>6, <3>1
    <3>3. job[d].file \notin disk /\ job[d].file \in drawn
      BY <1>0, <3>2 DEF PathInv
    <3>4. f \notin drawn /\ disk' = disk \cup {f} /\ drawn' = drawn \cup {f}
      BY <2>1
    <3>5. job[d].file \notin disk' /\ job[d].file \in drawn'
      BY <3>3, <3>4
    <3> QED
      BY <3>2, <3>5
  <2>7. \A g \in Files : g \notin drawn' => idle'[g] = 0
    BY <2>1, <2>3 DEF PathInv
  <2>8. disk' \subseteq drawn' /\ returned' \subseteq drawn'
    BY <2>1, <2>3 DEF PathInv
  <2> QED
    BY <2>5, <2>6, <2>7, <2>8 DEF PathInv
<1>6. ASSUME NEW c \in Clients, RegisterTempfile(c) PROVE PathInv'
  <2>1. /\ UNCHANGED <<idle, drawn, disk>> /\ pc'[c] = "idle" /\ pc[c] = "register"
        /\ returned' = returned \cup {job[c].file}
        /\ \A d \in Clients \ {c} : pc'[d] = pc[d] /\ job'[d] = job[d]
    BY <1>0, <1>6 DEF RegisterTempfile, TypeOK
  <2>2. job[c].file \in drawn
    BY <1>0, <2>1 DEF JobInv
  <2>3. ASSUME NEW g \in Files, InFlight(g)' PROVE InFlight(g)
    BY <2>1, <2>3 DEF InFlight
  <2>4. \A g \in Files : InFlight(g)' => idle'[g] = 0
    BY <2>1, <2>3 DEF PathInv
  <2> QED
    BY <2>1, <2>2, <2>4 DEF PathInv
<1>7. ASSUME NEW f \in Files, WriterOpens(f) \/ WriterDelivers(f) PROVE PathInv'
  BY <1>7, PathFrame DEF WriterOpens, WriterDelivers
<1>8. CASE Reaper
  <2>1. disk' \subseteq disk /\ UNCHANGED <<returned, idle, drawn, pc, job>>
    BY <1>8 DEF Reaper, ReapStart, ReapUnlink, SweepStart, SweepEntry, SweepDone
  <2> QED
    BY <2>1, PathFrame
<1>9. CASE Seal \/ Unseal \/ UNCHANGED vars
  BY <1>9, PathFrame DEF Seal, Unseal, vars
<1>10. CASE Restart
  BY <1>10 DEF Restart, PathInv, InFlight
<1>11. CASE Tick
  <2>1. /\ UNCHANGED <<disk, returned, drawn, pc>>
        /\ \A f \in Files : idle'[f] = IF f \in disk /\ ~InFlight(f) THEN idle[f] + 1 ELSE 0
        /\ \A c \in Clients : job'[c].file = job[c].file
    <3>1. \A c \in Clients : job'[c].file = job[c].file
      BY <1>0, <1>11, JobUpdates DEF Tick, TypeOK
    <3> QED
      BY <1>11, <3>1 DEF Tick
  <2>2. \A f \in Files : InFlight(f)' => InFlight(f)
    BY <2>1 DEF InFlight
  <2> QED
    BY <2>1, <2>2 DEF PathInv
<1> QED
  BY <1>1, <1>2, <1>3, <1>4, <1>5, <1>6, <1>7, <1>8, <1>9, <1>10, <1>11 DEF Next, Request, Run

\* A step that registers nothing and at most removes paths.
LEMMA ClockFrame ==
    ASSUME ClockInv, PassInv, UNCHANGED <<registry, idle, reaper>>, disk' \subseteq disk
    PROVE  ClockInv' /\ PassInv'
<1>1. Expired' = Expired /\ Slept' = Slept
  BY DEF Expired, Slept
<1> QED
  BY <1>1 DEF ClockInv, PassInv

LEMMA ClockStep == ASSUME TypeInv, RetentionInv, [Next]_vars PROVE ClockInv' /\ PassInv'
<1> USE DEF At, Goto, Return, mem, history
<1>0. /\ TypeOK /\ PathInv /\ ClockInv /\ PassInv
      /\ \A c \in Clients : JobInv(c)
  BY DEF TypeInv, RetentionInv
<1>a. /\ FileTTL \in Nat \ {0} /\ Interval \in Nat \ {0}
      /\ reaper.left \in 0..Interval /\ Slept \in Nat /\ Slept <= Interval
      /\ idle \in [Files -> Nat] /\ disk \subseteq Files /\ DOMAIN registry \subseteq Files
      /\ \A f \in DOMAIN registry : registry[f] \in 0..FileTTL
  BY <1>0, EphemeralAssumption DEF TypeOK, Slept
<1>1. ASSUME NEW c \in Clients, Request(c) \/ Cancel(c) PROVE ClockInv' /\ PassInv'
  <2>1. UNCHANGED <<registry, idle, reaper>> /\ disk' \subseteq disk
    BY <1>1 DEF Request, Issue, Materialize, RevokeUnlink, CloseTokens, Cancel
  <2> QED
    BY <1>0, <2>1, ClockFrame
<1>2. ASSUME NEW c \in Clients,
             RegisterUseToken(c) \/ IssueFails(c) \/ ConsumeUseToken(c) \/ LoadFails(c)
             \/ AuditFails(c) \/ UnlinkFile(c) \/ AuditOk(c)
      PROVE  ClockInv' /\ PassInv'
  <2>1. UNCHANGED <<registry, idle, reaper>> /\ disk' \subseteq disk
    BY <1>2 DEF RegisterUseToken, IssueFails, ConsumeUseToken, LoadFails, AuditFails, UnlinkFile,
           AuditOk
  <2> QED
    BY <1>0, <2>1, ClockFrame
<1>3. ASSUME NEW f \in Files, WriterOpens(f) \/ WriterDelivers(f) PROVE ClockInv' /\ PassInv'
  <2>1. UNCHANGED <<registry, idle, reaper>> /\ disk' \subseteq disk
    BY <1>3 DEF WriterOpens, WriterDelivers
  <2> QED
    BY <1>0, <2>1, ClockFrame
<1>4. CASE Seal \/ Unseal \/ UNCHANGED vars
  <2>1. UNCHANGED <<registry, idle, reaper>> /\ disk' \subseteq disk
    BY <1>4 DEF Seal, Unseal, vars
  <2> QED
    BY <1>0, <2>1, ClockFrame
<1>5. ASSUME NEW c \in Clients, CreateFile(c) PROVE ClockInv' /\ PassInv'
  <2>1. PICK f \in Files \ drawn : disk' = disk \cup {f}
    BY <1>5 DEF CreateFile
  <2>2. UNCHANGED <<registry, idle, reaper>> /\ idle[f] = 0
    BY <1>0, <1>5 DEF CreateFile, PathInv
  <2>3. Expired' = Expired /\ Slept' = Slept
    BY <2>2 DEF Expired, Slept
  <2>4. ClockInv'
    BY <1>0, <1>a, <2>1, <2>2, <2>3 DEF ClockInv
  <2>5. PassInv'
    BY <1>0, <1>a, <2>1, <2>2, <2>3 DEF PassInv
  <2> QED
    BY <2>4, <2>5
<1>6. ASSUME NEW c \in Clients, RegisterTempfile(c) PROVE ClockInv' /\ PassInv'
  <2> DEFINE f == job[c].file
  <2>1. /\ UNCHANGED <<idle, reaper, disk>> /\ pc[c] = "register"
        /\ registry' = Put(registry, f, FileTTL)
    BY <1>6 DEF RegisterTempfile
  <2>2. f \in Files /\ idle[f] = 0
    BY <1>0, <2>1 DEF JobInv, PathInv, InFlight
  <2> HIDE DEF f
  <2>3. /\ DOMAIN registry' = DOMAIN registry \cup {f} /\ registry'[f] = FileTTL
        /\ \A g \in DOMAIN registry : g # f => registry'[g] = registry[g]
    BY <2>1 DEF Put
  <2>4. Expired' \subseteq Expired /\ Slept' = Slept
    BY <1>a, <2>1, <2>3 DEF Expired, Slept
  <2>5. ClockInv'
    BY <1>0, <1>a, <2>1, <2>2, <2>3, <2>4 DEF ClockInv
  <2>6. PassInv'
    BY <1>0, <2>1, <2>3, <2>4 DEF PassInv
  <2> QED
    BY <2>5, <2>6
<1>7. ASSUME NEW c \in Clients, UnregisterTempfile(c) PROVE ClockInv' /\ PassInv'
  <2> DEFINE f == job[c].file
  <2>1. /\ UNCHANGED <<idle, reaper, disk>> /\ f \notin disk
        /\ registry' = Drop(registry, {f})
    BY <1>0, <1>7 DEF UnregisterTempfile, PathInv
  <2> HIDE DEF f
  <2>2. /\ DOMAIN registry' = DOMAIN registry \ {f}
        /\ \A g \in DOMAIN registry' : registry'[g] = registry[g]
    BY <2>1 DEF Drop
  <2>3. Expired' \subseteq Expired /\ Slept' = Slept
    BY <2>1, <2>2 DEF Expired, Slept
  <2>4. ClockInv'
    BY <1>0, <2>1, <2>2, <2>3 DEF ClockInv
  <2>5. PassInv'
    BY <1>0, <2>1, <2>2, <2>3 DEF PassInv
  <2> QED
    BY <2>4, <2>5
<1>8. ASSUME NEW c \in Clients, CloseTempfiles(c) PROVE ClockInv' /\ PassInv'
  <2>1. /\ UNCHANGED <<idle, reaper>> /\ disk' = disk \ DOMAIN registry /\ DOMAIN registry' = {}
    BY <1>8 DEF CloseTempfiles
  <2>2. Expired' = {} /\ Slept' = Slept
    BY <2>1 DEF Expired, Slept
  <2>3. ClockInv'
    BY <1>0, <2>1, <2>2 DEF ClockInv
  <2>4. PassInv'
    BY <1>0, <2>1, <2>2 DEF PassInv
  <2> QED
    BY <2>3, <2>4
<1>9. CASE ReapStart
  <2>1. /\ UNCHANGED <<idle, registry, disk>>
        /\ reaper'.pc = "reap" /\ reaper'.todo = Expired /\ reaper'.left = reaper.left
    BY <1>0, <1>9 DEF ReapStart, TypeOK
  <2>2. Expired' = Expired /\ Slept' = Slept
    BY <2>1 DEF Expired, Slept
  <2> QED
    BY <1>0, <2>1, <2>2 DEF ClockInv, PassInv
<1>10. CASE ReapUnlink
  <2>1. PICK f \in reaper.todo :
          /\ disk' = disk \ {f}
          /\ registry' = Drop(registry, {f})
          /\ reaper' = [reaper EXCEPT !.todo = @ \ {f}]
    BY <1>10 DEF ReapUnlink
  <2>2. /\ UNCHANGED idle /\ reaper.pc = "reap"
        /\ reaper'.pc = "reap" /\ reaper'.todo = reaper.todo \ {f} /\ reaper'.left = reaper.left
    BY <1>0, <1>10, <2>1 DEF ReapUnlink, TypeOK
  <2>3. /\ DOMAIN registry' = DOMAIN registry \ {f}
        /\ \A g \in DOMAIN registry' : registry'[g] = registry[g]
    BY <2>1 DEF Drop
  <2>4. Expired' = Expired \ {f} /\ Slept' = Slept
    BY <2>2, <2>3 DEF Expired, Slept
  <2>5. ClockInv'
    BY <1>0, <2>1, <2>2, <2>3, <2>4 DEF ClockInv
  <2>6. PassInv'
    BY <1>0, <2>2, <2>4 DEF PassInv
  <2> QED
    BY <2>5, <2>6
<1>11. CASE SweepStart
  <2>1. /\ UNCHANGED <<idle, registry, disk>> /\ reaper.pc = "reap" /\ reaper.todo = {}
        /\ reaper'.pc = "sweep" /\ reaper'.todo = disk /\ reaper'.seen = DOMAIN registry
        /\ reaper'.left = reaper.left
    BY <1>0, <1>11 DEF SweepStart, TypeOK
  <2>2. Expired' = Expired /\ Slept' = Slept /\ Expired = {}
    BY <1>0, <2>1 DEF Expired, Slept, PassInv
  <2> QED
    BY <1>0, <2>1, <2>2 DEF ClockInv, PassInv
<1>12. CASE SweepEntry
  <2>1. PICK f \in reaper.todo \cup disk :
          /\ disk' = IF f \in reaper.seen THEN disk ELSE disk \ {f}
          /\ reaper' = [reaper EXCEPT !.todo = @ \ {f}]
    BY <1>12 DEF SweepEntry
  <2>2. /\ UNCHANGED <<idle, registry>> /\ reaper.pc = "sweep"
        /\ reaper'.pc = "sweep" /\ reaper'.todo = reaper.todo \ {f} /\ reaper'.left = reaper.left
        /\ reaper'.seen = reaper.seen
    BY <1>0, <1>12, <2>1 DEF SweepEntry, TypeOK
  <2>3. Expired' = Expired /\ Slept' = Slept
    BY <2>2 DEF Expired, Slept
  <2>4. ClockInv'
    BY <1>0, <2>1, <2>2, <2>3 DEF ClockInv
  <2>5. PassInv'
    BY <1>0, <2>1, <2>2, <2>3 DEF PassInv
  <2> QED
    BY <2>4, <2>5
<1>13. CASE SweepDone
  <2>1. /\ UNCHANGED <<idle, registry, disk>> /\ reaper.pc = "sweep" /\ reaper.todo = {}
        /\ reaper'.pc = "sleep" /\ reaper'.left = Interval
    BY <1>13 DEF SweepDone, Asleep
  <2>2. Slept' = 0
    BY <1>a, <2>1 DEF Slept
  <2>3. Expired = {} /\ \A f \in disk : idle[f] > 0 => f \in DOMAIN registry
    BY <1>0, <2>1 DEF PassInv
  <2>4. \A f \in DOMAIN registry : registry[f] > 0
    BY <1>a, <2>3 DEF Expired
  <2>5. ClockInv'
    BY <1>0, <1>a, <2>1, <2>2, <2>3, <2>4 DEF ClockInv
  <2>6. PassInv'
    BY <2>1 DEF PassInv
  <2> QED
    BY <2>5, <2>6
<1>14. CASE Restart
  <2>1. /\ DOMAIN registry' = {} /\ disk' = disk /\ reaper'.pc = "sleep" /\ reaper'.left = Interval
        /\ \A f \in Files : idle'[f] = 0
    BY <1>14 DEF Restart, Asleep
  <2>2. Slept' = 0
    BY <1>a, <2>1 DEF Slept
  <2> QED
    BY <1>a, <2>1, <2>2 DEF ClockInv, PassInv
<1>15. CASE Tick
  <2>1. /\ reaper.pc = "sleep" /\ reaper.left > 0 /\ disk' = disk
        /\ reaper'.pc = "sleep" /\ reaper'.left = reaper.left - 1
    BY <1>0, <1>15 DEF Tick, TypeOK
  <2>2. /\ DOMAIN registry' = DOMAIN registry
        /\ \A f \in DOMAIN registry : registry'[f] = Less(registry[f])
        /\ \A f \in Files : idle'[f] = IF f \in disk /\ ~InFlight(f) THEN idle[f] + 1 ELSE 0
    BY <1>15 DEF Tick
  <2>3. Slept' = Slept + 1
    BY <1>a, <2>1 DEF Slept
  <2>4. \A f \in Files : idle'[f] \in Nat /\ idle'[f] <= idle[f] + 1
    BY <1>a, <2>2
  <2>5. ASSUME NEW f \in disk \cap DOMAIN registry
        PROVE  /\ registry'[f] > 0 => idle'[f] + registry'[f] <= FileTTL
               /\ registry'[f] = 0 => idle'[f] <= FileTTL + Slept'
    <3>1. CASE registry[f] > 0
      <4>1. registry'[f] = registry[f] - 1 /\ idle[f] + registry[f] <= FileTTL
        BY <1>0, <1>a, <2>2, <3>1 DEF Less, ClockInv
      <4> QED
        BY <1>a, <2>3, <2>4, <4>1
    <3>2. CASE registry[f] = 0
      <4>1. registry'[f] = 0 /\ idle[f] <= FileTTL + Slept
        BY <1>0, <1>a, <2>2, <3>2 DEF Less, ClockInv
      <4> QED
        BY <1>a, <2>3, <2>4, <4>1
    <3> QED
      BY <1>a, <3>1, <3>2
  <2>6. ASSUME NEW f \in disk \ DOMAIN registry PROVE idle'[f] <= Slept'
    <3>1. idle[f] <= Slept
      BY <1>0 DEF ClockInv
    <3> QED
      BY <1>a, <2>3, <2>4, <3>1
  <2>7. ClockInv'
    BY <2>1, <2>2, <2>5, <2>6 DEF ClockInv
  <2> QED
    BY <2>1, <2>7 DEF PassInv
<1> QED
  BY <1>1, <1>2, <1>3, <1>4, <1>5, <1>6, <1>7, <1>8, <1>9, <1>10, <1>11, <1>12, <1>13, <1>14, <1>15
     DEF Next, Run, Reaper

\* background.rs tempfile_reaper_task: for any lifetimes and any reaper period, a
\* file that was cancelled before it was registered, outlived a crash, or simply
\* expired is off the disk after at most one lifetime and one period of uptime.
THEOREM RetentionIsBounded == Spec => []RetentionBound
<1>1. Init => RetentionInv
  <2> SUFFICES ASSUME Init PROVE RetentionInv
    OBVIOUS
  <2>1. disk = {} /\ returned = {} /\ reaper.pc = "sleep" /\ \A f \in Files : idle[f] = 0
    BY DEF Init, Asleep
  <2>2. \A c \in Clients : pc[c] = "idle"
    BY DEF Init
  <2> QED
    BY <2>1, <2>2 DEF RetentionInv, PathInv, ClockInv, PassInv
<1>2. TypeInv /\ RetentionInv /\ [Next]_vars => RetentionInv'
  BY PathStep, ClockStep DEF RetentionInv
<1>3. TypeInv /\ RetentionInv => RetentionBound
  <2> SUFFICES ASSUME TypeInv, RetentionInv, NEW f \in disk PROVE idle[f] <= FileTTL + Interval
    BY DEF RetentionBound
  <2>1. /\ FileTTL \in Nat /\ Interval \in Nat /\ idle[f] \in Nat
        /\ Slept \in Nat /\ Slept <= Interval
        /\ f \in DOMAIN registry => registry[f] \in Nat
    BY EphemeralAssumption DEF TypeInv, TypeOK, Slept
  <2>2. CASE f \in DOMAIN registry
    <3>1. /\ registry[f] > 0 => idle[f] + registry[f] <= FileTTL
          /\ registry[f] = 0 => idle[f] <= FileTTL + Slept
      BY <2>2 DEF RetentionInv, ClockInv
    <3> QED
      BY <2>1, <2>2, <3>1
  <2>3. CASE f \notin DOMAIN registry
    <3>1. idle[f] <= Slept
      BY <2>3 DEF RetentionInv, ClockInv
    <3> QED
      BY <2>1, <3>1
  <2> QED
    BY <2>2, <2>3
<1> QED
  BY <1>1, <1>2, <1>3, TokenInvHolds, PTL DEF Spec
=============================================================================
