------------------------ MODULE VaultLifecycle_proofs ------------------------
(***************************************************************************)
(* Proofs about VaultLifecycle for any set of clients, any assignment of   *)
(* commands to them and any number of commands.                            *)
(***************************************************************************)
EXTENDS VaultLifecycle, TLAPS

LEMMA GotoType ==
    ASSUME NEW c \in Clients, NEW l \in Labels, pc \in [Clients -> Labels],
           Goto(c, l)
    PROVE  pc' \in [Clients -> Labels]
BY DEF Goto

LEMMA PendingType ==
    ASSUME TypeOK, NEW c \in Clients, snap[c].seq + 1 \in Nat
    PROVE  Pending(c) \in Entries
BY DEF TypeOK, Pending, Entries, Heads

-----------------------------------------------------------------------------
(* Type correctness.  Rows are numbered by naturals only because no head    *)
(* lies before the empty log, so that fact travels with TypeOK.             *)

HeadsBound ==
    /\ auditLog.seq >= -1 /\ pinnedHead.seq >= -1
    /\ \A c \in Clients : snap[c].seq >= -1

TypeInv == TypeOK /\ HeadsBound

LEMMA TypeInit == Init => TypeInv
<1> SUFFICES ASSUME Init PROVE TypeInv
    OBVIOUS
<1> USE LifecycleAssumption DEF Init, EmptyHead, GenesisEntry, HeadOf, Heads
<1>1. EmptyHead \in Heads /\ HeadOf(GenesisEntry) \in Heads
    OBVIOUS
<1>2. GenesisEntry \in Entries
    BY DEF Entries
<1>3. entries \subseteq Entries
    BY <1>2
<1>4. /\ pinnedHead \in Heads /\ pinnedHead.seq >= -1
      /\ auditLog \in Heads /\ auditLog.seq >= -1
    BY <1>1
<1>5. snap \in [Clients -> Heads] /\ \A c \in Clients : snap[c].seq >= -1
    BY <1>1
<1>6. /\ pc \in [Clients -> Labels] /\ op \in [Clients -> Commands]
      /\ cmd \in [Clients -> Nat]
    BY DEF Labels, Commands
<1> QED
    BY <1>1, <1>3, <1>4, <1>5, <1>6 DEF TypeInv, TypeOK, HeadsBound

\* What a handler leaves behind of its locals is well typed.
LEMMA LocalsType ==
    ASSUME TypeInv, NEW c \in Clients, NEW l, Locals(c, l)
    PROVE  /\ op' \in [Clients -> Commands] /\ cmd' \in [Clients -> Nat]
           /\ snap' \in [Clients -> Heads] /\ \A d \in Clients : snap'[d].seq >= -1
<1> USE DEF TypeInv, TypeOK, HeadsBound, Locals
<1>1. EmptyHead \in Heads /\ EmptyHead.seq = -1
    BY DEF EmptyHead, Heads
<1>2. op' \in [Clients -> Commands] /\ cmd' \in [Clients -> Nat]
    BY DEF Commands
<1>3. snap' \in [Clients -> Heads]
    BY <1>1
<1>4. ASSUME NEW d \in Clients PROVE snap'[d].seq >= -1
    <2>1. snap'[d] = snap[d] \/ snap'[d] = EmptyHead
        OBVIOUS
    <2> QED
        BY <1>1, <2>1
<1> QED
    BY <1>2, <1>3, <1>4

LEMMA TypeNext == TypeInv /\ [Next]_vars => TypeInv'
<1> SUFFICES ASSUME TypeInv, [Next]_vars PROVE TypeInv'
    OBVIOUS
<1> USE LifecycleAssumption DEF TypeInv, TypeOK, HeadsBound, Heads, Commands, Labels,
       Locals, EmptyHead, cuts
<1>1. ASSUME NEW c \in Clients, Arrive(c) PROVE TypeInv'
    <2>1. CASE UnsealBegin(c)
        BY <2>1 DEF UnsealBegin, Receive, Goto, disk
    <2>2. CASE RequireUnsealed(c)
        BY <2>2 DEF RequireUnsealed, Receive, Goto, mem, disk
    <2>3. CASE SealCheck(c)
        BY <2>3 DEF SealCheck, Receive, Goto, mem, disk
    <2> QED
        BY <1>1, <2>1, <2>2, <2>3 DEF Arrive
<1>2. ASSUME NEW c \in Clients, Unseal(c) PROVE TypeInv'
    <2>1. CASE FetchOk(c)
        BY <2>1 DEF FetchOk, Local, Goto, At, mem, disk
    <2>2. CASE FetchFails(c)
        BY <2>2 DEF FetchFails, Local, Goto, At, mem, disk
    <2>3. CASE PublishKey(c)
        BY <2>3 DEF PublishKey, Local, Goto, At, mem, disk
    <2>4. CASE CompleteUnseal(c)
        BY <2>4 DEF CompleteUnseal, Local, Goto, At, mem, disk
    <2>5. CASE RollbackState(c)
        BY <2>5 DEF RollbackState, Local, Goto, At, mem, disk
    <2>6. CASE RollbackKey(c)
        <3>1. Locals(c, "idle")
            BY <2>6 DEF RollbackKey, Local
        <3> HIDE DEF Locals
        <3> QED
            BY <2>6, <3>1, LocalsType DEF RollbackKey, Local, Goto, At, mem, disk
    <2> QED
        BY <1>2, <2>1, <2>2, <2>3, <2>4, <2>5, <2>6 DEF Unseal
<1>3. ASSUME NEW c \in Clients, AuditCommit(c) PROVE TypeInv'
    <2>1. CASE RequireHmacKey(c)
        BY <2>1 DEF RequireHmacKey, Local, Goto, At, mem, disk
    <2>2. CASE AppendEntry(c)
        BY <2>2 DEF AppendEntry, Goto, At, disk
    <2>3. CASE CommitEntry(c)
        <3>1. Pending(c) \in Entries
            BY PendingType
        <3>2. entries' \subseteq Entries /\ pinnedHead' \in Heads /\ pinnedHead'.seq >= -1
            BY <2>3, <3>1 DEF CommitEntry, Store, HeadOf, Entries
        <3>3. AfterAudit(op[c], TRUE) \in Labels
            BY DEF AfterAudit
        <3>4. acked' \subseteq Nat
            BY <2>3 DEF CommitEntry
        <3>5. Locals(c, AfterAudit(op[c], TRUE))
            BY <2>3 DEF CommitEntry
        <3> HIDE DEF Locals
        <3> QED
            BY <2>3, <3>2, <3>3, <3>4, <3>5, LocalsType DEF CommitEntry, Store, Goto
    <2>4. CASE RejectEntry(c)
        <3>1. AfterAudit(op[c], FALSE) \in Labels
            BY DEF AfterAudit
        <3>2. Locals(c, AfterAudit(op[c], FALSE))
            BY <2>4 DEF RejectEntry, Local
        <3> HIDE DEF Locals
        <3> QED
            BY <2>4, <3>1, <3>2, LocalsType DEF RejectEntry, Local, Goto, At, disk
    <2> QED
        BY <1>3, <2>1, <2>2, <2>3, <2>4 DEF AuditCommit
<1>4. ASSUME NEW c \in Clients, Seal(c) PROVE TypeInv'
    <2>1. CASE SealReadKey(c)
        BY <2>1 DEF SealReadKey, Local, Goto, At, mem, disk
    <2>2. CASE SealTakeKey(c)
        BY <2>2 DEF SealTakeKey, Local, Goto, At, mem, disk
    <2>3. CASE SealReadHead(c)
        BY <2>3 DEF SealReadHead, Local, Goto, At, mem, disk
    <2>4. CASE SealReadHeadFails(c)
        BY <2>4 DEF SealReadHeadFails, Local, Goto, At, mem, disk
    <2>5. CASE SealRestoreLog(c)
        BY <2>5 DEF SealRestoreLog, Local, Goto, At, mem, disk
    <2>6. CASE SealFlip(c)
        BY <2>6 DEF SealFlip, Local, Goto, At, mem, disk
    <2> QED
        BY <1>4, <2>1, <2>2, <2>3, <2>4, <2>5, <2>6 DEF Seal
<1>5. ASSUME NEW c \in Clients, Rebaseline(c) PROVE TypeInv'
    <2>1. CASE BaselineReadHead(c)
        BY <2>1 DEF BaselineReadHead, Local, Goto, At, mem, disk
    <2>2. CASE SetBaseline(c)
        <3>1. Locals(c, "idle")
            BY <2>2 DEF SetBaseline
        <3> HIDE DEF Locals
        <3> QED
            BY <2>2, <3>1, LocalsType DEF SetBaseline, Local, Goto, At, mem, disk
    <2>3. CASE BaselineFails(c)
        BY <2>3 DEF BaselineFails, Local, Goto, At, mem, disk
    <2> QED
        BY <1>5, <2>1, <2>2, <2>3 DEF Rebaseline
<1>6. ASSUME NEW c \in Clients, Cancel(c) PROVE TypeInv'
    <2>1. Pending(c) \in Entries
        BY PendingType
    <2>2. /\ entries' \subseteq Entries /\ baseline' = baseline
          /\ pinnedHead' \in Heads /\ pinnedHead'.seq >= -1
        BY <1>6, <2>1 DEF Cancel, Store, HeadOf, Entries, disk
    <2> QED
        BY <1>6, <2>2 DEF Cancel, Local, Goto
<1>7. CASE Restart
    <2>1. EmptyHead \in Heads /\ EmptyHead.seq >= -1
        BY DEF EmptyHead
    <2>2. snap' \in [Clients -> Heads] /\ \A c \in Clients : snap'[c].seq >= -1
        BY <1>7, <2>1 DEF Restart
    <2> QED
        BY <1>7, <2>2 DEF Restart, disk
<1>8. CASE UNCHANGED vars
    BY <1>8 DEF vars, mem, disk, task, cuts
<1> QED
    BY <1>1, <1>2, <1>3, <1>4, <1>5, <1>6, <1>7, <1>8
       DEF Next, Run, Finished

\* Every reachable state is well typed, whatever faults are injected.
THEOREM TypeCorrect == Spec => []TypeOK
<1>1. Spec => []TypeInv
    BY TypeInit, TypeNext, PTL DEF Spec
<1>2. TypeInv => TypeOK
    BY DEF TypeInv
<1> QED
    BY <1>1, <1>2, PTL

-----------------------------------------------------------------------------
(* Acknowledged commands are durable, whatever faults are injected.  Only   *)
(* Rebaseline acknowledges later than it commits, so the strengthening says *)
(* that its marker row is there while it still has steps to take.           *)

Recorded(n) == \E e \in entries : e.hash = n

AckInv ==
    /\ AckedDurable
    /\ \A c \in Clients : pc[c] \in {"base_read", "base_set"} => Recorded(cmd[c])

LEMMA RowsKept ==
    ASSUME [Next]_vars PROVE entries \subseteq entries'
<1> USE DEF mem, disk
<1>1. ASSUME NEW c \in Clients, Arrive(c) PROVE entries' = entries
    BY <1>1 DEF Arrive, UnsealBegin, RequireUnsealed, SealCheck
<1>2. ASSUME NEW c \in Clients, Unseal(c) PROVE entries' = entries
    BY <1>2 DEF Unseal, FetchOk, FetchFails, PublishKey, CompleteUnseal,
                RollbackState, RollbackKey
<1>3. ASSUME NEW c \in Clients, AuditCommit(c) PROVE entries \subseteq entries'
    BY <1>3 DEF AuditCommit, RequireHmacKey, AppendEntry, CommitEntry, Store,
                RejectEntry
<1>4. ASSUME NEW c \in Clients, Seal(c) PROVE entries' = entries
    BY <1>4 DEF Seal, SealReadKey, SealTakeKey, SealReadHead, SealReadHeadFails,
                SealRestoreLog, SealFlip
<1>5. ASSUME NEW c \in Clients, Rebaseline(c) PROVE entries' = entries
    BY <1>5 DEF Rebaseline, BaselineReadHead, SetBaseline, BaselineFails
<1>6. ASSUME NEW c \in Clients, Cancel(c) PROVE entries \subseteq entries'
    BY <1>6 DEF Cancel, Store
<1>7. CASE Restart
    BY <1>7 DEF Restart
<1>8. CASE UNCHANGED vars
    BY <1>8 DEF vars
<1> QED
    BY <1>1, <1>2, <1>3, <1>4, <1>5, <1>6, <1>7, <1>8 DEF Next, Run, Finished

LEMMA AckNext == TypeInv /\ AckInv /\ [Next]_vars => AckInv'
<1> SUFFICES ASSUME TypeInv, AckInv, [Next]_vars PROVE AckInv'
    OBVIOUS
<1> DEFINE Late(c) == pc[c] \in {"base_read", "base_set"}
<1> USE DEF TypeInv, TypeOK, AckInv, AckedDurable, Recorded, Locals
<1>0. \A n : Recorded(n) => Recorded(n)'
    BY RowsKept
<1>a. ASSUME acked' = acked, \A c \in Clients : Late(c)' => Late(c) /\ cmd'[c] = cmd[c]
      PROVE  AckInv'
    BY <1>0, <1>a
<1>1. ASSUME NEW c \in Clients, Arrive(c) PROVE AckInv'
    BY <1>1, <1>a DEF Arrive, UnsealBegin, RequireUnsealed, SealCheck, Receive,
                At, Goto
<1>2. ASSUME NEW c \in Clients, Unseal(c) PROVE AckInv'
    BY <1>2, <1>a DEF Unseal, FetchOk, FetchFails, PublishKey, CompleteUnseal,
                RollbackState, RollbackKey, Local, Goto
<1>3. ASSUME NEW c \in Clients, AuditCommit(c) PROVE AckInv'
    <2>1. CASE RequireHmacKey(c)
        BY <2>1, <1>a DEF RequireHmacKey, Local, Goto
    <2>2. CASE AppendEntry(c)
        BY <2>2, <1>a DEF AppendEntry, Goto
    <2>3. CASE CommitEntry(c)
        <3>1. \E e \in entries' : e.hash = cmd[c]
            BY <2>3 DEF CommitEntry, Store, Pending
        <3>2. AckedDurable'
            BY <2>3, <3>1, RowsKept DEF CommitEntry
        <3>3. \A d \in Clients : Late(d)' => (Late(d) \/ d = c) /\ cmd'[d] = cmd[d]
            BY <2>3 DEF CommitEntry, Goto
        <3>4. \A d \in Clients : Late(d)' => Recorded(cmd[d])'
            BY <3>1, <3>3, <1>0
        <3> QED
            BY <3>2, <3>4
    <2>4. CASE RejectEntry(c)
        BY <2>4, <1>a DEF RejectEntry, Local, Goto, AfterAudit
    <2> QED
        BY <1>3, <2>1, <2>2, <2>3, <2>4 DEF AuditCommit
<1>4. ASSUME NEW c \in Clients, Seal(c) PROVE AckInv'
    BY <1>4, <1>a DEF Seal, SealReadKey, SealTakeKey, SealReadHead,
                SealReadHeadFails, SealRestoreLog, SealFlip, Local, Goto
<1>5. ASSUME NEW c \in Clients, Rebaseline(c) PROVE AckInv'
    <2>1. CASE BaselineReadHead(c)
        BY <2>1, <1>a DEF BaselineReadHead, At, Goto
    <2>2. CASE SetBaseline(c)
        <3>1. \E e \in entries' : e.hash = cmd[c]
            BY <2>2, RowsKept DEF SetBaseline, At
        <3>2. AckedDurable'
            BY <2>2, <3>1, RowsKept DEF SetBaseline
        <3>3. \A d \in Clients : Late(d)' => Late(d) /\ cmd'[d] = cmd[d]
            BY <2>2 DEF SetBaseline, Goto
        <3> QED
            BY <3>2, <3>3, <1>0
    <2>3. CASE BaselineFails(c)
        BY <2>3, <1>a DEF BaselineFails, Local, Goto
    <2> QED
        BY <1>5, <2>1, <2>2, <2>3 DEF Rebaseline
<1>6. ASSUME NEW c \in Clients, Cancel(c) PROVE AckInv'
    BY <1>6, <1>a DEF Cancel, Local, Goto
<1>7. CASE Restart
    BY <1>7, <1>a DEF Restart
<1>8. CASE UNCHANGED vars
    BY <1>8, <1>a DEF vars, task
<1> QED
    BY <1>1, <1>2, <1>3, <1>4, <1>5, <1>6, <1>7, <1>8 DEF Next, Run, Finished

\* A command that answered Ok has its row in the durable chain for ever, even
\* when clients hang up mid-commit and the agent is killed.
THEOREM AckedIsDurable == Spec => []AckedDurable
<1>1. Init => AckInv
    BY DEF Init, AckInv, AckedDurable, At
<1>2. AckInv => AckedDurable
    BY DEF AckInv
<1> QED
    BY <1>1, <1>2, TypeInit, TypeNext, AckNext, PTL DEF Spec

-----------------------------------------------------------------------------
(* The durable chain: rows link to rows, or to a head whose insert was cut. *)
(*                                                                          *)
(* ChainIntact alone is not inductive: a commit keeps it only if the head   *)
(* the writer started from is a tail (a row or a cut insert) and, while     *)
(* nothing was cut, no row lies above it.  The first comes from the         *)
(* audit_log guard (GuardInv, HeadsOnChain), the second from UNIQUE(seq)    *)
(* together with the absence of gaps (NoGap).                               *)

OnTail(h) == OnChain(h) \/ h \in torn

NoGap == \A h \in Tails : h.seq \in Nat /\ \A k \in 0..h.seq : \E g \in Tails : g.seq = k

GuardInv ==
    /\ \A c \in Clients : pc[c] = "persist" <=> logGuard = c
    /\ \A c \in Clients : pc[c] = "persist" =>
           OnTail(snap[c]) /\ auditLog = HeadOf(Pending(c))

HeadsOnChain ==
    /\ DurableTail
    /\ BaselineOnChain
    /\ \A c \in Clients : pc[c] \in {"seal_restore", "base_set"} => OnChain(snap[c])

RowsInv == ChainIntact /\ NoGap
ChainInv == RowsInv /\ GuardInv /\ HeadsOnChain

LEMMA ChainInit == Init => ChainInv
<1> SUFFICES ASSUME Init PROVE ChainInv
    OBVIOUS
<1> USE LifecycleAssumption DEF Init, EmptyHead, GenesisEntry, HeadOf, OnChain
<1>1. OnChain(pinnedHead) /\ OnChain(baseline) /\ OnChain(auditLog)
    OBVIOUS
<1>2. SeqUnique /\ Linked /\ \A e \in entries : e.seq <= pinnedHead.seq
    BY DEF SeqUnique, Linked
<1>3. \A h \in Tails : h = HeadOf(GenesisEntry) /\ h.seq = 0
    BY DEF Tails
<1>4. NoGap
    BY <1>3 DEF NoGap
<1> QED
    BY <1>1, <1>2, <1>4 DEF ChainInv, RowsInv, ChainIntact, PinnedIsTip, GuardInv,
       HeadsOnChain, DurableTail, BaselineOnChain

\* A position on the chain stays there: rows are only ever added.
LEMMA OnChainKept ==
    ASSUME [Next]_vars, NEW h, OnChain(h) PROVE OnChain(h)'
BY RowsKept DEF OnChain, EmptyHead, HeadOf

\* The chain depends on the tables and on what was cut only.
LEMMA RowsFrame ==
    ASSUME RowsInv, UNCHANGED <<entries, pinnedHead, torn>>
    PROVE  RowsInv'
BY DEF RowsInv, ChainIntact, SeqUnique, Linked, PinnedIsTip, OnChain, NoGap, Tails, HeadOf

\* One tail more, directly above a tail or at the start, leaves no gap.
LEMMA NoGapGrows ==
    ASSUME NoGap, NEW h, h.seq \in Nat, Tails' = Tails \cup {h},
           h.seq = 0 \/ \E t \in Tails : t.seq = h.seq - 1
    PROVE  NoGap'
<1> SUFFICES ASSUME NEW g \in Tails'
             PROVE  g.seq \in Nat /\ \A k \in 0..g.seq : \E f \in Tails' : f.seq = k
    BY DEF NoGap
<1>1. CASE g \in Tails
    BY <1>1 DEF NoGap
<1>2. CASE g = h
    <2> SUFFICES ASSUME NEW k \in 0..h.seq PROVE \E f \in Tails' : f.seq = k
        BY <1>2
    <2>1. CASE k = h.seq
        BY <2>1
    <2>2. CASE k # h.seq
        <3>1. PICK t \in Tails : t.seq = h.seq - 1
            BY <2>2
        <3>2. k \in 0..t.seq
            BY <2>2, <3>1
        <3> QED
            BY <3>1, <3>2 DEF NoGap
    <2> QED
        BY <2>1, <2>2
<1> QED
    BY <1>1, <1>2

\* What the entry a client is about to insert looks like.
LEMMA PendingShape ==
    ASSUME TypeInv, NoGap, NEW c \in Clients, OnTail(snap[c])
    PROVE  /\ Pending(c) \in Entries /\ Pending(c).seq \in Nat
           /\ HeadOf(Pending(c)).seq = Pending(c).seq
           /\ HeadOf(Pending(c)).hash = Pending(c).hash
           /\ \/ Pending(c).seq = 0 /\ Pending(c).prev = EmptyHead.hash
              \/ /\ Pending(c).seq > 0
                 /\ \E h \in Tails : h.seq = Pending(c).seq - 1 /\ h.hash = Pending(c).prev
<1> USE DEF TypeInv, TypeOK, HeadsBound
<1>1. /\ Pending(c) \in Entries /\ Pending(c).seq = snap[c].seq + 1
      /\ Pending(c).prev = snap[c].hash
      /\ Pending(c).seq \in Nat /\ snap[c].seq \in Int
    BY PendingType DEF Pending, Heads
<1>2. snap[c] = EmptyHead \/ snap[c] \in Tails
    BY DEF OnTail, OnChain, Tails
<1>3. CASE snap[c] = EmptyHead
    BY <1>1, <1>3 DEF EmptyHead, HeadOf
<1>4. CASE snap[c] \in Tails
    <2>1. snap[c].seq \in Nat
        BY <1>4 DEF NoGap
    <2> QED
        BY <1>1, <1>4, <2>1 DEF HeadOf
<1> QED
    BY <1>2, <1>3, <1>4

\* What a successful commit_audit_entry does to the chain.
LEMMA StoreKeepsChain ==
    ASSUME TypeInv, RowsInv, NEW c \in Clients,
           OnTail(snap[c]), Store(c), torn' = torn
    PROVE  RowsInv' /\ pinnedHead' = HeadOf(Pending(c)) /\ OnChain(pinnedHead)'
<1> DEFINE p == Pending(c)
<1> USE DEF TypeInv, TypeOK, HeadsBound
<1>1. /\ p \in Entries /\ p.seq \in Nat
      /\ HeadOf(p).seq = p.seq /\ HeadOf(p).hash = p.hash
      /\ \/ p.seq = 0 /\ p.prev = EmptyHead.hash
         \/ p.seq > 0 /\ \E h \in Tails : h.seq = p.seq - 1 /\ h.hash = p.prev
    BY PendingShape DEF RowsInv
<1>2. \A e \in entries : e.seq \in Nat
    BY DEF Entries
<1>3. entries' = entries \cup {p} /\ \A e \in entries : e.seq # p.seq
    BY DEF Store, Collides
<1>4. Tails' = Tails \cup {HeadOf(p)}
    BY <1>3 DEF Tails, HeadOf
<1>5. SeqUnique'
    BY <1>3 DEF RowsInv, ChainIntact, SeqUnique
<1>6. Linked'
    <2> SUFFICES ASSUME NEW e \in entries'
                 PROVE  IF e.seq = 0 THEN e.prev = EmptyHead.hash
                        ELSE \E h \in Tails' : h.seq = e.seq - 1 /\ h.hash = e.prev
        BY DEF Linked, EmptyHead
    <2>1. CASE e \in entries
        BY <2>1, <1>4 DEF RowsInv, ChainIntact, Linked
    <2>2. CASE e = p
        BY <2>2, <1>1, <1>4
    <2> QED
        BY <2>1, <2>2, <1>3
<1>7. HeadOf(p) = pinnedHead'
    BY DEF Store
<1>8. OnChain(pinnedHead)'
    BY <1>3, <1>7 DEF OnChain, HeadOf, EmptyHead
<1>9. ASSUME torn' = {} PROVE \A e \in entries' : e.seq <= pinnedHead'.seq
    <2>1. \A h \in Tails : \E e \in entries : e.seq = h.seq
        BY <1>9 DEF Tails, HeadOf
    <2>2. ASSUME NEW e \in entries, ~(e.seq < p.seq) PROVE FALSE
        <3>1. HeadOf(e) \in Tails /\ HeadOf(e).seq = e.seq
            BY DEF Tails, HeadOf
        <3>2. p.seq \in 0..e.seq
            BY <1>1, <1>2, <2>2
        <3>3. PICK g \in Tails : g.seq = p.seq
            BY <3>1, <3>2 DEF RowsInv, NoGap
        <3> QED
            BY <3>3, <2>1, <1>3
    <2> QED
        BY <2>2, <1>1, <1>2, <1>3, <1>7
<1>10. NoGap'
    BY <1>1, <1>4, NoGapGrows DEF RowsInv
<1> QED
    BY <1>5, <1>6, <1>7, <1>8, <1>9, <1>10 DEF RowsInv, ChainIntact, PinnedIsTip

\* What an insert does to the chain whose client hung up before it committed.
LEMMA CutKeepsChain ==
    ASSUME TypeInv, RowsInv, NEW c \in Clients, OnTail(snap[c]),
           torn' = torn \cup {HeadOf(Pending(c))}, UNCHANGED <<entries, pinnedHead>>
    PROVE  RowsInv'
<1> DEFINE h == HeadOf(Pending(c))
<1>1. h.seq \in Nat /\ (h.seq = 0 \/ \E t \in Tails : t.seq = h.seq - 1)
    BY PendingShape DEF RowsInv
<1>2. Tails' = Tails \cup {h}
    BY DEF Tails, HeadOf
<1>3. NoGap'
    BY <1>1, <1>2, NoGapGrows DEF RowsInv
<1>4. SeqUnique' /\ Linked'
    BY <1>2 DEF RowsInv, ChainIntact, SeqUnique, Linked, EmptyHead
<1>5. PinnedIsTip'
    BY DEF RowsInv, ChainIntact, PinnedIsTip, OnChain, EmptyHead, HeadOf
<1> QED
    BY <1>3, <1>4, <1>5 DEF RowsInv, ChainIntact

LEMMA ChainNext ==
    ASSUME TypeInv, ChainInv, [Next]_vars
    PROVE  ChainInv'
<1> USE LifecycleAssumption DEF TypeInv, TypeOK, At, Goto, Local, Locals, cuts
<1>0. \A h : OnChain(h) => OnChain(h)'
    BY OnChainKept
\* A step that leaves the tables, the in-memory head and the guard alone and
\* moves one client only needs that client's local copy to be on the chain.
<1>a. ASSUME UNCHANGED <<entries, pinnedHead, auditLog, logGuard, torn>>, OnChain(baseline'),
             NEW c \in Clients,
             \A d \in Clients \ {c} :
                pc'[d] = pc[d] /\ snap'[d] = snap[d] /\ cmd'[d] = cmd[d] /\ op'[d] = op[d],
             pc[c] # "persist", pc'[c] # "persist",
             pc'[c] \in {"seal_restore", "base_set"} => OnChain(snap'[c])
      PROVE  ChainInv'
    <2>1. RowsInv'
        BY <1>a, RowsFrame DEF ChainInv
    <2>2. GuardInv'
        BY <1>a DEF ChainInv, GuardInv, OnTail, OnChain, Pending, HeadOf
    <2>3. HeadsOnChain'
        BY <1>a DEF ChainInv, HeadsOnChain, DurableTail, BaselineOnChain, OnChain
    <2> QED
        BY <2>1, <2>2, <2>3 DEF ChainInv
<1>b. OnChain(baseline) /\ OnChain(pinnedHead)
    BY DEF ChainInv, HeadsOnChain, BaselineOnChain, RowsInv, ChainIntact, PinnedIsTip
<1>1. ASSUME NEW c \in Clients, Arrive(c) PROVE ChainInv'
    <2>1. CASE UnsealBegin(c)
        BY <2>1, <1>a, <1>b DEF UnsealBegin, Receive, disk
    <2>2. CASE RequireUnsealed(c)
        BY <2>2, <1>a, <1>b DEF RequireUnsealed, Receive, mem, disk
    <2>3. CASE SealCheck(c)
        BY <2>3, <1>a, <1>b DEF SealCheck, Receive, mem, disk
    <2> QED
        BY <1>1, <2>1, <2>2, <2>3 DEF Arrive
<1>2. ASSUME NEW c \in Clients, Unseal(c) PROVE ChainInv'
    <2>1. CASE FetchOk(c) \/ FetchFails(c)
        BY <2>1, <1>a, <1>b DEF FetchOk, FetchFails, mem, disk
    <2>2. CASE PublishKey(c) \/ CompleteUnseal(c)
        BY <2>2, <1>a, <1>b DEF PublishKey, CompleteUnseal, disk
    <2>3. CASE RollbackState(c) \/ RollbackKey(c)
        BY <2>3, <1>a, <1>b DEF RollbackState, RollbackKey, disk
    <2> QED
        BY <1>2, <2>1, <2>2, <2>3 DEF Unseal
<1>3. ASSUME NEW c \in Clients, AuditCommit(c) PROVE ChainInv'
    <2>1. CASE RequireHmacKey(c)
        BY <2>1, <1>a, <1>b DEF RequireHmacKey, mem, disk
    <2>2. CASE AppendEntry(c)
        <3>1. OnTail(auditLog)
            BY <2>2 DEF AppendEntry, ChainInv, HeadsOnChain, DurableTail, OnTail
        <3>2. GuardInv'
            <4>1. \A d \in Clients : pc[d] # "persist"
                BY <2>2 DEF AppendEntry, ChainInv, GuardInv
            <4>2. pc'[c] = "persist" /\ \A d \in Clients \ {c} : pc'[d] # "persist"
                BY <2>2, <4>1 DEF AppendEntry
            <4>3. OnTail(snap[c])'
                BY <2>2, <3>1 DEF AppendEntry, OnTail, OnChain, disk
            <4>4. auditLog' = HeadOf(Pending(c))'
                BY <2>2 DEF AppendEntry, Pending, HeadOf
            <4> QED
                BY <2>2, <4>2, <4>3, <4>4 DEF AppendEntry, GuardInv
        <3>3. RowsInv'
            BY <2>2, RowsFrame DEF AppendEntry, disk, ChainInv
        <3>4. HeadsOnChain'
            BY <2>2 DEF AppendEntry, disk, ChainInv, HeadsOnChain, DurableTail,
                        BaselineOnChain, OnChain
        <3> QED
            BY <3>2, <3>3, <3>4 DEF ChainInv
    <2>3. CASE CommitEntry(c)
        <3>1. OnTail(snap[c]) /\ auditLog = HeadOf(Pending(c)) /\ logGuard = c
            BY <2>3 DEF CommitEntry, ChainInv, GuardInv
        <3>2. RowsInv' /\ pinnedHead' = HeadOf(Pending(c)) /\ OnChain(pinnedHead)'
            BY <2>3, <3>1, StoreKeepsChain DEF CommitEntry, ChainInv
        <3>3. AfterAudit(op[c], TRUE) \notin {"persist", "seal_restore", "base_set"}
            BY DEF AfterAudit
        <3>4. GuardInv'
            <4>1. \A d \in Clients : pc'[d] # "persist"
                BY <2>3, <3>1, <3>3 DEF CommitEntry, ChainInv, GuardInv
            <4> QED
                BY <2>3, <4>1 DEF CommitEntry, GuardInv
        <3>5. HeadsOnChain'
            <4>1. OnChain(auditLog)'
                BY <2>3, <3>1, <3>2 DEF CommitEntry, OnChain
            <4>2. OnChain(baseline)'
                BY <2>3, <1>0, <1>b DEF CommitEntry, Store, OnChain
            <4>3. \A d \in Clients : pc'[d] \in {"seal_restore", "base_set"} =>
                     pc[d] = pc'[d] /\ snap'[d] = snap[d]
                BY <2>3, <3>3 DEF CommitEntry
            <4>4. \A d \in Clients : pc'[d] \in {"seal_restore", "base_set"} => OnChain(snap[d])'
                BY <4>3, <1>0 DEF ChainInv, HeadsOnChain, OnChain
            <4> QED
                BY <4>1, <4>2, <4>4 DEF HeadsOnChain, DurableTail, BaselineOnChain
        <3> QED
            BY <3>2, <3>4, <3>5 DEF ChainInv
    <2>4. CASE RejectEntry(c)
        <3>1. OnTail(snap[c]) /\ logGuard = c
            BY <2>4 DEF RejectEntry, ChainInv, GuardInv
        <3>2. AfterAudit(op[c], FALSE) \notin {"persist", "seal_restore", "base_set"}
            BY DEF AfterAudit
        <3>3. RowsInv'
            BY <2>4, RowsFrame DEF RejectEntry, disk, ChainInv
        <3>4. GuardInv'
            <4>1. \A d \in Clients : pc'[d] # "persist"
                BY <2>4, <3>1, <3>2 DEF RejectEntry, ChainInv, GuardInv
            <4> QED
                BY <2>4, <4>1 DEF RejectEntry, GuardInv
        <3>5. HeadsOnChain'
            BY <2>4, <3>1, <3>2 DEF RejectEntry, disk, ChainInv, HeadsOnChain,
                  DurableTail, BaselineOnChain, OnTail, OnChain
        <3> QED
            BY <3>3, <3>4, <3>5 DEF ChainInv
    <2> QED
        BY <1>3, <2>1, <2>2, <2>3, <2>4 DEF AuditCommit
<1>4. ASSUME NEW c \in Clients, Seal(c) PROVE ChainInv'
    <2>1. CASE SealReadKey(c)
        BY <2>1, <1>a, <1>b DEF SealReadKey, mem, disk
    <2>2. CASE SealTakeKey(c)
        BY <2>2, <1>a, <1>b DEF SealTakeKey, disk
    <2>3. CASE SealReadHead(c)
        BY <2>3, <1>a, <1>b DEF SealReadHead, mem, disk
    <2>4. CASE SealReadHeadFails(c)
        BY <2>4, <1>a, <1>b DEF SealReadHeadFails, mem, disk
    <2>5. CASE SealRestoreLog(c)
        <3>1. OnChain(snap[c]) /\ logGuard = NoClient
            BY <2>5 DEF SealRestoreLog, ChainInv, HeadsOnChain
        <3>2. RowsInv'
            BY <2>5, RowsFrame DEF SealRestoreLog, disk, ChainInv
        <3>3. GuardInv'
            <4>1. \A d \in Clients : pc'[d] # "persist"
                BY <2>5, <3>1 DEF SealRestoreLog, ChainInv, GuardInv
            <4> QED
                BY <2>5, <3>1, <4>1 DEF SealRestoreLog, GuardInv
        <3>4. HeadsOnChain'
            BY <2>5, <3>1 DEF SealRestoreLog, disk, ChainInv, HeadsOnChain,
                  DurableTail, BaselineOnChain, OnChain
        <3> QED
            BY <3>2, <3>3, <3>4 DEF ChainInv
    <2>6. CASE SealFlip(c)
        BY <2>6, <1>a, <1>b DEF SealFlip, disk
    <2> QED
        BY <1>4, <2>1, <2>2, <2>3, <2>4, <2>5, <2>6 DEF Seal
<1>5. ASSUME NEW c \in Clients, Rebaseline(c) PROVE ChainInv'
    <2>1. CASE BaselineReadHead(c)
        BY <2>1, <1>a, <1>b DEF BaselineReadHead, mem, disk
    <2>2. CASE SetBaseline(c)
        <3>1. OnChain(baseline')
            BY <2>2 DEF SetBaseline, ChainInv, HeadsOnChain
        <3> QED
            BY <2>2, <3>1, <1>a DEF SetBaseline, mem
    <2>3. CASE BaselineFails(c)
        BY <2>3, <1>a, <1>b DEF BaselineFails, mem, disk
    <2> QED
        BY <1>5, <2>1, <2>2, <2>3 DEF Rebaseline
<1>6. CASE Restart
    <2>1. RowsInv'
        BY <1>6, RowsFrame DEF Restart, disk, ChainInv
    <2>2. GuardInv'
        BY <1>6 DEF Restart, GuardInv
    <2>3. HeadsOnChain'
        BY <1>6, <1>b DEF Restart, disk, ChainInv, HeadsOnChain, DurableTail,
              BaselineOnChain, OnChain
    <2> QED
        BY <2>1, <2>2, <2>3 DEF ChainInv
<1>7. CASE UNCHANGED vars
    <2>1. RowsInv'
        BY <1>7, RowsFrame DEF vars, disk, ChainInv
    <2>2. GuardInv' /\ HeadsOnChain'
        BY <1>7 DEF vars, mem, disk, task, ChainInv, GuardInv, Pending, HeadsOnChain,
           DurableTail, BaselineOnChain, OnTail, OnChain
    <2> QED
        BY <2>1, <2>2 DEF ChainInv
<1>8. ASSUME NEW c \in Clients, Cancel(c) PROVE ChainInv'
    <2>1. CASE pc[c] = "persist"
        <3>1. OnTail(snap[c]) /\ auditLog = HeadOf(Pending(c)) /\ logGuard = c
            BY <2>1 DEF ChainInv, GuardInv
        <3>2. RowsInv' /\ OnTail(auditLog)' /\ OnChain(baseline)'
            <4>1. CASE UNCHANGED disk /\ torn' = torn \cup {auditLog}
                BY <4>1, <1>8, <3>1, <1>b, CutKeepsChain
                   DEF ChainInv, disk, OnTail, OnChain, Cancel
            <4>2. CASE Store(c) /\ UNCHANGED torn
                <5>1. RowsInv' /\ pinnedHead' = auditLog /\ OnChain(pinnedHead)'
                    BY <4>2, <3>1, StoreKeepsChain DEF ChainInv
                <5> QED
                    BY <5>1, <4>2, <1>8, <1>0, <1>b DEF OnTail, OnChain, Store, Cancel
            <4> QED
                BY <2>1, <4>1, <4>2, <1>8 DEF Cancel
        <3>3. \A d \in Clients : pc'[d] # "persist"
            BY <2>1, <3>1, <1>8 DEF Cancel, ChainInv, GuardInv
        <3>4. GuardInv'
            BY <3>1, <3>3, <1>8 DEF Cancel, GuardInv
        <3>5. \A d \in Clients : pc'[d] \in {"seal_restore", "base_set"} => OnChain(snap[d])'
            <4>1. \A d \in Clients : pc'[d] \in {"seal_restore", "base_set"} =>
                     pc[d] = pc'[d] /\ snap'[d] = snap[d]
                BY <1>8 DEF Cancel
            <4> QED
                BY <4>1, <1>0 DEF ChainInv, HeadsOnChain, OnChain
        <3> QED
            BY <3>2, <3>4, <3>5 DEF ChainInv, HeadsOnChain, DurableTail, BaselineOnChain,
               OnTail
    <2>2. CASE pc[c] # "persist"
        <3>1. logGuard # c
            BY <2>2 DEF ChainInv, GuardInv
        <3> QED
            BY <1>8, <2>2, <3>1, <1>a, <1>b DEF Cancel, disk
    <2> QED
        BY <2>1, <2>2
<1> QED
    BY <1>1, <1>2, <1>3, <1>4, <1>5, <1>6, <1>7, <1>8 DEF Next, Run, Finished

\* The durable chain under any number of concurrent unseals, seals and commands,
\* storage errors, crashes and hang-ups: seqs are unique and every row links to
\* the row before it, or to a head whose insert its client cut; the in-memory
\* head is then the only one off the chain, and the trusted baseline never is.
THEOREM ChainStaysIntact == Spec => [](ChainIntact /\ DurableTail /\ BaselineOnChain)
<1>1. ChainInv => ChainIntact /\ DurableTail /\ BaselineOnChain
    BY DEF ChainInv, RowsInv, HeadsOnChain
<1>2. TypeInv /\ ChainInv /\ [Next]_vars => ChainInv'
    BY ChainNext
<1> QED
    BY <1>1, <1>2, TypeInit, TypeNext, ChainInit, PTL DEF Spec

\* audit_commit never builds on a non-durable tail but the one of an insert its
\* client cut, as a failed insert, a seal or a crash puts the head back, and
\* set_audit_baseline only ever stores a row of the chain, although it reads
\* the head after the guard was released.
COROLLARY HeadsStayDurable == Spec => []HeadsDurable
<1>1. DurableTail /\ BaselineOnChain => HeadsDurable
    BY DEF HeadsDurable
<1> QED
    BY <1>1, ChainStaysIntact, PTL

-----------------------------------------------------------------------------
(* Unsealing has one owner.                                                 *)

LEMMA WindowNext ==
    ASSUME TypeInv, UnsealingOwned, [Next]_vars
    PROVE  UnsealingOwned'
<1> USE DEF TypeInv, TypeOK, At, Goto, Local, Locals, UnsealingOwned, InWindow, Owners, cuts
<1>1. ASSUME NEW c \in Clients, Arrive(c) PROVE UnsealingOwned'
    <2>1. CASE UnsealBegin(c)
        BY <2>1 DEF UnsealBegin, Receive
    <2>2. CASE RequireUnsealed(c)
        BY <2>2 DEF RequireUnsealed, Receive, mem
    <2>3. CASE SealCheck(c)
        BY <2>3 DEF SealCheck, Receive, mem
    <2> QED
        BY <1>1, <2>1, <2>2, <2>3 DEF Arrive
<1>2. ASSUME NEW c \in Clients, Unseal(c) PROVE UnsealingOwned'
    <2>1. CASE FetchOk(c) \/ FetchFails(c)
        BY <2>1 DEF FetchOk, FetchFails, mem
    <2>2. CASE PublishKey(c)
        BY <2>2 DEF PublishKey
    <2>3. CASE CompleteUnseal(c)
        BY <2>3 DEF CompleteUnseal
    <2>4. CASE RollbackState(c)
        BY <2>4 DEF RollbackState
    <2>5. CASE RollbackKey(c)
        BY <2>5 DEF RollbackKey
    <2> QED
        BY <1>2, <2>1, <2>2, <2>3, <2>4, <2>5 DEF Unseal
<1>3. ASSUME NEW c \in Clients, AuditCommit(c) PROVE UnsealingOwned'
    <2>1. CASE RequireHmacKey(c)
        BY <2>1 DEF RequireHmacKey, mem
    <2>2. CASE AppendEntry(c)
        BY <2>2 DEF AppendEntry
    <2>3. CASE CommitEntry(c)
        BY <2>3 DEF CommitEntry, AfterAudit
    <2>4. CASE RejectEntry(c)
        BY <2>4 DEF RejectEntry, AfterAudit
    <2> QED
        BY <1>3, <2>1, <2>2, <2>3, <2>4 DEF AuditCommit
<1>4. ASSUME NEW c \in Clients, Seal(c) PROVE UnsealingOwned'
    <2>1. CASE SealReadKey(c) \/ SealReadHead(c) \/ SealReadHeadFails(c)
        BY <2>1 DEF SealReadKey, SealReadHead, SealReadHeadFails, mem
    <2>2. CASE SealTakeKey(c) \/ SealRestoreLog(c)
        BY <2>2 DEF SealTakeKey, SealRestoreLog
    <2>3. CASE SealFlip(c)
        BY <2>3 DEF SealFlip
    <2> QED
        BY <1>4, <2>1, <2>2, <2>3 DEF Seal
<1>5. ASSUME NEW c \in Clients, Rebaseline(c) PROVE UnsealingOwned'
    BY <1>5 DEF Rebaseline, BaselineReadHead, SetBaseline, BaselineFails, mem
<1>6. ASSUME NEW c \in Clients, Cancel(c) PROVE UnsealingOwned'
    <2>1. Owners' = Owners \ {c}
        BY <1>6 DEF Cancel
    <2> HIDE DEF Owners
    <2>2. c \in Owners <=> InWindow(c)
        BY DEF Owners
    <2> QED
        BY <1>6, <2>1, <2>2 DEF Cancel
<1>7. CASE Restart
    BY <1>7 DEF Restart
<1>8. CASE UNCHANGED vars
    BY <1>8 DEF vars, mem, task
<1> QED
    BY <1>1, <1>2, <1>3, <1>4, <1>5, <1>6, <1>7, <1>8 DEF Next, Run, Finished

LEMMA WindowInit == Init => UnsealingOwned
BY DEF Init, UnsealingOwned, InWindow, Owners

\* Unsealing is owned by one unseal in flight, or by one whose client hung up and
\* nobody else, so complete_unseal never meets another state and no seal aborts
\* it - under every fault and hang-up.
THEOREM UnsealingHasOneOwner == Spec => []UnsealingOwned
<1>1. TypeInv /\ UnsealingOwned /\ [Next]_vars => UnsealingOwned'
    BY WindowNext
<1> QED
    BY <1>1, WindowInit, TypeInit, TypeNext, PTL DEF Spec

-----------------------------------------------------------------------------
(* A sealed vault has no key in memory, when unseals and seals do not       *)
(* overlap.  The strengthening says at which labels of the one lifecycle    *)
(* command under way the key is known to be absent.                         *)

KeyInv ==
    /\ SealedHasNoKey
    /\ \A c, d \in Clients : InLifecycle(c) /\ InLifecycle(d) => c = d
    /\ \A c \in Clients :
        /\ pc[c] \in {"fetch", "publish", "flip", "revert", "clear"} => op[c] = "Unseal"
        /\ pc[c] \in {"seal_key", "seal_take", "seal_read", "seal_restore", "seal_flip"} =>
               op[c] = "Seal"
        /\ pc[c] \in {"fetch", "publish", "revert", "seal_read", "seal_restore",
                      "seal_flip"} => ~hmacKey

LEMMA KeyNext ==
    ASSUME TypeInv, UnsealingOwned, KeyInv, [Next]_vars, [LifecycleApart]_vars
    PROVE  KeyInv'
<1> USE DEF TypeInv, TypeOK, At, Goto, Local, Locals, KeyInv, SealedHasNoKey,
            InLifecycle, Labels
<1>1. ASSUME NEW c \in Clients, Arrive(c), LifecycleApart PROVE KeyInv'
    <2>1. CASE UnsealBegin(c)
        BY <2>1, <1>1 DEF UnsealBegin, Receive, LifecycleApart
    <2>2. CASE RequireUnsealed(c)
        BY <2>2 DEF RequireUnsealed, Receive, mem
    <2>3. CASE SealCheck(c)
        BY <2>3, <1>1 DEF SealCheck, Receive, mem, LifecycleApart
    <2> QED
        BY <1>1, <2>1, <2>2, <2>3 DEF Arrive
<1>2. ASSUME NEW c \in Clients, Unseal(c) PROVE KeyInv'
    <2>1. CASE FetchOk(c) \/ FetchFails(c)
        BY <2>1 DEF FetchOk, FetchFails, mem
    <2>2. CASE PublishKey(c)
        <3>1. identity = "Unsealing"
            BY <2>2 DEF PublishKey, UnsealingOwned, Owners, InWindow
        <3> QED
            BY <2>2, <3>1 DEF PublishKey
    <2>3. CASE CompleteUnseal(c)
        <3>1. identity = "Unsealing"
            BY <2>3 DEF CompleteUnseal, UnsealingOwned, Owners, InWindow
        <3> QED
            BY <2>3, <3>1 DEF CompleteUnseal
    <2>4. CASE RollbackState(c)
        BY <2>4 DEF RollbackState
    <2>5. CASE RollbackKey(c)
        BY <2>5 DEF RollbackKey
    <2> QED
        BY <1>2, <2>1, <2>2, <2>3, <2>4, <2>5 DEF Unseal
<1>3. ASSUME NEW c \in Clients, AuditCommit(c) PROVE KeyInv'
    <2>1. CASE RequireHmacKey(c)
        BY <2>1 DEF RequireHmacKey, mem
    <2>2. CASE AppendEntry(c)
        BY <2>2 DEF AppendEntry
    <2>3. CASE CommitEntry(c)
        BY <2>3 DEF CommitEntry, AfterAudit
    <2>4. CASE RejectEntry(c)
        BY <2>4 DEF RejectEntry, AfterAudit
    <2> QED
        BY <1>3, <2>1, <2>2, <2>3, <2>4 DEF AuditCommit
<1>4. ASSUME NEW c \in Clients, Seal(c) PROVE KeyInv'
    <2>1. CASE SealReadKey(c)
        BY <2>1 DEF SealReadKey, mem
    <2>2. CASE SealTakeKey(c)
        BY <2>2 DEF SealTakeKey
    <2>3. CASE SealReadHead(c)
        BY <2>3 DEF SealReadHead, mem
    <2>4. CASE SealReadHeadFails(c)
        BY <2>4 DEF SealReadHeadFails, mem
    <2>5. CASE SealRestoreLog(c)
        BY <2>5 DEF SealRestoreLog
    <2>6. CASE SealFlip(c)
        BY <2>6 DEF SealFlip
    <2> QED
        BY <1>4, <2>1, <2>2, <2>3, <2>4, <2>5, <2>6 DEF Seal
<1>5. ASSUME NEW c \in Clients, Rebaseline(c) PROVE KeyInv'
    BY <1>5 DEF Rebaseline, BaselineReadHead, SetBaseline, BaselineFails, mem
<1>6. CASE Restart
    BY <1>6 DEF Restart
<1>7. CASE UNCHANGED vars
    BY <1>7 DEF vars, mem, task
<1>8. ASSUME NEW c \in Clients, Cancel(c) PROVE KeyInv'
    BY <1>8 DEF Cancel
<1> QED
    BY <1>1, <1>2, <1>3, <1>4, <1>5, <1>6, <1>7, <1>8 DEF Next, Run, Finished

\* If no unseal or seal, an idle re-lock included, starts while another is under
\* way, a sealed vault never has the HMAC key in memory - whatever fails, whoever
\* hangs up where, and however the agent is killed.  Without the hypothesis it may
\* (two seals around an unseal).
THEOREM SealedVaultHasNoKey == Spec /\ [][LifecycleApart]_vars => []SealedHasNoKey
<1>1. Init => KeyInv
    BY DEF Init, KeyInv, SealedHasNoKey, InLifecycle, At
<1>2. TypeInv /\ UnsealingOwned /\ [Next]_vars => UnsealingOwned'
    BY WindowNext
<1>3. TypeInv /\ UnsealingOwned /\ KeyInv /\ [Next]_vars /\ [LifecycleApart]_vars => KeyInv'
    BY KeyNext
<1>4. KeyInv => SealedHasNoKey
    BY DEF KeyInv
<1> QED
    BY <1>1, <1>2, <1>3, <1>4, WindowInit, TypeInit, TypeNext, PTL DEF Spec
=============================================================================
