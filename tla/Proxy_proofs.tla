---------------------------- MODULE Proxy_proofs ----------------------------
(***************************************************************************)
(* Theorems about Proxy, for any number of calls, any URLs and any answers   *)
(* of the name service. The induction is over IInv: the types and, for each  *)
(* call, how far its command is and what it owns there.                       *)
(***************************************************************************)
EXTENDS Proxy, TLAPS, SequenceTheorems

(* Before a tunnel is registered nobody but its command knows it. *)
Early == {"idle", "denying", "validating", "connecting", "draining", "launching"}
Unregistered == Early \cup {"waiting", "settling", "registering"}

(* The tunnel side of a call: no subprocess before the launch, no registry    *)
(* entry and no cleanup task before the registration, which finds the file    *)
(* kept; a tunnel that still runs when its entry is audited is registered;    *)
(* the cleanup task only finishes a tunnel that has exited.                   *)
TunnelInv(c) ==
  /\ pc[c] \in Early => child[c] = "none"
  /\ pc[c] \in Unregistered => c \notin forwards /\ watcher[c] = "none"
  /\ pc[c] \in {"validating", "connecting", "draining", "waiting"} => op[c] # "port_forward"
  /\ pc[c] = "registering" => file[c] = "kept"
  /\ pc[c] = "auditing" /\ op[c] = "port_forward" /\ child[c] = "running" => c \in forwards
  /\ watcher[c] = "finished" => child[c] # "running"
  /\ c \in forwards /\ child[c] = "running" => file[c] = "kept"
  /\ op[c] = "port_forward" /\ child[c] = "running" =>
       c \in forwards \/ pc[c] \in Running \/ c \in orphans

IInv == TypeOK /\ \A c \in Calls : TunnelInv(c)

LEMMA InitIInv == Init => IInv
<1> SUFFICES ASSUME Init PROVE IInv
  OBVIOUS
<1>1. TypeOK
  <2>1. 0 \in 0..MaxBody
    BY ProxyAssumption
  <2> QED
    BY <2>1, Zenon DEF Init, TypeOK
<1>2. ASSUME NEW c \in Calls PROVE TunnelInv(c)
  BY DEF Init, TunnelInv
<1> QED
  BY <1>1, <1>2 DEF IInv

(* Each action keeps the types. *)
LEMMA TypeStep == ASSUME TypeOK, [Next]_vars PROVE TypeOK'
<1> USE ProxyAssumption DEF TypeOK, Running, http, tunnel, gone
<1>1. ASSUME NEW c \in Calls, Start(c) PROVE TypeOK'
  BY <1>1 DEF Start, Goto, Fail, Denied, Ops, Ssh, Http
<1>2. ASSUME NEW c \in Calls, Command(c) PROVE TypeOK'
  <2>1. CASE Deny(c)
    BY <2>1 DEF Deny, At, Fail, Goto
  <2>2. CASE validate(c)
    BY <2>2 DEF validate, At, Fail, Goto
  <2>3. CASE Connect(c)
    BY <2>3 DEF Connect, At, Fail, Goto
  <2>4. CASE Chunk(c)
    BY <2>4 DEF Chunk, At, Fail, Goto
  <2>5. CASE Drained(c)
    BY <2>5 DEF Drained, At, Fail, Goto
  <2>6. CASE Launch(c)
    BY <2>6 DEF Launch, At, Fail, Goto
  <2>7. CASE Wait(c)
    BY <2>7 DEF Wait, At, Fail, Goto
  <2>8. CASE Settle(c)
    BY <2>8 DEF Settle, At, Fail, Goto, Kill
  <2>9. CASE Register(c)
    BY <2>9 DEF Register, At, Goto
  <2>10. CASE Audit(c)
    BY <2>10 DEF Audit, At, Fail, Goto
  <2> QED
    BY <1>2, <2>1, <2>2, <2>3, <2>4, <2>5, <2>6, <2>7, <2>8, <2>9, <2>10 DEF Command
<1>3. ASSUME NEW c \in Calls, Exit(c) \/ Watch(c) \/ WatchRemove(c) PROVE TypeOK'
  BY <1>3 DEF Exit, Watch, WatchRemove
<1>4. ASSUME NEW c \in Calls, HangUp(c) PROVE TypeOK'
  BY <1>4 DEF HangUp, Fail, Goto, Kill
<1>5. ASSUME CloseSession \/ SealOrUnseal PROVE TypeOK'
  BY <1>5 DEF CloseSession, SealOrUnseal, Kill
<1>6. ASSUME Stop \/ Crash \/ Restart PROVE TypeOK'
  <2>1. Ended \in [Calls -> Running \cup {"idle", "ok", "failed"}]
    BY DEF Ended
  <2>2. CASE Stop
    BY <2>1, <2>2 DEF Stop, Kill, Kept
  <2>3. CASE Crash
    BY <2>1, <2>3 DEF Crash
  <2>4. CASE Restart
    BY <2>4 DEF Restart
  <2> QED
    BY <1>6, <2>2, <2>3, <2>4
<1>7. CASE UNCHANGED vars
  BY <1>7 DEF vars
<1> QED
  BY <1>1, <1>2, <1>3, <1>4, <1>5, <1>6, <1>7 DEF Next

(* Each action keeps TunnelInv of every call d. *)
LEMMA TunnelStep ==
    ASSUME IInv, [Next]_vars, NEW d \in Calls
    PROVE  TunnelInv(d)'
<1> USE DEF TypeOK, IInv, TunnelInv, Early, Unregistered, Running, http, tunnel, gone
<1>1. ASSUME NEW c \in Calls, Start(c) PROVE TunnelInv(d)'
  BY <1>1, ProxyAssumption DEF Start, Goto, Fail, Denied, Ops, Ssh, Http
<1>2. ASSUME NEW c \in Calls, Command(c) PROVE TunnelInv(d)'
  <2>1. CASE Deny(c)
    BY <2>1 DEF Deny, At, Fail, Goto
  <2>2. CASE validate(c)
    BY <2>2 DEF validate, At, Fail, Goto
  <2>3. CASE Connect(c)
    BY <2>3 DEF Connect, At, Fail, Goto
  <2>4. CASE Chunk(c)
    BY <2>4 DEF Chunk, At, Fail, Goto
  <2>5. CASE Drained(c)
    BY <2>5 DEF Drained, At, Fail, Goto
  <2>6. CASE Launch(c)
    BY <2>6 DEF Launch, At, Fail, Goto
  <2>7. CASE Wait(c)
    BY <2>7 DEF Wait, At, Fail, Goto, Ssh
  <2>8. CASE Settle(c)
    BY <2>8 DEF Settle, At, Fail, Goto, Kill
  <2>9. CASE Register(c)
    BY <2>9 DEF Register, At, Goto
  <2>10. CASE Audit(c)
    BY <2>10 DEF Audit, At, Fail, Goto
  <2> QED
    BY <1>2, <2>1, <2>2, <2>3, <2>4, <2>5, <2>6, <2>7, <2>8, <2>9, <2>10 DEF Command
<1>3. ASSUME NEW c \in Calls, Exit(c) PROVE TunnelInv(d)'
  BY <1>3 DEF Exit
<1>4. ASSUME NEW c \in Calls, Watch(c) PROVE TunnelInv(d)'
  BY <1>4 DEF Watch
<1>5. ASSUME NEW c \in Calls, WatchRemove(c) PROVE TunnelInv(d)'
  BY <1>5 DEF WatchRemove
<1>6. ASSUME NEW c \in Calls, HangUp(c) PROVE TunnelInv(d)'
  BY <1>6 DEF HangUp, Fail, Goto, Kill, OwnsChild, KillOnDrop
<1>7. CASE CloseSession
  BY <1>7 DEF CloseSession, Kill
<1>8. CASE SealOrUnseal
  BY <1>8 DEF SealOrUnseal
<1>9. CASE Stop
  BY <1>9 DEF Stop, Kill, Ended, Kept, OwnsChild, KillOnDrop
<1>10. CASE Crash
  BY <1>10 DEF Crash, Ended
<1>11. CASE Restart
  BY <1>11 DEF Restart
<1>12. CASE UNCHANGED vars
  BY <1>12 DEF vars
<1> QED
  BY <1>1, <1>2, <1>3, <1>4, <1>5, <1>6, <1>7, <1>8, <1>9, <1>10, <1>11, <1>12 DEF Next

LEMMA IInvHolds == Spec => []IInv
<1>1. IInv /\ [Next]_vars => IInv'
  <2> SUFFICES ASSUME IInv, [Next]_vars PROVE IInv'
    OBVIOUS
  <2>1. TypeOK'
    BY TypeStep DEF IInv
  <2>2. \A d \in Calls : TunnelInv(d)'
    BY TunnelStep
  <2> QED
    BY <2>1, <2>2 DEF IInv
<1> QED
  BY InitIInv, <1>1, PTL DEF Spec

(* port_forward.rs: every state is well typed, no response is read past its   *)
(* cap, and a running tunnel is held by its command or by the registry, so     *)
(* that a session close or a shutdown ends it; only a crash lets one go, and    *)
(* not a call cut off while it waits for the registry.                         *)
THEOREM TunnelsStaySound == Spec => []TunnelsSound
<1>1. IInv => TunnelsSound
  BY DEF IInv, TunnelInv, TunnelsSound, TunnelOwned
<1> QED
  BY <1>1, IInvHolds, PTL

(* port_forward.rs: while a registered tunnel runs its identity file exists,   *)
(* whatever the cleanup task, hang-ups and session closes do meanwhile.        *)
THEOREM IdentityStaysWhileNeeded == Spec => []IdentityWhileNeeded
<1>1. IInv => IdentityWhileNeeded
  BY DEF IInv, TypeOK, TunnelInv, IdentityWhileNeeded
<1> QED
  BY <1>1, IInvHolds, PTL

-----------------------------------------------------------------------------
(* That is_forbidden_ip covers the special-purpose blocks. What membership of  *)
(* a block says of the octets and of the segments of an address: those before  *)
(* the end of the prefix are equal, the one it ends in agrees in its high bits. *)

Fields(ip, n, S) == DOMAIN ip = 1..n /\ \A i \in 1..n : ip[i] \in S
Octets(ip) == Fields(ip, 4, Octet)
Segments(ip) == Fields(ip, 8, Segment)

LEMMA FieldsOf ==
  ASSUME NEW S, NEW n \in Nat, NEW ip \in Seq(S), Len(ip) = n
  PROVE  Fields(ip, n, S)
<1>1. DOMAIN ip = 1..n /\ ip \in [1..n -> S]
  BY LenProperties
<1> QED
  BY <1>1 DEF Fields

LEMMA FirstPart ==
  ASSUME NEW ip, NEW net, NEW w \in {8, 16}, NEW k \in 1..(w - 1), 1 \in DOMAIN ip,
         InBlock(ip, Block(net, k), w)
  PROVE  ip[1] \div (2 ^ (w - k)) = net[1] \div (2 ^ (w - k))
<1>1. k = k - w * (1 - 1)
  OBVIOUS
<1> QED
  BY <1>1 DEF InBlock, Block

LEMMA SecondPart ==
  ASSUME NEW ip, NEW net, NEW k \in 1..7, 2 \in DOMAIN ip, InBlock(ip, Block(net, 8 + k), 8)
  PROVE  ip[2] \div (2 ^ (8 - k)) = net[2] \div (2 ^ (8 - k))
<1>1. k = (8 + k) - 8 * (2 - 1)
  OBVIOUS
<1> QED
  BY <1>1 DEF InBlock, Block

LEMMA WholeOctets ==
  ASSUME NEW ip, Octets(ip), NEW net, NEW len \in Nat, InBlock(ip, Block(net, len), 8)
  PROVE  /\ len >= 8 /\ net[1] \in Nat => ip[1] = net[1]
         /\ len >= 16 /\ net[2] \in Nat => ip[2] = net[2]
         /\ len >= 24 /\ net[3] \in Nat => ip[3] = net[3]
<1>1. ASSUME NEW i \in 1..4, net[i] \in Nat, len - 8 * (i - 1) >= 8 PROVE ip[i] = net[i]
  <2>1. i \in DOMAIN ip /\ ip[i] \in Nat /\ len - 8 * (i - 1) > 0
    BY <1>1 DEF Octets, Fields, Octet
  <2>2. ip[i] \div 1 = net[i] \div 1
    BY <1>1, <2>1 DEF InBlock, Block
  <2> QED
    BY <1>1, <2>1, <2>2
<1> QED
  BY <1>1

LEMMA SegmentsAreNats ==
  ASSUME NEW ip, Segments(ip), NEW i \in 1..8 PROVE i \in DOMAIN ip /\ ip[i] \in Nat
<1>1. DOMAIN ip = 1..8 /\ \A j \in 1..8 : ip[j] \in Segment
  BY Zenon DEF Segments, Fields
<1>2. \A x \in Segment : x \in Nat
  BY SMT DEF Segment
<1> QED
  BY <1>1, <1>2

LEMMA WholeSegments ==
  ASSUME NEW ip, Segments(ip), NEW net, NEW len \in Nat, InBlock(ip, Block(net, len), 16),
         NEW i \in 1..8, net[i] \in Nat, len >= 16 * i
  PROVE  ip[i] = net[i]
<1>1. i \in DOMAIN ip /\ ip[i] \in Nat
  BY SegmentsAreNats
<1>2. len - 16 * (i - 1) >= 16 /\ len - 16 * (i - 1) > 0
  OBVIOUS
<1>3. ip[i] \div 1 = net[i] \div 1
  BY <1>1, <1>2 DEF InBlock, Block
<1> QED
  BY <1>1, <1>3

LEMMA Ranges ==
  ASSUME NEW x \in Int
  PROVE  /\ x \div 16 = 16 \div 16 => x \in 16..31
         /\ x \div 16 = 224 \div 16 => x \in 224..239
         /\ x \div 16 = 240 \div 16 => x >= 240
         /\ x \div 64 = 64 \div 64 => x \in 64..127
         /\ x \div 2 = 18 \div 2 => x \in {18, 19}
         /\ x \div 2 = 0 \div 2 => x \in {0, 1}
OBVIOUS

LEMMA Blocks4 ==
  ASSUME NEW ip, Octets(ip), NEW b \in Special4 \ Unscreened4, InBlock(ip, b, 8)
  PROVE  is_forbidden_v4(ip)
<1>1. CASE b = Block(<<127, 0, 0, 0>>, 8)
  <2> DEFINE net == <<127, 0, 0, 0>>
  <2>1. net[1] = 127
    OBVIOUS
  <2>2. InBlock(ip, Block(net, 8), 8)
    BY <1>1
  <2> HIDE DEF net
  <2>3. ip[1] = 127
    BY <2>1, <2>2, WholeOctets
  <2> QED
    BY <2>3 DEF is_forbidden_v4, std_special_v4
<1>2. CASE b = Block(<<10, 0, 0, 0>>, 8)
  <2> DEFINE net == <<10, 0, 0, 0>>
  <2>1. net[1] = 10
    OBVIOUS
  <2>2. InBlock(ip, Block(net, 8), 8)
    BY <1>2
  <2> HIDE DEF net
  <2>3. ip[1] = 10
    BY <2>1, <2>2, WholeOctets
  <2> QED
    BY <2>3 DEF is_forbidden_v4, std_special_v4
<1>3. CASE b = Block(<<172, 16, 0, 0>>, 12)
  <2> DEFINE net == <<172, 16, 0, 0>>
  <2>1. net[1] = 172 /\ net[2] = 16
    OBVIOUS
  <2>2. InBlock(ip, Block(net, 12), 8) /\ 12 = 8 + 4
    BY <1>3
  <2> HIDE DEF net
  <2>3. ip[1] = 172
    BY <2>1, <2>2, WholeOctets
  <2>4. ip[2] \in 16..31
    <3>1. ip[2] \div (2 ^ (8 - 4)) = net[2] \div (2 ^ (8 - 4))
      <4>1. 4 \in 1..7
        OBVIOUS
      <4> QED
        BY <2>2, <4>1, SecondPart DEF Octets, Fields
    <3> QED
      BY <2>1, <3>1, Ranges DEF Octets, Fields, Octet
  <2> QED
    BY <2>3, <2>4 DEF is_forbidden_v4, std_special_v4
<1>4. CASE b = Block(<<192, 168, 0, 0>>, 16)
  <2> DEFINE net == <<192, 168, 0, 0>>
  <2>1. net[1] = 192 /\ net[2] = 168
    OBVIOUS
  <2>2. InBlock(ip, Block(net, 16), 8)
    BY <1>4
  <2> HIDE DEF net
  <2>3. ip[1] = 192 /\ ip[2] = 168
    BY <2>1, <2>2, WholeOctets
  <2> QED
    BY <2>3 DEF is_forbidden_v4, std_special_v4
<1>5. CASE b = Block(<<169, 254, 0, 0>>, 16)
  <2> DEFINE net == <<169, 254, 0, 0>>
  <2>1. net[1] = 169 /\ net[2] = 254
    OBVIOUS
  <2>2. InBlock(ip, Block(net, 16), 8)
    BY <1>5
  <2> HIDE DEF net
  <2>3. ip[1] = 169 /\ ip[2] = 254
    BY <2>1, <2>2, WholeOctets
  <2> QED
    BY <2>3 DEF is_forbidden_v4, std_special_v4
<1>6. CASE b = Block(<<224, 0, 0, 0>>, 4)
  <2> DEFINE net == <<224, 0, 0, 0>>
  <2>1. net[1] = 224
    OBVIOUS
  <2>2. InBlock(ip, Block(net, 4), 8)
    BY <1>6
  <2> HIDE DEF net
  <2>3. ip[1] \in 224..239
    <3>1. ip[1] \div (2 ^ (8 - 4)) = net[1] \div (2 ^ (8 - 4))
      <4>1. 4 \in 1..(8 - 1) /\ 8 \in {8, 16}
        OBVIOUS
      <4> QED
        BY <2>2, <4>1, FirstPart DEF Octets, Fields
    <3> QED
      BY <2>1, <3>1, Ranges DEF Octets, Fields, Octet
  <2> QED
    BY <2>3 DEF is_forbidden_v4, std_special_v4
<1>7. CASE b = Block(<<0, 0, 0, 0>>, 8)
  <2> DEFINE net == <<0, 0, 0, 0>>
  <2>1. net[1] = 0
    OBVIOUS
  <2>2. InBlock(ip, Block(net, 8), 8)
    BY <1>7
  <2> HIDE DEF net
  <2>3. ip[1] = 0
    BY <2>1, <2>2, WholeOctets
  <2> QED
    BY <2>3 DEF is_forbidden_v4, is_this_network_v4
<1>8. CASE b = Block(<<192, 0, 2, 0>>, 24)
  <2> DEFINE net == <<192, 0, 2, 0>>
  <2>1. net[1] = 192 /\ net[2] = 0 /\ net[3] = 2
    OBVIOUS
  <2>2. InBlock(ip, Block(net, 24), 8)
    BY <1>8
  <2> HIDE DEF net
  <2>3. ip[1] = 192 /\ ip[2] = 0 /\ ip[3] = 2
    BY <2>1, <2>2, WholeOctets
  <2> QED
    BY <2>3 DEF is_forbidden_v4, std_special_v4
<1>9. CASE b = Block(<<198, 51, 100, 0>>, 24)
  <2> DEFINE net == <<198, 51, 100, 0>>
  <2>1. net[1] = 198 /\ net[2] = 51 /\ net[3] = 100
    OBVIOUS
  <2>2. InBlock(ip, Block(net, 24), 8)
    BY <1>9
  <2> HIDE DEF net
  <2>3. ip[1] = 198 /\ ip[2] = 51 /\ ip[3] = 100
    BY <2>1, <2>2, WholeOctets
  <2> QED
    BY <2>3 DEF is_forbidden_v4, std_special_v4
<1>10. CASE b = Block(<<203, 0, 113, 0>>, 24)
  <2> DEFINE net == <<203, 0, 113, 0>>
  <2>1. net[1] = 203 /\ net[2] = 0 /\ net[3] = 113
    OBVIOUS
  <2>2. InBlock(ip, Block(net, 24), 8)
    BY <1>10
  <2> HIDE DEF net
  <2>3. ip[1] = 203 /\ ip[2] = 0 /\ ip[3] = 113
    BY <2>1, <2>2, WholeOctets
  <2> QED
    BY <2>3 DEF is_forbidden_v4, std_special_v4
<1>11. CASE b = Block(<<100, 64, 0, 0>>, 10)
  <2> DEFINE net == <<100, 64, 0, 0>>
  <2>1. net[1] = 100 /\ net[2] = 64
    OBVIOUS
  <2>2. InBlock(ip, Block(net, 10), 8) /\ 10 = 8 + 2
    BY <1>11
  <2> HIDE DEF net
  <2>3. ip[1] = 100
    BY <2>1, <2>2, WholeOctets
  <2>4. ip[2] \in 64..127
    <3>1. ip[2] \div (2 ^ (8 - 2)) = net[2] \div (2 ^ (8 - 2))
      <4>1. 2 \in 1..7
        OBVIOUS
      <4> QED
        BY <2>2, <4>1, SecondPart DEF Octets, Fields
    <3> QED
      BY <2>1, <3>1, Ranges DEF Octets, Fields, Octet
  <2> QED
    BY <2>3, <2>4 DEF is_forbidden_v4, is_shared_v4
<1>12. CASE b = Block(<<192, 0, 0, 0>>, 24)
  <2> DEFINE net == <<192, 0, 0, 0>>
  <2>1. net[1] = 192 /\ net[2] = 0 /\ net[3] = 0
    OBVIOUS
  <2>2. InBlock(ip, Block(net, 24), 8)
    BY <1>12
  <2> HIDE DEF net
  <2>3. ip[1] = 192 /\ ip[2] = 0 /\ ip[3] = 0
    BY <2>1, <2>2, WholeOctets
  <2> QED
    BY <2>3 DEF is_forbidden_v4, is_ietf_protocol_v4
<1>13. CASE b = Block(<<198, 18, 0, 0>>, 15)
  <2> DEFINE net == <<198, 18, 0, 0>>
  <2>1. net[1] = 198 /\ net[2] = 18
    OBVIOUS
  <2>2. InBlock(ip, Block(net, 15), 8) /\ 15 = 8 + 7
    BY <1>13
  <2> HIDE DEF net
  <2>3. ip[1] = 198
    BY <2>1, <2>2, WholeOctets
  <2>4. ip[2] \in {18, 19}
    <3>1. ip[2] \div (2 ^ (8 - 7)) = net[2] \div (2 ^ (8 - 7))
      <4>1. 7 \in 1..7
        OBVIOUS
      <4> QED
        BY <2>2, <4>1, SecondPart DEF Octets, Fields
    <3> QED
      BY <2>1, <3>1, Ranges DEF Octets, Fields, Octet
  <2> QED
    BY <2>3, <2>4 DEF is_forbidden_v4, is_benchmarking_v4
<1>14. CASE b = Block(<<240, 0, 0, 0>>, 4)
  <2> DEFINE net == <<240, 0, 0, 0>>
  <2>1. net[1] = 240
    OBVIOUS
  <2>2. InBlock(ip, Block(net, 4), 8)
    BY <1>14
  <2> HIDE DEF net
  <2>3. ip[1] >= 240
    <3>1. ip[1] \div (2 ^ (8 - 4)) = net[1] \div (2 ^ (8 - 4))
      <4>1. 4 \in 1..(8 - 1) /\ 8 \in {8, 16}
        OBVIOUS
      <4> QED
        BY <2>2, <4>1, FirstPart DEF Octets, Fields
    <3> QED
      BY <2>1, <3>1, Ranges DEF Octets, Fields, Octet
  <2> QED
    BY <2>3 DEF is_forbidden_v4, is_reserved_class_e
<1> QED
  BY <1>1, <1>2, <1>3, <1>4, <1>5, <1>6, <1>7, <1>8, <1>9, <1>10, <1>11, <1>12, <1>13, <1>14
         DEF Special4, Unscreened4

(* The two prefixes that carry an IPv4 address. *)
LEMMA Prefix96 ==
  ASSUME NEW ip \in Seq(Segment), Len(ip) = 8
  PROVE  /\ is_mapped(ip) <=> /\ ip[1] = 0 /\ ip[2] = 0 /\ ip[3] = 0
                             /\ ip[4] = 0 /\ ip[5] = 0 /\ ip[6] = 65535
         /\ is_nat64(ip) <=> /\ ip[1] = 100 /\ ip[2] = 65435 /\ ip[3] = 0
                            /\ ip[4] = 0 /\ ip[5] = 0 /\ ip[6] = 0
<1> DEFINE s == SubSeq(ip, 1, 6)
<1>0. Fields(ip, 8, Segment)
  BY FieldsOf
<1>1. \A i \in 1..6 : ip[i] \in Segment
  BY <1>0 DEF Fields
<1>2. /\ s \in Seq(Segment) /\ Len(s) = 6
      /\ \A i \in 1..6 : s[i] = ip[i]
  <2>1. /\ SubSeq(ip, 1, 6) \in Seq(Segment)
        /\ Len(SubSeq(ip, 1, 6)) = IF 1 <= 6 THEN 6 - 1 + 1 ELSE 0
        /\ \A i \in 1..(6 - 1 + 1) : SubSeq(ip, 1, 6)[i] = ip[1 + i - 1]
    <3>1. 1 \in Int /\ 6 \in Int
      OBVIOUS
    <3> QED
      BY <1>1, <3>1, SubSeqProperties
  <2> QED
    BY <2>1
<1> HIDE DEF s
<1>3. /\ s[1] = ip[1] /\ s[2] = ip[2] /\ s[3] = ip[3]
      /\ s[4] = ip[4] /\ s[5] = ip[5] /\ s[6] = ip[6]
  BY <1>2
<1>4. s = <<0, 0, 0, 0, 0, 65535>> <=> /\ s[1] = 0 /\ s[2] = 0 /\ s[3] = 0
                                      /\ s[4] = 0 /\ s[5] = 0 /\ s[6] = 65535
  BY <1>2, SMT
<1>5. s = <<100, 65435, 0, 0, 0, 0>> <=> /\ s[1] = 100 /\ s[2] = 65435 /\ s[3] = 0
                                        /\ s[4] = 0 /\ s[5] = 0 /\ s[6] = 0
  BY <1>2, SMT
<1>6. (is_mapped(ip) <=> s = <<0, 0, 0, 0, 0, 65535>>)
      /\ (is_nat64(ip) <=> s = <<100, 65435, 0, 0, 0, 0>>)
  BY SMT DEF is_mapped, is_nat64, s
<1> QED
  BY <1>3, <1>4, <1>5, <1>6, SMT

LEMMA Halves ==
  ASSUME NEW x \in Segment PROVE x \div 256 \in Octet /\ x % 256 \in Octet
<1>1. x \in Nat /\ x <= 65535
  BY SMT DEF Segment
<1>2. x \div 256 \in Nat /\ x \div 256 <= 255
  BY <1>1, SMT
<1>3. x % 256 \in 0..255
  BY <1>1, SMT
<1> QED
  BY <1>2, <1>3, SMT DEF Octet

LEMMA EmbeddedOctets == ASSUME NEW ip, Segments(ip) PROVE Octets(embedded_v4(ip))
<1>1. /\ ip[7] \div 256 \in Octet /\ ip[7] % 256 \in Octet
      /\ ip[8] \div 256 \in Octet /\ ip[8] % 256 \in Octet
  BY Halves DEF Segments, Fields
<1> QED
  BY <1>1 DEF Octets, Fields, embedded_v4

(* The blocks of IPv6 lie outside the two prefixes and are refused. *)
LEMMA Blocks6 ==
  ASSUME NEW ip \in Seq(Segment), Len(ip) = 8, NEW b \in Special6 \ Unscreened6, InBlock(ip, b, 16)
  PROVE  is_forbidden_v6(ip) /\ ~is_mapped(ip) /\ ~is_nat64(ip)
<1>0. Segments(ip)
  BY FieldsOf DEF Segments
<1>1. CASE b = Block(<<0, 0, 0, 0, 0, 0, 0, 0>>, 127)
  <2> DEFINE net == <<0, 0, 0, 0, 0, 0, 0, 0>>
  <2>1. \A i \in 1..8 : net[i] = 0
    OBVIOUS
  <2>2. InBlock(ip, Block(net, 127), 16)
    BY <1>1
  <2> HIDE DEF net
  <2>3. \A i \in 1..7 : ip[i] = 0
    <3> SUFFICES ASSUME NEW i \in 1..7 PROVE ip[i] = 0
      OBVIOUS
    <3>1. net[i] = 0 /\ i \in 1..8 /\ 127 >= 16 * i
      BY <2>1
    <3> QED
      BY <1>0, <2>2, <3>1, WholeSegments
  <2>4. ip[8] \in {0, 1}
    <3>1. 15 = 127 - 16 * (8 - 1) /\ 2 ^ (16 - 15) = 2
      OBVIOUS
    <3>2. ip[8] \div 2 = net[8] \div 2
      BY <1>0, <2>2, <3>1 DEF Segments, Fields, InBlock, Block
    <3>3. ip[8] \in Nat /\ net[8] = 0
      BY <1>0, <2>1, SegmentsAreNats
    <3> QED
      BY <3>2, <3>3, Ranges
  <2>5. ~is_mapped(ip) /\ ~is_nat64(ip)
    BY <2>3, Prefix96
  <2>6. ip = <<0, 0, 0, 0, 0, 0, 0, 1>> \/ ip = <<0, 0, 0, 0, 0, 0, 0, 0>>
    BY <2>3, <2>4
  <2> QED
    BY <2>5, <2>6 DEF is_forbidden_v6
<1>2. CASE b = Block(<<65280, 0, 0, 0, 0, 0, 0, 0>>, 8)
  <2> DEFINE net == <<65280, 0, 0, 0, 0, 0, 0, 0>>
  <2>1. net[1] = 65280
    OBVIOUS
  <2>2. InBlock(ip, Block(net, 8), 16)
    BY <1>2
  <2> HIDE DEF net
  <2>3. ip[1] \div 256 = 65280 \div 256
    <3>1. 8 \in 1..(16 - 1) /\ 16 \in {8, 16}
      OBVIOUS
    <3>2. ip[1] \div (2 ^ (16 - 8)) = net[1] \div (2 ^ (16 - 8))
      BY <1>0, <2>2, <3>1, FirstPart DEF Segments, Fields
    <3>3. 2 ^ (16 - 8) = 256
      OBVIOUS
    <3> QED
      BY <2>1, <3>2, <3>3
  <2>4. ip[1] # 0 /\ ip[1] # 100
    BY <2>3
  <2>5. ~is_mapped(ip) /\ ~is_nat64(ip)
    BY <2>4, Prefix96
  <2> QED
    BY <2>3, <2>5 DEF is_forbidden_v6
<1>3. CASE b = Block(<<64512, 0, 0, 0, 0, 0, 0, 0>>, 7)
  <2> DEFINE net == <<64512, 0, 0, 0, 0, 0, 0, 0>>
  <2>1. net[1] = 64512
    OBVIOUS
  <2>2. InBlock(ip, Block(net, 7), 16)
    BY <1>3
  <2> HIDE DEF net
  <2>3. ip[1] \div 512 = 64512 \div 512
    <3>1. 7 \in 1..(16 - 1) /\ 16 \in {8, 16}
      OBVIOUS
    <3>2. ip[1] \div (2 ^ (16 - 7)) = net[1] \div (2 ^ (16 - 7))
      BY <1>0, <2>2, <3>1, FirstPart DEF Segments, Fields
    <3>3. 2 ^ (16 - 7) = 512
      OBVIOUS
    <3> QED
      BY <2>1, <3>2, <3>3
  <2>4. ip[1] # 0 /\ ip[1] # 100
    BY <2>3
  <2>5. ~is_mapped(ip) /\ ~is_nat64(ip)
    BY <2>4, Prefix96
  <2> QED
    BY <2>3, <2>5 DEF is_forbidden_v6
<1>4. CASE b = Block(<<65152, 0, 0, 0, 0, 0, 0, 0>>, 10)
  <2> DEFINE net == <<65152, 0, 0, 0, 0, 0, 0, 0>>
  <2>1. net[1] = 65152
    OBVIOUS
  <2>2. InBlock(ip, Block(net, 10), 16)
    BY <1>4
  <2> HIDE DEF net
  <2>3. ip[1] \div 64 = 65152 \div 64
    <3>1. 10 \in 1..(16 - 1) /\ 16 \in {8, 16}
      OBVIOUS
    <3>2. ip[1] \div (2 ^ (16 - 10)) = net[1] \div (2 ^ (16 - 10))
      BY <1>0, <2>2, <3>1, FirstPart DEF Segments, Fields
    <3>3. 2 ^ (16 - 10) = 64
      OBVIOUS
    <3> QED
      BY <2>1, <3>2, <3>3
  <2>4. ip[1] # 0 /\ ip[1] # 100
    BY <2>3
  <2>5. ~is_mapped(ip) /\ ~is_nat64(ip)
    BY <2>4, Prefix96
  <2> QED
    BY <2>3, <2>5 DEF is_forbidden_v6
<1> QED
  BY <1>1, <1>2, <1>3, <1>4 DEF Special6, Unscreened6

LEMMA Carried ==
  ASSUME NEW ip \in Seq(Segment), Len(ip) = 8, NEW b \in Carrying4, InBlock(ip, b, 16)
  PROVE  is_mapped(ip) \/ is_nat64(ip)
<1>0. Segments(ip)
  BY FieldsOf DEF Segments
<1>1. CASE b = Block(<<0, 0, 0, 0, 0, 65535, 0, 0>>, 96)
  <2> DEFINE net == <<0, 0, 0, 0, 0, 65535, 0, 0>>
  <2>1. /\ net[1] = 0 /\ net[2] = 0 /\ net[3] = 0
        /\ net[4] = 0 /\ net[5] = 0 /\ net[6] = 65535
    OBVIOUS
  <2>2. InBlock(ip, Block(net, 96), 16)
    BY <1>1
  <2> HIDE DEF net
  <2>3. \A i \in 1..6 : net[i] \in Nat => ip[i] = net[i]
    <3> SUFFICES ASSUME NEW i \in 1..6, net[i] \in Nat PROVE ip[i] = net[i]
      OBVIOUS
    <3>1. i \in 1..8 /\ 96 >= 16 * i
      OBVIOUS
    <3> QED
      BY <1>0, <2>2, <3>1, WholeSegments
  <2> QED
    BY <2>1, <2>3, Prefix96
<1>2. CASE b = Block(<<100, 65435, 0, 0, 0, 0, 0, 0>>, 96)
  <2> DEFINE net == <<100, 65435, 0, 0, 0, 0, 0, 0>>
  <2>1. /\ net[1] = 100 /\ net[2] = 65435 /\ net[3] = 0
        /\ net[4] = 0 /\ net[5] = 0 /\ net[6] = 0
    OBVIOUS
  <2>2. InBlock(ip, Block(net, 96), 16)
    BY <1>2
  <2> HIDE DEF net
  <2>3. \A i \in 1..6 : net[i] \in Nat => ip[i] = net[i]
    <3> SUFFICES ASSUME NEW i \in 1..6, net[i] \in Nat PROVE ip[i] = net[i]
      OBVIOUS
    <3>1. i \in 1..8 /\ 96 >= 16 * i
      OBVIOUS
    <3> QED
      BY <1>0, <2>2, <3>1, WholeSegments
  <2> QED
    BY <2>1, <2>3, Prefix96
<1> QED
  BY <1>1, <1>2 DEF Carrying4

(* destination_policy.rs: an address that is_forbidden_ip permits is in none of *)
(* the special-purpose blocks of the registries, and carries no IPv4 address    *)
(* that is, except for the blocks listed as Unscreened4 and Unscreened6.        *)
THEOREM PermittedIsScreened ==
  ASSUME NEW ip \in Address, ~is_forbidden_ip(ip) PROVE Public(ip) \/ Unscreened(ip)
<1>0. ASSUME NEW q, Octets(q), ~is_forbidden_v4(q), \A b \in Unscreened4 : ~InBlock(q, b, 8)
      PROVE  Public4(q)
  BY <1>0, Blocks4 DEF Public4
<1>1. CASE ip \in Seq(Octet) /\ Len(ip) = 4
  <2>1. Octets(ip) /\ ~is_forbidden_v4(ip)
    BY <1>1, FieldsOf DEF is_forbidden_ip, Octets
  <2> QED
    BY <1>0, <1>1, <2>1 DEF Public, Unscreened
<1>2. CASE ip \in Seq(Segment) /\ Len(ip) = 8
  <2> SUFFICES ASSUME ~Unscreened(ip) PROVE Public(ip)
    OBVIOUS
  <2>1. Len(ip) # 4
    BY <1>2
  <2>2. /\ is_mapped(ip) \/ is_nat64(ip) => ~is_forbidden_v4(embedded_v4(ip))
        /\ ~is_mapped(ip) /\ ~is_nat64(ip) => ~is_forbidden_v6(ip)
    BY <2>1 DEF is_forbidden_ip
  <2>3. /\ \A b \in Unscreened6 : ~InBlock(ip, b, 16)
        /\ Carries4(ip) => \A b \in Unscreened4 : ~InBlock(embedded_v4(ip), b, 8)
    BY <2>1 DEF Unscreened
  <2>4. \A b \in Special6 : ~InBlock(ip, b, 16)
    BY <1>2, <2>2, <2>3, Blocks6
  <2>5. ASSUME Carries4(ip) PROVE Public4(embedded_v4(ip))
    <3>1. ~is_forbidden_v4(embedded_v4(ip))
      BY <1>2, <2>2, <2>5, Carried DEF Carries4
    <3>2. Octets(embedded_v4(ip))
      BY <1>2, FieldsOf, EmbeddedOctets DEF Segments
    <3> QED
      BY <1>0, <2>3, <2>5, <3>1, <3>2
  <2> QED
    BY <2>1, <2>4, <2>5 DEF Public
<1> QED
  BY <1>1, <1>2 DEF Address

-----------------------------------------------------------------------------
(* What is dialled was permitted when it was dialled. *)
DialInv ==
  \A c \in Calls : /\ pc[c] = "connecting" /\ host[c] # None => ~is_forbidden_ip(host[c])
                   /\ dialled[c] # None => ~is_forbidden_ip(dialled[c])
HttpTypes == /\ host \in [Calls -> Literals \cup {None}]
             /\ dialled \in [Calls -> Address \cup {None}]

(* destination_policy.rs and http_request.rs: for every URL and whatever each   *)
(* of the two lookups answers, a credential is only ever sent to an address      *)
(* outside the special-purpose blocks, or inside one the policy has no           *)
(* predicate for.                                                                *)
THEOREM CredentialsGoToScreened == Spec => []DialsScreened
<1>1. Init => HttpTypes /\ DialInv
  BY DEF Init, HttpTypes, DialInv
<1>2. TypeOK /\ HttpTypes /\ DialInv /\ [Next]_vars => HttpTypes' /\ DialInv'
  <2> SUFFICES ASSUME TypeOK, HttpTypes, DialInv, [Next]_vars PROVE HttpTypes' /\ DialInv'
    OBVIOUS
  <2> USE DEF TypeOK, HttpTypes, DialInv, http
  <2>1. ASSUME NEW c \in Calls, Start(c) PROVE HttpTypes' /\ DialInv'
    BY <2>1 DEF Start, Goto, Fail, Denied
  <2>2. ASSUME NEW c \in Calls, validate(c) PROVE HttpTypes' /\ DialInv'
    BY <2>2 DEF validate, At, Fail, Goto
  <2>3. ASSUME NEW c \in Calls, Connect(c) PROVE HttpTypes' /\ DialInv'
    <3>1. CASE dialled' = dialled
      BY <2>3, <3>1 DEF Connect, At, Fail, Goto
    <3>2. CASE dialled' # dialled
      <4>1. PICK ips \in (IF host[c] # None THEN {{host[c]}} ELSE {screen(ips) : ips \in Answers}) :
              \E ip \in ips : dialled' = [dialled EXCEPT ![c] = ip] /\ pc' = [pc EXCEPT ![c] = "draining"]
        BY <2>3, <3>2 DEF Connect, Goto
      <4>2. PICK ip \in ips : dialled' = [dialled EXCEPT ![c] = ip] /\ pc' = [pc EXCEPT ![c] = "draining"]
        BY <4>1
      <4>3. ip \in Address /\ ~is_forbidden_ip(ip)
        BY <2>3, <4>1, <4>2, ProxyAssumption DEF Connect, At, screen
      <4> QED
        BY <2>3, <4>2, <4>3 DEF Connect
    <3> QED
      BY <3>1, <3>2
  <2>4. ASSUME NEW c \in Calls, Chunk(c) \/ Drained(c) PROVE HttpTypes' /\ DialInv'
    BY <2>4 DEF Chunk, Drained, At, Fail, Goto
  <2>5. ASSUME NEW c \in Calls, Deny(c) \/ Launch(c) \/ Wait(c) \/ Settle(c) \/ Register(c) \/ Audit(c)
        PROVE  HttpTypes' /\ DialInv'
    BY <2>5 DEF Deny, Launch, Wait, Settle, Register, Audit, At, Fail, Goto
  <2>6. ASSUME NEW c \in Calls, Exit(c) \/ Watch(c) \/ WatchRemove(c) \/ HangUp(c)
        PROVE  HttpTypes' /\ DialInv'
    BY <2>6 DEF Exit, Watch, WatchRemove, HangUp, Fail, Goto
  <2>7. ASSUME CloseSession \/ SealOrUnseal \/ Restart PROVE HttpTypes' /\ DialInv'
    BY <2>7 DEF CloseSession, SealOrUnseal, Restart
  <2>8. ASSUME Stop \/ Crash PROVE HttpTypes' /\ DialInv'
    BY <2>8 DEF Stop, Crash, Ended
  <2>9. CASE UNCHANGED vars
    BY <2>9 DEF vars
  <2> QED
    BY <2>1, <2>2, <2>3, <2>4, <2>5, <2>6, <2>7, <2>8, <2>9 DEF Next, Command
<1>3. HttpTypes /\ DialInv => DialsScreened
  BY PermittedIsScreened DEF HttpTypes, DialInv, DialsScreened
<1>4. IInv => TypeOK
  BY DEF IInv
<1> QED
  BY <1>1, <1>2, <1>3, <1>4, IInvHolds, PTL DEF Spec
=============================================================================
