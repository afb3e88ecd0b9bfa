------------------------------- MODULE Egress -------------------------------
(***************************************************************************)
(* The destination policy of outbound HTTP: which addresses a request that   *)
(* carries a credential may go to. An address is a tuple of 4 octets or of   *)
(* 8 segments of 16 bits.                                                    *)
(***************************************************************************)
EXTENDS Integers, Sequences

Octet == 0..255
Segment == 0..65535
Address == {ip \in Seq(Octet) : Len(ip) = 4} \cup {ip \in Seq(Segment) : Len(ip) = 8}

is_shared_v4(ip)        == ip[1] = 100 /\ ip[2] \in 64..127
is_this_network_v4(ip)  == ip[1] = 0
is_ietf_protocol_v4(ip) == ip[1] = 192 /\ ip[2] = 0 /\ ip[3] = 0
is_benchmarking_v4(ip)  == ip[1] = 198 /\ ip[2] \in {18, 19}
is_reserved_class_e(ip) == ip[1] >= 240

(* Of the standard library: loopback, private, link-local, multicast,        *)
(* broadcast, unspecified and documentation.                                 *)
std_special_v4(ip) ==
  \/ ip[1] = 127
  \/ ip[1] = 10
  \/ ip[1] = 172 /\ ip[2] \in 16..31
  \/ ip[1] = 192 /\ ip[2] = 168
  \/ ip[1] = 169 /\ ip[2] = 254
  \/ ip[1] \in 224..239
  \/ ip = <<255, 255, 255, 255>> \/ ip = <<0, 0, 0, 0>>
  \/ <<ip[1], ip[2], ip[3]>> \in {<<192, 0, 2>>, <<198, 51, 100>>, <<203, 0, 113>>}

is_forbidden_v4(ip) ==
  \/ std_special_v4(ip) \/ is_shared_v4(ip) \/ is_this_network_v4(ip)
  \/ is_ietf_protocol_v4(ip) \/ is_benchmarking_v4(ip) \/ is_reserved_class_e(ip)

is_forbidden_v6(s) ==
  \/ s = <<0, 0, 0, 0, 0, 0, 0, 1>> \/ s = <<0, 0, 0, 0, 0, 0, 0, 0>>
  \/ s[1] \div 256 = 255
  \/ s[1] \div 512 = 64512 \div 512       \* segments[0] & 0xfe00 = 0xfc00
  \/ s[1] \div 64 = 65152 \div 64         \* segments[0] & 0xffc0 = 0xfe80

embedded_v4(s) == <<s[7] \div 256, s[7] % 256, s[8] \div 256, s[8] % 256>>
is_mapped(s) == SubSeq(s, 1, 6) = <<0, 0, 0, 0, 0, 65535>>
is_nat64(s)  == SubSeq(s, 1, 6) = <<100, 65435, 0, 0, 0, 0>>

is_forbidden_ip(ip) ==
  IF Len(ip) = 4 THEN is_forbidden_v4(ip)
  ELSE IF is_mapped(ip) \/ is_nat64(ip) THEN is_forbidden_v4(embedded_v4(ip))
  ELSE is_forbidden_v6(ip)

-----------------------------------------------------------------------------
(* The reference: the blocks of the IANA special-purpose address registries   *)
(* that are not globally reachable, multicast, and the deprecated forms of     *)
(* RFC 3879, 4291 and 7526, each a network and the length of its prefix.       *)

InBlock(ip, block, width) ==
  \A i \in DOMAIN ip :
    LET k == block.len - width * (i - 1)
        low == IF k >= width THEN 1 ELSE 2 ^ (width - k)
    IN  k > 0 => ip[i] \div low = block.net[i] \div low

Block(net, len) == [net |-> net, len |-> len]
Special4 ==
  {Block(<<0, 0, 0, 0>>, 8), Block(<<10, 0, 0, 0>>, 8), Block(<<100, 64, 0, 0>>, 10),
   Block(<<127, 0, 0, 0>>, 8), Block(<<169, 254, 0, 0>>, 16), Block(<<172, 16, 0, 0>>, 12),
   Block(<<192, 0, 0, 0>>, 24), Block(<<192, 0, 2, 0>>, 24),
   Block(<<192, 88, 99, 0>>, 24),                         \* 6to4 relays
   Block(<<192, 168, 0, 0>>, 16), Block(<<198, 18, 0, 0>>, 15), Block(<<198, 51, 100, 0>>, 24),
   Block(<<203, 0, 113, 0>>, 24), Block(<<224, 0, 0, 0>>, 4), Block(<<240, 0, 0, 0>>, 4)}
Special6 ==
  {Block(<<0, 0, 0, 0, 0, 0, 0, 0>>, 127),                \* unspecified, loopback
   Block(<<0, 0, 0, 0, 0, 0, 0, 0>>, 96),                 \* IPv4-compatible
   Block(<<100, 65435, 1, 0, 0, 0, 0, 0>>, 48),           \* 64:ff9b:1::, local NAT64
   Block(<<256, 0, 0, 0, 0, 0, 0, 0>>, 64),               \* 100::, discard only
   Block(<<256, 0, 0, 1, 0, 0, 0, 0>>, 64),               \* 100:0:0:1::, dummy
   Block(<<8193, 0, 0, 0, 0, 0, 0, 0>>, 23),              \* 2001::, IETF protocols, Teredo
   Block(<<8193, 3512, 0, 0, 0, 0, 0, 0>>, 32),           \* 2001:db8::, documentation
   Block(<<8194, 0, 0, 0, 0, 0, 0, 0>>, 16),              \* 2002::, 6to4
   Block(<<16383, 0, 0, 0, 0, 0, 0, 0>>, 20),             \* 3fff::, documentation
   Block(<<24320, 0, 0, 0, 0, 0, 0, 0>>, 16),             \* 5f00::, segment routing
   Block(<<64512, 0, 0, 0, 0, 0, 0, 0>>, 7), Block(<<65152, 0, 0, 0, 0, 0, 0, 0>>, 10),
   Block(<<65216, 0, 0, 0, 0, 0, 0, 0>>, 10),             \* fec0::, site-local
   Block(<<65280, 0, 0, 0, 0, 0, 0, 0>>, 8)}
Carrying4 == {Block(<<0, 0, 0, 0, 0, 65535, 0, 0>>, 96), Block(<<100, 65435, 0, 0, 0, 0, 0, 0>>, 96)}

Carries4(ip) == \E b \in Carrying4 : InBlock(ip, b, 16)
Public4(ip) == \A b \in Special4 : ~InBlock(ip, b, 8)
Public(ip) ==
  IF Len(ip) = 4 THEN Public4(ip)
  ELSE /\ \A b \in Special6 : ~InBlock(ip, b, 16)
       /\ Carries4(ip) => Public4(embedded_v4(ip))

(* The blocks of the reference that no predicate of the policy is about. *)
Unscreened4 == {Block(<<192, 88, 99, 0>>, 24)}
Unscreened6 ==
  {Block(<<0, 0, 0, 0, 0, 0, 0, 0>>, 96), Block(<<100, 65435, 1, 0, 0, 0, 0, 0>>, 48),
   Block(<<256, 0, 0, 0, 0, 0, 0, 0>>, 64), Block(<<256, 0, 0, 1, 0, 0, 0, 0>>, 64),
   Block(<<8193, 0, 0, 0, 0, 0, 0, 0>>, 23), Block(<<8193, 3512, 0, 0, 0, 0, 0, 0>>, 32),
   Block(<<8194, 0, 0, 0, 0, 0, 0, 0>>, 16), Block(<<16383, 0, 0, 0, 0, 0, 0, 0>>, 20),
   Block(<<24320, 0, 0, 0, 0, 0, 0, 0>>, 16), Block(<<65216, 0, 0, 0, 0, 0, 0, 0>>, 10)}
Unscreened(ip) ==
  IF Len(ip) = 4 THEN \E b \in Unscreened4 : InBlock(ip, b, 8)
  ELSE \/ \E b \in Unscreened6 : InBlock(ip, b, 16)
       \/ Carries4(ip) /\ \E b \in Unscreened4 : InBlock(embedded_v4(ip), b, 8)
=============================================================================
