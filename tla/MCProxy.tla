------------------------------ MODULE MCProxy ------------------------------
(* Proxy on a small instance: a call of any command next to a tunnel; the     *)
(* literals lie on both sides of the bounds of every special-purpose block.   *)
EXTENDS Proxy, TLC

CONSTANTS c1, c2
MCOpsOf == (c1 :> Ops) @@ (c2 :> {"port_forward"})
Near(a) == {<<a, 0, 0, 0>>, <<a, 255, 255, 255>>}
MCLiterals ==
  UNION {Near(a) : a \in {0, 1, 9, 10, 11, 126, 127, 128, 223, 224, 239, 240, 255}}
    \cup {<<100, b, 0, 1>> : b \in {63, 64, 127, 128}} \cup {<<172, b, 9, 9>> : b \in {15, 16, 31, 32}}
    \cup {<<169, b, 169, 254>> : b \in {253, 254, 255}} \cup {<<192, b, 1, 1>> : b \in {167, 168, 169}}
    \cup {<<192, 0, b, 7>> : b \in 0..3} \cup {<<198, b, 100, 7>> : b \in {17, 18, 19, 20, 51}}
    \cup {<<203, 0, b, 1>> : b \in {112, 113, 114}}
    \cup {<<s, 0, 0, 0, 0, 0, 0, b>> : s \in {0, 8193, 64511, 64512, 65023, 65024, 65151, 65152, 65215,
                                               65216, 65279, 65280, 65535}, b \in 0..2}
    \cup {<<0, 0, 0, 0, 0, 65535, 2560, b>> : b \in 0..1} \cup {<<100, 65435, 0, 0, 0, 0, 2815, 1>>,
           <<100, 65435, 0, 0, 0, 0, 2560, 1>>, <<100, 65435, 0, 0, 0, 1, 2560, 1>>}
    \cup {<<192, 88, b, 1>> : b \in 98..100} \cup {<<100, 65435, 0, 0, 0, 0, 49240, 25345>>}
    \cup {<<s, 0, 0, b, 0, 0, 0, 1>> : s \in {256, 8192, 8194, 8195, 16367, 16383, 24319, 24320}, b \in 0..2}
    \cup {<<8193, b, 0, 0, 0, 0, 0, 1>> : b \in {511, 512, 3511, 3512, 3513}}
    \cup {<<0, 0, 0, 0, 0, 0, 32512, 1>>, <<100, 65435, 1, 0, 0, 0, 2560, 1>>}
MCAnswers == SUBSET {<<93, 184, 216, 34>>, <<169, 254, 169, 254>>, <<0, 0, 0, 0, 0, 65535, 32512, 1>>} \ {{}}
=============================================================================
