---------------------------- MODULE RevealRequest ----------------------------
(***************************************************************************)
(* The life of one reveal as the access-mediation domain defines it: the   *)
(* RevealRequest aggregate (reveal_request.rs). It is the abstract          *)
(* specification that module Reveal is shown to implement, once per request.*)
(***************************************************************************)
CONSTANTS Challenges, NoChallenge

VARIABLES state,        \* RevealState
          challenge,    \* the challenge that was issued, or NoChallenge
          resolution    \* the challenge the recorded resolution answers

vars == <<state, challenge, resolution>>

Terminal == {"Approved", "Denied", "Expired"}
States == {"Pending", "AwaitingOob"} \cup Terminal

Init == /\ state = "Pending"
        /\ challenge = NoChallenge
        /\ resolution = NoChallenge

IssueChallenge(ch) ==
  /\ state = "Pending"
  /\ challenge' = ch
  /\ state' = "AwaitingOob"
  /\ UNCHANGED resolution

(* A resolution names the challenge it answers; one for another challenge is *)
(* refused (ChallengeMismatch), and so is any once the request is terminal.  *)
Resolve(res, allowed) ==
  /\ state \in {"Pending", "AwaitingOob"}
  /\ challenge = NoChallenge \/ challenge = res
  /\ state' = IF allowed THEN "Approved" ELSE "Denied"
  /\ resolution' = res
  /\ UNCHANGED challenge

Expire ==
  /\ state \notin Terminal
  /\ state' = "Expired"
  /\ UNCHANGED <<challenge, resolution>>

Next == \/ \E ch \in Challenges : IssueChallenge(ch)
        \/ \E res \in Challenges \cup {NoChallenge}, allowed \in BOOLEAN : Resolve(res, allowed)
        \/ Expire

Spec == Init /\ [][Next]_vars
==============================================================================
