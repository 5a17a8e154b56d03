----------------------------- MODULE GrantFamily -----------------------------
(***************************************************************************)
(* What the hosted proxy promises of a sign-in's refresh-token family      *)
(* (OAuth 2.1 section 4.3.1, as token.ts cites it): one refresh id is      *)
(* current at a time, it only ever moves forward, only the current one is  *)
(* ever redeemed for the next, and a revoked family never comes back.      *)
(* Nothing is said of requests, awaits or the file.                        *)
(***************************************************************************)
EXTENDS Integers

CONSTANT Grant

VARIABLE family  \* the status of each family, its current refresh id, and those redeemed

None == [status |-> "none", current |-> 0, redeemed |-> {}]

Init == family = [g \in Grant |-> None]

SignIn(g) ==
    /\ family[g] = None
    /\ family' = [family EXCEPT ![g].status = "live"]

(* The first pair of the family, for which no refresh id is redeemed, or the *)
(* rotation to the next.                                                     *)
Rotate(g) ==
    /\ family[g].status = "live"
    /\ family'[g].current > family[g].current
    /\ family' = [family EXCEPT ![g] =
           [ status |-> "live", current |-> family'[g].current,
             redeemed |-> family[g].redeemed \cup ({family[g].current} \ {0}) ]]

Revoke(g) ==
    /\ family[g].status = "live"
    /\ family' = [family EXCEPT ![g] = [status |-> "revoked", current |-> 0, redeemed |-> {}]]

Next == \E g \in Grant : SignIn(g) \/ Rotate(g) \/ Revoke(g)

Spec == Init /\ [][Next]_family
=============================================================================
