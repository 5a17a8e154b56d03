---------------------------- MODULE MCHttpService -----------------------------
(***************************************************************************)
(* HttpService for TLC.  The limiter does not meet the probe and the       *)
(* shutdown, so each scene lets the environment exercise one of them.      *)
(***************************************************************************)
EXTENDS HttpService

Quiet == [limited |-> FALSE, forwarding |-> FALSE, kinds |-> {}, requests |-> 0,
          polls |-> FALSE, signals |-> 0]

Scenes ==
    {[Quiet EXCEPT !.limited = TRUE, !.forwarding = f, !.kinds = {"call"}, !.requests = 2]
       : f \in BOOLEAN}
      \cup {[Quiet EXCEPT !.polls = TRUE],
            [Quiet EXCEPT !.signals = 2, !.requests = 3,
                          !.kinds = {"plain", "listen", "foreign", "malformed"}]}
===============================================================================
