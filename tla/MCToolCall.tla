------------------------------ MODULE MCToolCall ------------------------------
(***************************************************************************)
(* ToolCall for TLC: one call in every deployment of a default wiki and a  *)
(* second one, and two calls where they share the queue of commands.       *)
(***************************************************************************)
EXTENDS ToolCall

CONSTANTS c1, c2

Other == CHOOSE w \in Wiki : w # Default
Open == [oauth |-> FALSE, static |-> FALSE, private |-> FALSE, readOnly |-> FALSE]

Deployed ==
    {d \in Deployment : /\ d.wiki[Other].readOnly = FALSE
                        /\ d.transport = "stdio" => ~d.proxy /\ ~d.passthrough /\ ~d.fallback
                        /\ d.proxy => d.wiki[Default].oauth}

SharedIdentity ==
    [transport |-> "http", proxy |-> FALSE, passthrough |-> FALSE, fallback |-> TRUE,
     wiki |-> [w \in Wiki |-> [Open EXCEPT !.static = TRUE]]]

Scenes ==
    {[dep |-> d, calls |-> {c1}, tools |-> {"read", "packWrite"}] : d \in Deployed}
      \cup {[dep |-> SharedIdentity, calls |-> {c1, c2}, tools |-> {"write"}]}
===============================================================================
