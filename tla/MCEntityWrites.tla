--------------------------- MODULE MCEntityWrites ------------------------------
(***************************************************************************)
(* The calls of the runs, one of each kind a branch of the code tells      *)
(* apart: the item q1 carries the default ID of the one role r, q2 and q3  *)
(* are created.                                                            *)
(***************************************************************************)
EXTENDS EntityWrites, TLC

CONSTANTS q1, q2, q3, ada, bob, page, r, c1, c2

MCDefault == [x \in {r} |-> q1]

Edit(target, label, text, value, link) ==
    [NoArgs EXCEPT !.target = target, !.label = label, !.text = text, !.value = value, !.link = link]

MCEdits ==
    {[Edit(q1, ada, bob, None, None) EXCEPT !.alias = bob], Edit(q1, None, None, None, None),
     Edit(q1, None, None, bob, page),
     Edit(None, ada, None, bob, None), Edit(None, None, bob, None, None),
     [Edit(q1, ada, None, bob, None) EXCEPT !.clear = TRUE],
     [Edit(q1, ada, None, bob, page) EXCEPT !.odd = TRUE],
     [Edit(q1, None, None, None, page) EXCEPT !.tool = "setsitelink"]}
    \cup {[Edit(q1, None, None, bob, None) EXCEPT !.tool = "add-statement", !.kind = k] :
            k \in {"missing", "none", "other", "text"}}

MCSubjects ==
    {[NoArgs EXCEPT !.tool = t, !.link = page] : t \in SubjectTool}
    \cup {[NoArgs EXCEPT !.tool = "describe", !.kind = k] : k \in {"all", "semantic-entity"}}

Add(tool, confirm, collision) ==
    [NoArgs EXCEPT !.tool = tool, !.label = ada, !.value = bob, !.confirm = confirm, !.collision = collision]

MCAdds ==
    {Add("add-citation-source", TRUE, a) : a \in {"reuse", "delete"}}
    \cup {[Add("add-semantic-entity", TRUE, "none") EXCEPT !.language = ada],
          [Add("add-semantic-entity", FALSE, "none") EXCEPT !.target = q1],
          Add("add-special-content", FALSE, "none")}

MCSymmetry == Permutations(Call)

MCArgs == MCEdits \cup MCSubjects \cup MCAdds
===============================================================================
