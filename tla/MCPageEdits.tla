---------------------------- MODULE MCPageEdits --------------------------------
(***************************************************************************)
(* The page of the runs: a lead, a section and its subsection.  The piece q *)
(* transcludes a heading of the section's level: when somebody adds it to   *)
(* the section, it stands before the subsection.  The sources               *)
(* are the section renamed, the section without its subsection, a section   *)
(* with a sibling, text without a heading, and the whole page shortened.    *)
(***************************************************************************)
EXTENDS PageEdits

CONSTANTS c1, p, q

Part(level, body) == [level |-> level, body |-> body]

MCShows == [x \in Piece |-> IF x = q THEN {2} ELSE {}]

MCFirst == <<Part(0, <<q>>), Part(2, <<p>>), Part(3, <<p, q>>)>>

MCSource == {<<Part(2, <<p>>), Part(3, <<>>)>>,
             <<Part(2, <<q, q, q>>)>>,
             <<Part(2, <<>>), Part(2, <<q>>)>>,
             <<Part(3, <<q>>)>>,
             <<Part(0, <<p>>)>>}
===============================================================================
