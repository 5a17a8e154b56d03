---------------------------- MODULE CredentialStore ----------------------------
(***************************************************************************)
(* What the credentials file promises the code that writes it: a write     *)
(* asked for takes effect on the file as it is at that moment, in the      *)
(* order of asking, and changes the entry of its own key and nothing else, *)
(* unless it fails or its process ends first.                              *)
(***************************************************************************)
EXTENDS Sequences

CONSTANTS Process, Key, Entry

VARIABLES
    file,    \* the entry of every key
    writes   \* the writes each process has asked for and not finished

(* A write puts its entry under its key; deleting puts the absent entry. *)
Write == [key: Key, entry: Entry]

Init ==
    /\ file \in [Key -> Entry]
    /\ writes = [p \in Process |-> <<>>]

(* The writes in rest remain; a finished write may be followed by *)
(* the next one at once.                                                    *)
Leaves(p, rest) ==
    \/ writes' = [writes EXCEPT ![p] = rest]
    \/ \E w \in Write : writes' = [writes EXCEPT ![p] = Append(rest, w)]

Ask(p) == Leaves(p, writes[p]) /\ UNCHANGED file

TakeEffect(p) ==
    /\ writes[p] # <<>>
    /\ file' = [file EXCEPT ![Head(writes[p]).key] = Head(writes[p]).entry]
    /\ Leaves(p, Tail(writes[p]))

Fail(p) ==
    /\ writes[p] # <<>>
    /\ Leaves(p, Tail(writes[p]))
    /\ UNCHANGED file

End(p) == writes' = [writes EXCEPT ![p] = <<>>] /\ UNCHANGED file

Next == \E p \in Process : Ask(p) \/ TakeEffect(p) \/ Fail(p) \/ End(p)

Spec == Init /\ [][Next]_<<file, writes>>
=============================================================================
