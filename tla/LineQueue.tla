----------------------------- MODULE LineQueue -----------------------------
(***************************************************************************)
(* What the console promises its readers: characters that were entered     *)
(* stay in order in a queue; characters still being edited can be taken    *)
(* back, those entered cannot.                                             *)
(***************************************************************************)
EXTENDS Naturals, Sequences, SequencesExt

CONSTANTS Char
VARIABLES queue, edit

Init == queue = <<>> /\ edit = <<>>

Key(c) ==
    \/ edit' = Append(edit, c) /\ UNCHANGED queue
    \/ edit' = <<>> /\ queue' = queue \o Append(edit, c)
TakeBack == queue' = queue /\ edit # <<>> /\ IsStrictPrefix(edit', edit)
Read == edit' = edit /\ queue # <<>> /\ IsStrictSuffix(queue', queue)

Next == (\E c \in Char : Key(c)) \/ TakeBack \/ Read

Spec == Init /\ [][Next]_<<queue, edit>>
=============================================================================
