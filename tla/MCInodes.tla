------------------------------ MODULE MCInodes ------------------------------
(* The calls of the processes in the runs of Inodes.                       *)
EXTENDS Inodes, TLC

CONSTANTS p1, p2

Call(op, path) == [op |-> op, path |-> path, new |-> <<>>]
LinkTo(path, new) == [op |-> "link", path |-> path, new |-> new]

(* One process makes, enters and removes a directory and links a file into *)
(* it; the other creates, opens and removes that file.  Linking a          *)
(* directory and removing "/" fail.                                        *)
Apart == (p1 :> {Call("mkdir", <<"d">>), Call("unlink", <<"d">>), LinkTo(<<"/", "x">>, <<"d", "x">>),
                 LinkTo(<<"/">>, <<"d", "x">>), Call("unlink", <<"d", "x">>),
                 Call("chdir", <<"d">>), Call("unlink", <<"/">>)})
      @@ (p2 :> {Call("create", <<"x">>), Call("open", <<"..", "x">>), Call("unlink", <<"x">>)})

(* Two processes open, close and remove the same file.                     *)
Shared == [p \in {p1, p2} |-> {Call("create", <<"x">>), Call("open", <<"x">>), Call("unlink", <<"x">>)}]
=============================================================================
