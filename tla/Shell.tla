------------------------------- MODULE Shell -------------------------------
(***************************************************************************)
(* The shell, sh.c: the recursive-descent parser, and which processes      *)
(* runcmd makes of a command, with which descriptors.  A line is a         *)
(* sequence of tokens, as gettoken returns them: "w" for a word ('a' in    *)
(* the code), "+" for >>.                                                  *)
(***************************************************************************)
EXTENDS Integers, Sequences, FiniteSets, SequencesExt, FiniteSetsExt

CONSTANTS
    MAXARGS,
    MaxLine  \* tokens of a line

Token == {"w", "<", "+", "|", "&", ";", "(", ")"}

(* A parser returns the command and the tokens that are left, or panics.   *)
Got(cmd, rest) == [ok |-> TRUE, cmd |-> cmd, rest |-> rest]
Panic == [ok |-> FALSE, cmd |-> [type |-> "none"], rest |-> <<>>]
peek(s, toks) == s # <<>> /\ Head(s) \in toks

execcmd(argc) == [type |-> "EXEC", argc |-> argc]
redircmd(cmd, fd) == [type |-> "REDIR", cmd |-> cmd, fd |-> fd]
pipecmd(l, r) == [type |-> "PIPE", left |-> l, right |-> r]
listcmd(l, r) == [type |-> "LIST", left |-> l, right |-> r]
backcmd(cmd) == [type |-> "BACK", cmd |-> cmd]

(* The execcmd at the bottom of the redirections wrapped around it gets    *)
(* one argument more.                                                      *)
RECURSIVE WithArg(_)
WithArg(cmd) == IF cmd.type = "EXEC" THEN execcmd(cmd.argc + 1) ELSE [cmd EXCEPT !.cmd = WithArg(@)]
RECURSIVE argc(_)
argc(cmd) == IF cmd.type = "EXEC" THEN cmd.argc ELSE argc(cmd.cmd)

RECURSIVE parseredirs(_, _), parseargs(_, _), parseline(_), parsepipe(_), backs(_, _)
parseredirs(cmd, s) ==
    IF ~peek(s, {"<", "+"}) THEN Got(cmd, s)
    ELSE IF ~peek(Tail(s), {"w"}) THEN Panic
    ELSE parseredirs(redircmd(cmd, IF Head(s) = "<" THEN 0 ELSE 1), Tail(Tail(s)))

TooMany(n) == n >= MAXARGS

(* The loop of parseexec.                                                  *)
Stops == {"|", ")", "&", ";"}
parseargs(cmd, s) ==
    IF s = <<>> \/ peek(s, Stops) THEN Got(cmd, s)
    ELSE IF Head(s) # "w" \/ TooMany(argc(cmd) + 1) THEN Panic
    ELSE LET r == parseredirs(WithArg(cmd), Tail(s)) IN IF r.ok THEN parseargs(r.cmd, r.rest) ELSE r

parseblock(s) ==
    LET r == parseline(Tail(s)) IN
    IF ~r.ok \/ ~peek(r.rest, {")"}) THEN Panic ELSE parseredirs(r.cmd, Tail(r.rest))

parseexec(s) ==
    IF peek(s, {"("}) THEN parseblock(s)
    ELSE LET r == parseredirs(execcmd(0), s) IN IF r.ok THEN parseargs(r.cmd, r.rest) ELSE r

parsepipe(s) ==
    LET l == parseexec(s) IN
    IF ~l.ok \/ ~peek(l.rest, {"|"}) THEN l
    ELSE LET r == parsepipe(Tail(l.rest)) IN IF r.ok THEN Got(pipecmd(l.cmd, r.cmd), r.rest) ELSE r

backs(cmd, s) == IF peek(s, {"&"}) THEN backs(backcmd(cmd), Tail(s)) ELSE Got(cmd, s)

parseline(s) ==
    LET p == parsepipe(s) l == backs(p.cmd, p.rest) IN
    IF ~p.ok \/ ~peek(l.rest, {";"}) THEN (IF p.ok THEN l ELSE p)
    ELSE LET r == parseline(Tail(l.rest)) IN IF r.ok THEN Got(listcmd(l.cmd, r.cmd), r.rest) ELSE r

Leftovers(r) == IF r.rest # <<>> THEN Panic ELSE r
parsecmd(s) == Leftovers(parseline(s))

-----------------------------------------------------------------------------
(* runcmd.  fds are the open descriptors 0 .. 2 and those of pipes; a new  *)
(* one is the lowest that is free.  A pipe is named by the place of its    *)
(* command in the line.                                                    *)
none == <<"none", <<>>>>
Lowest(fds) == Min({n \in 0 .. 7 : fds[n] = none})
close(fds, n) == [fds EXCEPT ![n] = none]
opens(fds, f) == [fds EXCEPT ![Lowest(fds)] = f]
dup(fds, n) == opens(fds, fds[n])
pipe(fds, at) == opens(opens(fds, <<"r", at>>), <<"w", at>>)

Child_keeps(fds, n, end, rd, wr) == dup(close(fds, n), end)
Child(fds, n, end, rd, wr) == close(close(dup(close(fds, n), end), rd), wr)

(* The processes that exec, with the place of their command.               *)
RECURSIVE runcmd(_, _, _)
runcmd(cmd, at, fds) ==
    CASE cmd.type = "EXEC" -> IF cmd.argc = 0 THEN {} ELSE {[at |-> at, fds |-> fds]}
      [] cmd.type = "REDIR" -> runcmd(cmd.cmd, Append(at, 0), opens(close(fds, cmd.fd), <<"file", at>>))
      [] cmd.type = "BACK" -> runcmd(cmd.cmd, Append(at, 0), fds)
      [] cmd.type = "LIST" -> runcmd(cmd.left, Append(at, 1), fds) \cup runcmd(cmd.right, Append(at, 2), fds)
      [] cmd.type = "PIPE" ->
            LET rd == Lowest(fds)
                open == pipe(fds, at)
                wr == Lowest(opens(fds, <<"r", at>>))
            IN runcmd(cmd.left, Append(at, 1), Child(open, 1, wr, rd, wr))
               \cup runcmd(cmd.right, Append(at, 2), Child(open, 0, rd, rd, wr))

Console == [n \in 0 .. 7 |-> IF n <= 2 THEN <<"console", <<>>>> ELSE none]

-----------------------------------------------------------------------------
VARIABLE line

Init == line \in BoundedSeq(Token, MaxLine)
Spec == Init /\ [][UNCHANGED line]_line

(* The grammar of commands, by how a line is put together.                 *)
RECURSIVE Line(_), PipeG(_)
Cuts(s) == 0 .. Len(s)
Upto(s, k) == SubSeq(s, 1, k)
From(s, k) == SubSeq(s, k + 1, Len(s))
Redirs(s) == Len(s) % 2 = 0 /\ \A k \in 1 .. Len(s) :
                IF k % 2 = 1 THEN s[k] \in {"<", "+"} ELSE s[k] = "w"
Simple(s) ==
    /\ \A k \in 1 .. Len(s) : s[k] \in {"w", "<", "+"}
    /\ \A k \in 1 .. Len(s) : s[k] \in {"<", "+"} => k < Len(s) /\ s[k + 1] = "w"
    /\ Cardinality({k \in 1 .. Len(s) : s[k] = "w"})
       - Cardinality({k \in 1 .. Len(s) : s[k] # "w"}) < MAXARGS
Block(s) == \E k \in Cuts(s) :
    /\ k >= 2 /\ s[1] = "(" /\ s[k] = ")" /\ Line(SubSeq(s, 2, k - 1)) /\ Redirs(From(s, k))
PipeG(s) == \/ Simple(s) \/ Block(s)
            \/ \E k \in 1 .. Len(s) : s[k] = "|" /\ (Simple(Upto(s, k - 1)) \/ Block(Upto(s, k - 1)))
                                      /\ PipeG(From(s, k))
Line(s) == \E k \in Cuts(s), b \in Cuts(s) :
    /\ k + b <= Len(s) /\ PipeG(Upto(s, k))
    /\ \A j \in k + 1 .. k + b : s[j] = "&"
    /\ From(s, k + b) = <<>> \/ (s[k + b + 1] = ";" /\ Line(From(s, k + b + 1)))

(* The parser takes the lines of the grammar, and no others.               *)
ParsesGrammar == parsecmd(line).ok <=> Line(line)

(* Every process that runs has descriptors 0 to 2 and no other, so a       *)
(* reader sees the end of its input when the writers exit; a pipe end it   *)
(* has is that of the side of the pipe it is on.                           *)
EndsInPlace == LET r == parsecmd(line) IN r.ok =>
    \A p \in runcmd(r.cmd, <<>>, Console) :
        /\ \A n \in 0 .. 7 : p.fds[n] = none <=> n > 2
        /\ \A n \in 0 .. 2 : /\ p.fds[n][1] = "r" => n = 0 /\ IsPrefix(Append(p.fds[n][2], 2), p.at)
                             /\ p.fds[n][1] = "w" => n = 1 /\ IsPrefix(Append(p.fds[n][2], 1), p.at)
=============================================================================
