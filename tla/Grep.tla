-------------------------------- MODULE Grep --------------------------------
(***************************************************************************)
(* grep.c: the matcher for ^ . * $ and the loop that cuts what read        *)
(* returns into lines.                                                     *)
(***************************************************************************)
EXTENDS Integers, Sequences, SequencesExt

CONSTANTS
    Letter, MaxPattern, MaxText,
    MaxChunks  \* reads until the end of the file

Symbol == Letter \cup {".", "*", "^", "$"}

-----------------------------------------------------------------------------
(* The matcher.                                                            *)
At(s, k) == IF k <= Len(s) THEN s[k] ELSE "nul"
Is(c, t) == t # "nul" /\ (c = "." \/ c = t)

RECURSIVE matchhere(_, _), matchstar(_, _, _)
matchhere(re, text) ==
    IF re = <<>> THEN TRUE
    ELSE IF At(re, 2) = "*" THEN matchstar(re[1], SubSeq(re, 3, Len(re)), text)
    ELSE IF re = <<"$">> THEN text = <<>>
    ELSE Is(re[1], At(text, 1)) /\ matchhere(Tail(re), Tail(text))

Repeats(c, text) == Is(c, At(text, 1))
matchstar(c, re, text) ==
    \/ matchhere(re, text)
    \/ Repeats(c, text) /\ matchstar(c, re, Tail(text))

RECURSIVE search(_, _)
search(re, text) == matchhere(re, text) \/ (text # <<>> /\ search(re, Tail(text)))
match(re, text) == IF At(re, 1) = "^" THEN matchhere(Tail(re), text) ELSE search(re, text)

-----------------------------------------------------------------------------
(* The loop of grep, a read at a time: buf holds what no newline ended; a  *)
(* buffer without a newline is thrown away.                                *)
Newlines(s) == {k \in 1 .. Len(s) : s[k] = "\n"}
RECURSIVE LinesIn(_)
LinesIn(s) ==
    IF Newlines(s) = {} THEN <<>>
    ELSE LET q == CHOOSE k \in Newlines(s) : \A j \in Newlines(s) : k <= j
         IN <<SubSeq(s, 1, q - 1)>> \o LinesIn(SubSeq(s, q + 1, Len(s)))

Unended(s) == SelectInSeq(Reverse(s), LAMBDA c : c = "\n")
Kept_all(buf) == <<>>
Kept(buf) == IF Newlines(buf) = {} THEN <<>> ELSE SubSeq(buf, Len(buf) - Unended(buf) + 2, Len(buf))

RECURSIVE grep(_, _, _)
grep(re, buf, chunks) ==
    IF chunks = <<>> THEN <<>>
    ELSE LET b == buf \o Head(chunks)
         IN SelectSeq(LinesIn(b), LAMBDA t : match(re, t)) \o grep(re, Kept(b), Tail(chunks))

-----------------------------------------------------------------------------
VARIABLES pattern, input

grepVars == <<pattern, input>>

Chunk == {c \in BoundedSeq(Letter \cup {"\n"}, MaxText) : c # <<>>}
Init ==
    \/ /\ pattern \in BoundedSeq(Symbol, MaxPattern)
       /\ input \in {<<t>> : t \in BoundedSeq(Letter, MaxText)}
    \/ /\ pattern \in {<<l>> : l \in Letter}
       /\ input \in BoundedSeq(Chunk, MaxChunks)
Spec == Init /\ [][UNCHANGED grepVars]_grepVars

(* What a pattern means, as an automaton: the places of a pattern that can *)
(* come next once some text was read.                                      *)
Starred(k) == At(pattern, k + 1) = "*"
Past(k) == IF Starred(k) THEN k + 2 ELSE k + 1
RECURSIVE Skips(_)
Skips(k) == IF k <= Len(pattern) /\ Starred(k) THEN {k} \cup Skips(k + 2) ELSE {k}
Ending(k) == k = Len(pattern) /\ pattern[k] = "$"
Reads(k, c) == k <= Len(pattern) /\ ~Ending(k) /\ Is(pattern[k], c)
Step(S, c) == UNION {IF Starred(k) THEN Skips(k) ELSE Skips(Past(k)) : k \in {j \in S : Reads(j, c)}}
Anchored == At(pattern, 1) = "^"
Start == Skips(IF Anchored THEN 2 ELSE 1)
RECURSIVE After(_, _)
After(S, text) == IF text = <<>> THEN S
    ELSE After(Step(S, Head(text)) \cup IF Anchored THEN {} ELSE Start, Tail(text))

(* match finds a pattern exactly where the pattern occurs: some prefix of  *)
(* the text leads past its end, or all of it to its final $.               *)
MatchRight == Len(input) = 1 /\ Newlines(input[1]) = {} =>
    (match(pattern, input[1]) <=>
        \/ \E k \in 0 .. Len(input[1]) : Len(pattern) + 1 \in After(Start, SubSeq(input[1], 1, k))
        \/ \E k \in After(Start, input[1]) : Ending(k))

(* When every read returns a newline, what grep prints is the lines of the *)
(* file that match, however the reads cut it.  (A read without one, of a   *)
(* pipe or a line longer than the buffer, loses the text it returned.)     *)
PrintsLines == (\A k \in 1 .. Len(input) : Newlines(input[k]) # {}) =>
    grep(pattern, <<>>, input) = SelectSeq(LinesIn(FlattenSeq(input)), LAMBDA t : match(pattern, t))
=============================================================================
