------------------------------- MODULE Names -------------------------------
(***************************************************************************)
(* Path elements and directory entry names: skipelem, namecmp and the name *)
(* that dirlink stores (fs.c), with strncmp, strncpy, safestrcpy and       *)
(* memmove of string.c.  A buffer of n characters is a function on         *)
(* 0 .. n - 1; "nul" ends a string, if it is there.                        *)
(***************************************************************************)
EXTENDS Integers, Sequences, SequencesExt

CONSTANTS DIRSIZ, Letter, MaxPath

nul == "nul"
Buffer == [0 .. DIRSIZ - 1 -> Letter \cup {nul}]
Char(s, k) == IF k < Len(s) THEN s[k + 1] ELSE nul
From(s, k) == SubSeq(s, k + 1, Len(s))
Least(S) == CHOOSE k \in S : \A j \in S : k <= j

-----------------------------------------------------------------------------
(* memmove within a memory, forward or backward as the ranges overlap.     *)
Copies(m, d, s, order) ==
    FoldLeft(LAMBDA mem, k : [mem EXCEPT ![d + k] = mem[s + k]], m, order)
Forward(n) == [k \in 1 .. n |-> k - 1]
Overlap(d, s, n) == s < d /\ s + n > d
memmove(m, d, s, n) == Copies(m, d, s, IF Overlap(d, s, n) THEN Reverse(Forward(n)) ELSE Forward(n))

(* strncmp of two buffers; TRUE for equal.                                 *)
strncmp(p, q, n) ==
    LET stop == {k \in 0 .. n - 1 : p[k] = nul \/ p[k] # q[k]}
    IN stop = {} \/ p[Least(stop)] = q[Least(stop)]
namecmp(p, q) == strncmp(p, q, DIRSIZ)

(* strncpy of a string of at most n characters, and safestrcpy.            *)
strncpy(o, p, n) == [k \in 0 .. n - 1 |-> IF \E j \in 0 .. k - 1 : p[j] = nul THEN nul ELSE p[k]]
safestrcpy(o, p, n) ==
    [k \in 0 .. n - 1 |-> IF \E j \in 0 .. k - 2 : p[j] = nul THEN o[k]
                          ELSE IF k = n - 1 \/ (k > 0 /\ p[k - 1] = nul) THEN nul ELSE p[k]]

(* skipelem(path, name): the rest of the path, and name.                   *)
Slashes(path) == Least({k \in 0 .. Len(path) : Char(path, k) # "/"})
ElemLen(path) == Least({k \in 0 .. Len(path) : Char(path, k) \in {"/", nul}})
NoElem(path) == From(path, Slashes(path)) = <<>>

EndsName_not(len) == FALSE
EndsName(len) == len < DIRSIZ
Named(old, s, len) ==
    [k \in 0 .. DIRSIZ - 1 |-> IF k < len THEN Char(s, k) ELSE IF k = len /\ EndsName(len) THEN nul ELSE old[k]]
skipelem(path, old) ==
    LET s == From(path, Slashes(path)) rest == From(s, ElemLen(s))
    IN [name |-> Named(old, s, ElemLen(s)), path |-> From(rest, Slashes(rest))]

RECURSIVE Elems(_, _)
Elems(path, old) ==
    IF NoElem(path) THEN <<>>
    ELSE LET r == skipelem(path, old) IN <<r.name>> \o Elems(r.path, r.name)

-----------------------------------------------------------------------------
VARIABLES path, old

namVars == <<path, old>>

Init == /\ path \in BoundedSeq(Letter \cup {"/"}, MaxPath)
        /\ old \in Buffer
Spec == Init /\ [][UNCHANGED namVars]_namVars

(* The elements of a path, by where the slashes are; and a string's first  *)
(* DIRSIZ characters.                                                      *)
Starts == {k \in 0 .. Len(path) - 1 : Char(path, k) # "/" /\ (k = 0 \/ Char(path, k - 1) = "/")}
Text(k) == [j \in 0 .. DIRSIZ - 1 |->
    IF \E i \in k .. k + j : Char(path, i) \in {"/", nul} THEN nul ELSE Char(path, k + j)]
SortedStarts == SetToSortSeq(Starts, LAMBDA x, y : x < y)
UpToNul(b) == [j \in 0 .. DIRSIZ - 1 |-> IF \E i \in 0 .. j : b[i] = nul THEN nul ELSE b[j]]

(* skipelem yields each element once and in order, whatever name held.     *)
SkipsRight == LET es == Elems(path, old) IN
    /\ Len(es) = Len(SortedStarts)
    /\ \A i \in 1 .. Len(es) : UpToNul(es[i]) = Text(SortedStarts[i])

(* What dirlink stores for a name is found by that name, and by no name    *)
(* that differs in its first DIRSIZ characters, whatever de held before.   *)
FoundAgain == \A i \in 1 .. Len(Elems(path, old)) :
    LET name == Elems(path, old)[i] de == strncpy(old, name, DIRSIZ) IN
    /\ namecmp(name, de)
    /\ namecmp(old, de) <=> UpToNul(old) = UpToNul(name)
    /\ de = UpToNul(name)

(* memmove copies what was there before, when source and target overlap;   *)
(* safestrcpy ends its copy.                                               *)
MovesRight ==
    /\ \A d, s \in 0 .. DIRSIZ - 1 : \A n \in 0 .. DIRSIZ :
        d + n <= DIRSIZ /\ s + n <= DIRSIZ =>
            \A k \in 0 .. n - 1 : memmove(old, d, s, n)[d + k] = old[s + k]
    /\ nul \in {safestrcpy(old, old, DIRSIZ)[k] : k \in 0 .. DIRSIZ - 1}
=============================================================================
