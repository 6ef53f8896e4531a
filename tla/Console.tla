------------------------------ MODULE Console ------------------------------
(***************************************************************************)
(* console.c: the input buffer that the keyboard and serial interrupts     *)
(* fill and edit and that readers drain, and the cursor of the screen.     *)
(* Every access to both is under cons.lock, so a handler, a read up to its *)
(* next sleep, and a write are one step each.                              *)
(***************************************************************************)
EXTENDS Integers, Sequences, FiniteSets

CONSTANTS
    Reader,
    INPUT_BUF,
    Modulus,     \* r, w and e wrap at it: 2^32 in the code
    COLS, ROWS,  \* 80 and 25
    Sizes        \* of reads

Char == {"a", "\n", "^D"}
Key == Char \cup {"^U", "^H", "^P"}

VARIABLES
    buf, r, w, e,     \* input
    pos,              \* cursor: col + COLS * row
    reader,           \* state, bytes still wanted, bytes asked for, result
    killed

conVars == <<buf, r, w, e, pos, reader, killed>>

Wrapped(n) == n % Modulus
Held(a, b) == Wrapped(b - a)
At(i) == buf[i % INPUT_BUF]
Text(a, b) == [k \in 1 .. Held(a, b) |-> At(a + k - 1)]

-----------------------------------------------------------------------------
(* cgaputc: move the cursor, and scroll when it is on the last row.        *)
Scrolled(q) == IF q \div COLS >= ROWS - 1 THEN q - COLS ELSE q
cgaputc(q, c) ==
    Scrolled(CASE c = "\n" -> q + COLS - (q % COLS)
               [] c = "BACKSPACE" -> IF q > 0 THEN q - 1 ELSE q
               [] OTHER -> q + 1)

Erased[q \in Int, n \in Nat] == IF n = 0 THEN q ELSE Erased[cgaputc(q, "BACKSPACE"), n - 1]

-----------------------------------------------------------------------------
(* consoleintr, for each key that kbdgetc or uartgetc returns.             *)
KilledChars_all == Held(r, e)
KilledChars ==  \* "^U" goes back to w or to just after a newline
    CHOOSE n \in 0 .. Held(w, e) :
        /\ n = Held(w, e) \/ At(e - n - 1) = "\n"
        /\ \A k \in 0 .. n - 1 : At(e - k - 1) # "\n"

Enters_newline(c) == c \in {"\n", "^D"}
Enters(c) == c \in {"\n", "^D"} \/ Wrapped(e + 1) = Wrapped(r + INPUT_BUF)

Woken == [p \in Reader |-> [reader[p] EXCEPT !.state = IF @ = "asleep" THEN "reading" ELSE @]]

HasRoom == Held(r, e) < INPUT_BUF

consoleintr(c) ==
    \/ /\ c = "^P"  \* procdump, once the lock is released
       /\ UNCHANGED conVars
    \/ /\ c = "^U"
       /\ e' = Wrapped(e - KilledChars)
       /\ pos' = Erased[pos, KilledChars]
       /\ UNCHANGED <<buf, r, w, reader, killed>>
    \/ /\ c = "^H" /\ e # w
       /\ e' = Wrapped(e - 1)
       /\ pos' = cgaputc(pos, "BACKSPACE")
       /\ UNCHANGED <<buf, r, w, reader, killed>>
    \/ /\ c \in Char /\ HasRoom
       /\ buf' = [buf EXCEPT ![e % INPUT_BUF] = c]
       /\ e' = Wrapped(e + 1)
       /\ pos' = cgaputc(pos, c)
       /\ \/ Enters(c) /\ w' = Wrapped(e + 1) /\ reader' = Woken
          \/ ~Enters(c) /\ UNCHANGED <<w, reader>>
       /\ UNCHANGED <<r, killed>>

-----------------------------------------------------------------------------
(* consoleread: until a newline, a ^D, or all that was asked for; with     *)
(* nothing left it sleeps, or returns -1 if it is killed.                  *)
Ends(p, k) == At(r + k - 1) \in {"\n", "^D"} \/ k = reader[p].n
EndsAt(p) == {k \in 1 .. Held(r, w) : Ends(p, k) /\ \A j \in 1 .. k - 1 : ~Ends(p, j)}

(* A ^D after other bytes stays for the next read, which returns 0.        *)
PutBack(p, k) == At(r + k - 1) = "^D" /\ reader[p].n - (k - 1) < reader[p].target

consoleread_begins(p, n) ==
    /\ reader[p].state = "idle"
    /\ reader' = [reader EXCEPT ![p] = [state |-> "reading", n |-> n, target |-> n, result |-> -1]]
    /\ UNCHANGED <<buf, r, w, e, pos, killed>>

consoleread(p) ==
    /\ reader[p].state = "reading"
    /\ \/ \E k \in EndsAt(p) :
            /\ r' = Wrapped(r + k - IF PutBack(p, k) THEN 1 ELSE 0)
            /\ reader' = [reader EXCEPT ![p].state = "done",
                  ![p].result = reader[p].target - reader[p].n + k - IF At(r + k - 1) = "^D" THEN 1 ELSE 0]
       \/ /\ EndsAt(p) = {}
          /\ r' = w
          /\ reader' = [reader EXCEPT ![p].n = @ - Held(r, w),
                                      ![p].state = IF killed[p] THEN "done" ELSE "asleep"]
    /\ UNCHANGED <<buf, w, e, pos, killed>>

(* A killed process exits, and another reads in its place.                 *)
consoleread_returns(p) ==
    /\ reader[p].state = "done"
    /\ killed' = [killed EXCEPT ![p] = FALSE]
    /\ reader' = [reader EXCEPT ![p] = [state |-> "idle", n |-> 0, target |-> 0, result |-> -1]]
    /\ UNCHANGED <<buf, r, w, e, pos>>

consolewrite(c) ==
    /\ pos' = cgaputc(pos, c)
    /\ UNCHANGED <<buf, r, w, e, reader, killed>>

kill(p) ==
    /\ ~killed[p] /\ reader[p].state # "idle"
    /\ killed' = [killed EXCEPT ![p] = TRUE]
    /\ reader' = [reader EXCEPT ![p].state = IF @ = "asleep" THEN "reading" ELSE @]
    /\ UNCHANGED <<buf, r, w, e, pos>>

-----------------------------------------------------------------------------
Init ==
    /\ buf = [i \in 0 .. INPUT_BUF - 1 |-> "a"] /\ r = 0 /\ w = 0 /\ e = 0
    /\ pos = 0
    /\ reader = [p \in Reader |-> [state |-> "idle", n |-> 0, target |-> 0, result |-> -1]]
    /\ killed = [p \in Reader |-> FALSE]

Next ==
    \/ \E c \in Key : consoleintr(c)
    \/ \E c \in Char : consolewrite(c)
    \/ \E p \in Reader : \/ \E n \in Sizes : consoleread_begins(p, n)
                         \/ consoleread(p) \/ consoleread_returns(p) \/ kill(p)

Spec == Init /\ [][Next]_conVars

-----------------------------------------------------------------------------
(* The cursor is on the screen: panic("pos under/overflow") is not met,    *)
(* and w is between r and e, at most INPUT_BUF apart, across the wrap.     *)
TypeOK ==
    /\ r \in 0 .. Modulus - 1 /\ w \in 0 .. Modulus - 1 /\ e \in 0 .. Modulus - 1
    /\ Held(r, w) + Held(w, e) = Held(r, e) /\ Held(r, e) <= INPUT_BUF
    /\ pos \in 0 .. COLS * (ROWS - 1) - 1

(* A buffer full of text that was not entered could neither take a newline *)
(* nor be read: the console would be dead but for ^H and ^U.               *)
FullEntered == Held(r, e) = INPUT_BUF => w = e

(* No reader sleeps while entered text waits or after it was killed.       *)
ReaderWoken == \A p \in Reader : reader[p].state = "asleep" => r = w /\ ~killed[p]

(* What readers get is what was entered, in order, each byte once; keys    *)
(* edit only what was not.                                                 *)
Lines == INSTANCE LineQueue WITH queue <- Text(r, w), edit <- Text(w, e)
IsLineQueue == Lines!Spec

(* "to make sure caller gets a 0-byte result": when a ^D leaves the buffer *)
(* some read returns 0.                                                    *)
EofSeen == [][r' # r /\ At(r' - 1) = "^D" =>
                \E p \in Reader : reader'[p].state = "done" /\ reader'[p].result = 0]_conVars
=============================================================================
