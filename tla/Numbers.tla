------------------------------ MODULE Numbers ------------------------------
(***************************************************************************)
(* Arithmetic on machine words: the checks of system call arguments        *)
(* (syscall.c) and the number printing of console.c and printf.c, with     *)
(* words of Bits bits.  A process has at most half of the addresses, as    *)
(* the kernel has the others (KERNBASE).                                   *)
(***************************************************************************)
EXTENDS Integers, Sequences

CONSTANTS Bits

uint(n) == n % 2^Bits
int(u) == IF u >= 2^(Bits - 1) THEN u - 2^Bits ELSE u
Word == 0 .. 2^Bits - 1
KERNBASE == 2^(Bits - 1)

-----------------------------------------------------------------------------
(* TRUE where the code goes on.  An int has 4 bytes.                       *)
fetchint(addr, sz) == addr < sz /\ uint(addr + 4) <= sz

argptr_unsigned(i, size, sz) == i < sz /\ uint(i + size) <= sz
argptr(i, size, sz) == int(size) >= 0 /\ i < sz /\ uint(i + size) <= sz

(* printint: the sign and the digits, the most significant first.          *)
RECURSIVE Digits(_, _)
Digits(x, b) == IF x \div b = 0 THEN <<x % b>> ELSE Digits(x \div b, b) \o <<x % b>>

Magnitude(xx) == uint(-xx)
printint(xx, b, sign) ==
    IF sign /\ xx < 0 THEN [neg |-> TRUE, digits |-> Digits(Magnitude(xx), b)]
    ELSE [neg |-> FALSE, digits |-> Digits(uint(xx), b)]

-----------------------------------------------------------------------------
VARIABLES a, n, sz

numVars == <<a, n, sz>>
Init == a \in Word /\ n \in Word /\ sz \in 0 .. KERNBASE
Spec == Init /\ [][UNCHANGED numVars]_numVars

(* An argument that passes lies in the process, to its last byte; none     *)
(* wraps around the end of the address space.                              *)
ArgsInside ==
    /\ fetchint(a, sz) <=> a + 3 < sz
    /\ argptr(a, n, sz) => a < sz /\ a + n <= sz

(* The digits printed are the number, for the smallest int too, which has  *)
(* no positive counterpart; and there are few enough for the buffer.       *)
RECURSIVE ValueOf(_, _)
ValueOf(ds, b) == IF ds = <<>> THEN 0 ELSE ValueOf(SubSeq(ds, 1, Len(ds) - 1), b) * b + ds[Len(ds)]
PrintsValue == \A b \in {10, 16} : \A sign \in BOOLEAN :
    LET p == printint(int(a), b, sign) v == ValueOf(p.digits, b) IN
    /\ (IF p.neg THEN -v ELSE v) = IF sign THEN int(a) ELSE a
    /\ \A k \in 1 .. Len(p.digits) : p.digits[k] \in 0 .. b - 1
=============================================================================
