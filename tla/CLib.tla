------------------------------- MODULE CLib -------------------------------
(***************************************************************************)
(* What the kernel and the user programs use instead of a C library:       *)
(* string.c, ulib.c, and the two printf()s (printf.c; printint() and       *)
(* cprintf() in console.c).  Memory is SIZE characters of 0..2, 0 is NUL;  *)
(* an int has W bits; a hexadecimal digit has no letter case (the two      *)
(* printf()s differ there).  Every call is one step from any memory.       *)
(***************************************************************************)
EXTENDS Integers, Sequences, SequencesExt, FiniteSetsExt

CONSTANTS
    SIZE,
    W,          \* bits of an int
    Formats,    \* formats of printf()
    Arguments   \* its arguments

Addr == 0..(SIZE - 1)
Int_ == (-(2^(W - 1)))..(2^(W - 1) - 1)
Unsigned(x) == x % (2^W)
Signed(x) == IF Unsigned(x) >= 2^(W - 1) THEN Unsigned(x) - 2^W ELSE Unsigned(x)

VARIABLES
    mem,    \* memory now
    old,    \* memory before the call
    call,   \* the call: op, d, s, n
    ret     \* what it returned or printed

vars == <<mem, old, call, ret>>

Init == mem \in [Addr -> 0..2] /\ old = mem /\ call = [op |-> "none"] /\ ret = 0

-----------------------------------------------------------------------------
(* Loops that copy: cells of src go to dst, in the given order of offsets *)

Copy(m, d, s, offsets) == FoldLeft(LAMBDA a, i : [a EXCEPT ![d + i] = a[s + i]], m, offsets)
Upward(n) == [i \in 1..n |-> i - 1]
Downward(n) == [i \in 1..n |-> n - i]

\* Mutant: the copy goes up always, as the user programs' does.
Overlap_Never(d, s, n) == FALSE

Overlap(d, s, n) == s < d /\ s + n > d

Memmove(m, d, s, n) == Copy(m, d, s, IF Overlap(d, s, n) THEN Downward(n) ELSE Upward(n))

UserMemmove(m, d, s, n) == Copy(m, d, s, Upward(n))

Strlen(m, s) == Min({k \in 0..(SIZE - s) : s + k = SIZE \/ m[s + k] = 0})
Terminated(m, s) == s + Strlen(m, s) < SIZE

\* strcpy(): the terminator is copied too.
Strcpy(m, d, s) == Copy(m, d, s, Upward(Strlen(m, s) + 1))

\* Mutant: a full destination gets its terminator behind its end.
Room_Whole(n) == n

\* How many characters safestrcpy() copies before it terminates the string.
Room(n) == n - 1

Safestrcpy(m, d, s, n) ==
    LET k == Min({Strlen(m, s), Room(n)}) IN
    IF n <= 0 THEN m ELSE [Copy(m, d, s, Upward(k)) EXCEPT ![d + k] = 0]

\* strncpy() fills what is left with NULs.
Strncpy(m, d, s, n) ==
    LET k == Min({Strlen(m, s), n}) IN
    [a \in Addr |-> IF a \in (d + k)..(d + n - 1) THEN 0 ELSE Copy(m, d, s, Upward(k))[a]]

Memset(m, d, c, n) == [a \in Addr |-> IF a \in d..(d + n - 1) THEN c ELSE m[a]]

\* Mutant: a string that ends first is not told from a longer one.
Stops_AtDifference(m, p, q, k) == m[p + k] # 0 /\ m[q + k] # 0 /\ m[p + k] # m[q + k]

\* Where strncmp() and strcmp() stop: the difference there is the result.
Stops(m, p, q, k) == m[p + k] = 0 \/ m[p + k] # m[q + k]

Strncmp(m, p, q, n) ==
    LET K == {k \in 0..Min({n - 1, Strlen(m, p), Strlen(m, q)}) : Stops(m, p, q, k)} IN
    IF K = {} THEN 0 ELSE m[p + Min(K)] - m[q + Min(K)]

-----------------------------------------------------------------------------
(* Numbers *)

\* Mutant: the magnitude is kept in an int.
Magnitude_Signed(x) == Signed(-x)

\* x = -xx, in an unsigned int.
Magnitude(x) == Unsigned(-x)

digits == <<"0", "1", "2", "3", "4", "5", "6", "7", "8", "9", "a", "b", "c", "d", "e", "f">>

\* The do loop: the digits of x in base b, the last one first.
Digits(x, b) ==
    LET n == Max({k \in 0..(W - 1) : b^k <= x} \cup {0}) IN
    [i \in 1..(n + 1) |-> digits[((x \div b^(i - 1)) % b) + 1]]

Printint(x, b, sign) ==
    IF sign /\ x < 0 THEN <<"-">> \o Reverse(Digits(Magnitude(x), b))
    ELSE Reverse(Digits(Unsigned(x), b))

Value(c) == CHOOSE v \in 0..15 : digits[v + 1] = c

\* atoi() knows no sign; the result wraps.
Atoi(s) ==
    LET n == Max({k \in 0..Len(s) : \A i \in 1..k : \E v \in 0..9 : s[i] = digits[v + 1]}) IN
    FoldLeft(LAMBDA a, c : Signed(a * 10 + Value(c)), 0, SubSeq(s, 1, n))

-----------------------------------------------------------------------------
(* The two printf()s.  A format is a sequence of characters, an argument   *)
(* is an int and a text: %s and %c take the text, the others the int.      *)

Directive(c, x) ==
    CASE c = "d" -> Printint(x.int, 10, TRUE)
      [] c \in {"x", "p"} -> Printint(x.int, 16, FALSE)
      [] c \in {"s", "c"} -> x.text
      [] c = "%" -> <<"%">>
      [] OTHER -> <<"%", c>>

\* Mutant: `state` is left set after a directive.
AfterDirective_Stays == "%"

AfterDirective == ""

\* printf(): `state` says whether the character before was a '%'.
Printf(fmt, args) ==
    FoldLeft(LAMBDA a, c :
               IF a.state = "" THEN
                   IF c = "%" THEN [a EXCEPT !.state = "%"] ELSE [a EXCEPT !.out = Append(@, c)]
               ELSE [state |-> AfterDirective,
                     out |-> a.out \o Directive(c, args[a.ap]),
                     ap |-> a.ap + (IF c \in {"d", "x", "p", "s", "c"} THEN 1 ELSE 0)],
             [state |-> "", out |-> <<>>, ap |-> 1], fmt).out

\* cprintf() looks at the character after a '%' at once, and has no %c.
Cprintf(fmt, args) ==
    LET P[i \in 1..(Len(fmt) + 2), ap \in 1..(Len(args) + 1)] ==
          IF i > Len(fmt) \/ (i = Len(fmt) /\ fmt[i] = "%") THEN <<>>
          ELSE IF fmt[i] # "%" THEN <<fmt[i]>> \o P[i + 1, ap]
          ELSE LET c == fmt[i + 1] IN
               IF c \in {"d", "x", "p", "s"} THEN Directive(c, args[ap]) \o P[i + 2, ap + 1]
               ELSE (IF c = "%" THEN <<"%">> ELSE <<"%", c>>) \o P[i + 2, ap] IN
    P[1, 1]

-----------------------------------------------------------------------------
(* The calls.  Callers stay inside memory and give strings that end there. *)

Done(op, d, s, n, m, r) ==
    /\ call.op = "none"
    /\ call' = [op |-> op, d |-> d, s |-> s, n |-> n]
    /\ mem' = m /\ ret' = r /\ UNCHANGED old

Inside(d, s, n) == d + n <= SIZE /\ s + n <= SIZE

Moves(d, s, n) ==
    /\ Inside(d, s, n)
    /\ \/ Done("memmove", d, s, n, Memmove(mem, d, s, n), d)
       \/ /\ d <= s \/ s + n <= d
          /\ Done("memmove", d, s, n, UserMemmove(mem, d, s, n), d)

\* Source and destination of a string copy do not overlap.
StringCopies(d, s, n) ==
    LET len == Strlen(mem, s) IN
    /\ Terminated(mem, s)
    /\ \/ /\ d + len < SIZE /\ (d + len < s \/ s + len < d)
          /\ Done("strcpy", d, s, len + 1, Strcpy(mem, d, s), d)
       \/ /\ d + n <= SIZE /\ (d + n <= s \/ s + len < d)
          /\ \/ Done("safestrcpy", d, s, n, Safestrcpy(mem, d, s, n), d)
             \/ Done("strncpy", d, s, n, Strncpy(mem, d, s, n), d)

Compares(p, q, n) ==
    /\ Terminated(mem, p) /\ Terminated(mem, q)
    /\ Done("strncmp", p, q, n, mem, Strncmp(mem, p, q, n))

Fills(d, c, n) ==
    d + n <= SIZE /\ Done("memset", d, c, n, Memset(mem, d, c, n), d)

\* What follows does not look at memory.
Prints(x, b) == mem = [a \in Addr |-> 0] /\ Done("printint", x, b, 0, mem, Printint(x, b, b = 10))

Formatted(fmt, args) ==
    mem = [a \in Addr |-> 0] /\ Done("printf", fmt, args, 0, mem, Printf(fmt, args))

Next ==
    \/ \E d, s \in Addr, n \in 0..SIZE :
         Moves(d, s, n) \/ StringCopies(d, s, n) \/ Compares(d, s, n)
    \/ \E d \in Addr, c \in 0..2, n \in 0..SIZE : Fills(d, c, n)
    \/ \E x \in Int_ : Prints(x, 10) \/ Prints(x, 16)
    \/ \E fmt \in Formats : Formatted(fmt, Arguments)

Spec == Init /\ [][Next]_vars

-----------------------------------------------------------------------------
(* Properties *)

Text(m, s) == [i \in 1..Strlen(m, s) |-> m[s + i - 1]]

Untouched(from, to) == \A a \in Addr : a \in from..to \/ mem[a] = old[a]

\* Copying within one buffer, as the kernel and grep do, moves what was there before
\* the call although the two parts overlap; nothing around them changes.
MovesWhatWasThere ==
    call.op = "memmove" =>
      /\ \A i \in 0..(call.n - 1) : mem[call.d + i] = old[call.s + i]
      /\ Untouched(call.d, call.d + call.n - 1)

\* A copied string ends inside its destination and is a beginning of the source, all of
\* it if there was room; strncpy() alone leaves a full destination without an end,
\* and only it writes all of it.
CopiesStrings ==
    LET src == Text(old, call.s)
        len == IF call.op = "safestrcpy" THEN Min({Len(src), call.n - 1})
               ELSE Min({Len(src), call.n}) IN
    call.op \in {"strcpy", "safestrcpy", "strncpy"} =>
      /\ Untouched(call.d, call.d + call.n - 1)
      /\ call.n > 0 =>
           /\ \A i \in 1..len : mem[call.d + i - 1] = src[i]
           /\ call.op # "strncpy" => mem[call.d + len] = 0
           /\ call.op = "strncpy" =>
                \A i \in len..(call.n - 1) : mem[call.d + i] = 0

\* The order of two strings: the first place where they differ decides, and an end
\* comes before every character.
First(s, n) == SubSeq(s, 1, Min({n, Len(s)}))
ComparesStrings ==
    LET p == First(Text(mem, call.d), call.n)
        q == First(Text(mem, call.s), call.n)
        before(s, t) == \/ Len(s) < Len(t) /\ IsPrefix(s, t)
                        \/ \E i \in 1..Min({Len(s), Len(t)}) :
                             s[i] < t[i] /\ SubSeq(s, 1, i - 1) = SubSeq(t, 1, i - 1) IN
    call.op = "strncmp" =>
      /\ ret = 0 <=> p = q
      /\ ret < 0 <=> before(p, q)

\* What is printed reads back as the number, the smallest int included; atoi() reads
\* back what has no sign.
PrintsItsValue ==
    LET neg == Head(ret) = "-"
        shown == IF neg THEN Tail(ret) ELSE ret
        value == FoldLeft(LAMBDA a, c : a * call.s + Value(c), 0, shown) IN
    call.op = "printint" =>
      /\ (IF neg THEN -value ELSE value) =
           (IF call.s = 10 THEN call.d ELSE Unsigned(call.d))
      /\ (call.s = 10 /\ ~neg) => Atoi(ret) = call.d

\* A format means the same to user programs and to the kernel.
OnePrintf ==
    call.op = "printf" => ret = Cprintf(call.d, call.s)
=============================================================================
