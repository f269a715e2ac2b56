------------------------------- MODULE Grep -------------------------------
(***************************************************************************)
(* The two filters that carry something over from one read() to the next:  *)
(* grep (grep.c), which keeps the beginning of a line in its buffer, and   *)
(* wc (wc.c), which keeps whether it is inside a word.  A regular file     *)
(* fills what a read() asks for, a pipe returns what has been written so   *)
(* far: `chunked`.  Text has no NUL.                                       *)
(***************************************************************************)
EXTENDS Integers, Sequences, SequencesExt, FiniteSetsExt

CONSTANTS
    Texts,      \* what the filters are given
    Patterns,   \* regular expressions
    BUFSIZE     \* sizeof(buf)

VARIABLES
    prog,       \* "grep" or "wc"
    pattern,
    file,       \* the input; the first pos characters have been read
    pos,
    chunked,
    buf,        \* grep: the text kept for the next read()
    out,        \* grep: the lines printed, without their newline
    count,      \* wc: l, w, c and inword
    done

vars == <<prog, pattern, file, pos, chunked, buf, out, count, done>>

Init ==
    /\ prog \in {"grep", "wc"} /\ file \in Texts /\ chunked \in BOOLEAN
    /\ pattern \in (IF prog = "grep" THEN Patterns ELSE {<<>>})
    /\ pos = 0 /\ buf = <<>> /\ out = <<>> /\ done = FALSE
    /\ count = [l |-> 0, w |-> 0, c |-> 0, inword |-> FALSE]

-----------------------------------------------------------------------------
(* The matcher *)

After(s, k) == SubSeq(s, k + 1, Len(s))
Same(c, t) == c = "." \/ c = t

\* Mutant: c* stands for one c at least.
Stars_AtLeastOne(c, text) == {k \in 1..Len(text) : \A j \in 1..k : Same(c, text[j])}

\* How many characters matchstar() may take before it tries the rest.
Stars(c, text) == {k \in 0..Len(text) : \A j \in 1..k : Same(c, text[j])}

RECURSIVE Matchhere(_, _)
Matchhere(re, text) ==
    CASE re = <<>> -> TRUE
      [] Len(re) > 1 /\ re[2] = "*" ->
           \E k \in Stars(re[1], text) : Matchhere(After(re, 2), After(text, k))
      [] re = <<"$">> -> text = <<>>
      [] OTHER -> text # <<>> /\ Same(re[1], text[1]) /\ Matchhere(Tail(re), Tail(text))

Match(re, text) ==
    IF re # <<>> /\ re[1] = "^" THEN Matchhere(Tail(re), text)
    ELSE \E k \in 0..Len(text) : Matchhere(re, After(text, k))

-----------------------------------------------------------------------------
(* grep *)

Lines(text) == {i \in 1..Len(text) : text[i] = "nl"}

\* The lines of text that end in a newline, and what follows the last one.
WholeLines(text) ==
    [k \in 1..Cardinality(Lines(text)) |->
        LET end == CHOOSE i \in Lines(text) : Cardinality({j \in Lines(text) : j <= i}) = k
            begin == Max({0} \cup {j \in Lines(text) : j < end}) IN
        SubSeq(text, begin + 1, end - 1)]
Rest(text) == After(text, Max({0} \cup Lines(text)))

\* Mutant: the beginning of the next line is thrown away with the buffer.
Kept_Nothing(text) == <<>>

\* A buffer without a newline is thrown away.
Kept(text) == IF Lines(text) = {} THEN <<>> ELSE Rest(text)

\* What a read() of at most n characters may return.
Chunks(n) ==
    LET most == Min({n, Len(file) - pos}) IN
    IF chunked /\ most > 0 THEN 1..most ELSE {most}

Took(n) == SubSeq(file, pos + 1, pos + n)

GrepRead ==
    /\ prog = "grep" /\ ~done
    /\ \E n \in Chunks(BUFSIZE - Len(buf) - 1) :
         LET text == buf \o Took(n) IN
         IF n = 0 THEN done' = TRUE /\ UNCHANGED <<pos, buf, out>>
         ELSE /\ pos' = pos + n
              /\ out' = out \o SelectSeq(WholeLines(text), LAMBDA t : Match(pattern, t))
              /\ buf' = Kept(text)
              /\ UNCHANGED done
    /\ UNCHANGED <<prog, pattern, file, chunked, count>>

-----------------------------------------------------------------------------
(* wc *)

Space == {" ", "nl"}

\* Mutant: every read() begins outside a word.
Resume_Outside(c) == [c EXCEPT !.inword = FALSE]

Resume(c) == c

CountOne(c, char) ==
    [l |-> c.l + (IF char = "nl" THEN 1 ELSE 0),
     w |-> c.w + (IF char \notin Space /\ ~c.inword THEN 1 ELSE 0),
     c |-> c.c + 1,
     inword |-> char \notin Space]

WcRead ==
    /\ prog = "wc" /\ ~done
    /\ \E n \in Chunks(BUFSIZE) :
         IF n = 0 THEN done' = TRUE /\ UNCHANGED <<pos, count>>
         ELSE /\ pos' = pos + n
              /\ count' = FoldLeft(CountOne, Resume(count), Took(n))
              /\ UNCHANGED done
    /\ UNCHANGED <<prog, pattern, file, chunked, buf, out>>

Next == GrepRead \/ WcRead

Spec == Init /\ [][Next]_vars

-----------------------------------------------------------------------------
(* Properties *)

\* The patterns read from left to right, all positions at once: the ends of the
\* matches of re[1..i] that begin in S.
RECURSIVE Ends(_, _, _)
Ends(re, text, S) ==
    LET on(q) == {p + 1 : p \in {r \in S : r <= Len(text) /\ Same(q, text[r])}} IN
    CASE re = <<>> -> S
      [] Len(re) > 1 /\ re[2] = "*" ->
           Ends(After(re, 2), text,
                {q \in 1..(Len(text) + 1) :
                   \E p \in S : p <= q /\ \A j \in p..(q - 1) : Same(re[1], text[j])})
      [] re = <<"$">> -> S \cap {Len(text) + 1}
      [] OTHER -> Ends(Tail(re), text, on(re[1]))

Matches(re, text) ==
    IF re # <<>> /\ re[1] = "^" THEN Ends(Tail(re), text, {1}) # {}
    ELSE Ends(re, text, 1..(Len(text) + 1)) # {}

ShortLines == \A k \in DOMAIN WholeLines(file) : Len(WholeLines(file)[k]) < BUFSIZE - 1

\* Wherever the reads of a regular file cut its lines, grep prints the lines that
\* match, whole and once.  (A line longer than the buffer is printed in part or
\* not at all, and so is one that a pipe delivers in pieces; what follows the last
\* newline is never printed.)
GrepPrintsTheLines ==
    (done /\ prog = "grep" /\ ~chunked /\ ShortLines) =>
      out = SelectSeq(WholeLines(file), LAMBDA t : Matches(pattern, t))

Words(text) == {i \in 1..Len(text) : text[i] \notin Space /\ (i = 1 \/ text[i - 1] \in Space)}

\* wc's three numbers do not depend on where the reads cut the text.
WcCounts ==
    (done /\ prog = "wc") =>
      /\ count.l = Cardinality(Lines(file)) /\ count.c = Len(file)
      /\ count.w = Cardinality(Words(file))
=============================================================================
