------------------------------ MODULE Console ------------------------------
(***************************************************************************)
(* The console (console.c): line editing, history and paste in             *)
(* consoleintr(), and consoleread().                                       *)
(*                                                                         *)
(* `con` holds what cons.lock protects, in the names of the source, and    *)
(* the screen line with its cursor.  One key is one step; the handler      *)
(* keeps the lock while it pastes.  The unsigned counters are integers: one *)
(* below zero stands for its value modulo 2^32.  The model stops when a    *)
(* counter passes another one or memory beyond input.buf is written.       *)
(***************************************************************************)
EXTENDS Integers, Sequences, SequencesExt, FiniteSetsExt

CONSTANTS
    INPUT_BUF, MAX_NUM_OF_HISTORY,
    COLS,       \* bound: cells of the screen line, enough for any line
    Key,        \* keys a user strikes
    Openings,   \* what he begins with: sequences of keys
    MaxKeys,    \* bound: keys after that
    ReadSizes   \* n of consoleread()

VARIABLES con, opening, struck, reader, killed, pending, margin, straight

vars == <<con, opening, struck, reader, killed, pending, margin, straight>>

NL == "nl"
EOT == "^D"
Digit == {"0", "1", "2", "3", "4", "5", "6", "7", "8", "9"}
Digits == <<"0", "1", "2", "3", "4", "5", "6", "7", "8", "9">>
Value(c) == CHOOSE v \in 0..9 : Digits[v + 1] = c
Cell == -COLS..COLS             \* below 0: the rows above, left blank
Blank == [i \in Cell |-> " "]

Init ==
    /\ con = [buf |-> [i \in 0..(INPUT_BUF - 1) |-> ""],
              r |-> 0, w |-> 0, e |-> 0, position |-> 0, num_of_backs |-> 0,
              history |-> <<>>, command_id |-> 0,
              copybuf |-> <<>>, copying |-> FALSE, inserting |-> FALSE, idx |-> 0,
              crt |-> Blank, cur |-> 0, overrun |-> FALSE, woken |-> FALSE]
    /\ opening \in Openings /\ struck = 0
    /\ reader = [at |-> "idle", n |-> 0, target |-> 0] /\ killed = FALSE
    /\ pending = <<>>       \* lines handed over and not read, as they were shown
    /\ margin = 0           \* the column where the line in the making begins
    /\ straight = TRUE      \* so far the cursor has been at the end of the input

-----------------------------------------------------------------------------
(* The screen *)

BACKSPACE == "backspace"

\* consputc(c): a new line is an empty row.
Consputc(s, c) ==
    LET pos == IF c = NL THEN 0
               ELSE IF c = BACKSPACE THEN s.cur - 1 ELSE s.cur + 1
        crt == IF c = NL THEN Blank
               ELSE IF c = BACKSPACE THEN s.crt ELSE [s.crt EXCEPT ![s.cur] = c] IN
    [s EXCEPT !.cur = pos, !.crt = [crt EXCEPT ![pos] = " "]]

Remove_chars(s, back) ==
    LET end == s.cur - 1 + back IN
    [s EXCEPT !.cur = @ - 1,
              !.crt = [i \in Cell |-> IF i = end THEN " "
                                      ELSE IF i \in (s.cur - 1)..(s.cur + back) /\ i < COLS
                                             THEN s.crt[i + 1] ELSE s.crt[i]]]

Insert_chars(s, back, c) ==
    [s EXCEPT !.cur = @ + 1,
              !.crt = [i \in Cell |-> IF i = s.cur + 1 + back THEN " "
                                      ELSE IF i = s.cur THEN c
                                      ELSE IF i \in (s.cur + 1)..(s.cur + 1 + back) /\ i - 1 \in Cell
                                             THEN s.crt[i - 1] ELSE s.crt[i]]]

Shown(s) == [i \in 1..(s.cur - margin) |-> s.crt[margin + i - 1]]

-----------------------------------------------------------------------------
(* The input buffer *)

At(s, i) == s.buf[i % INPUT_BUF]
Text(s, from, to) == [i \in 1..(to - from) |-> At(s, from + i - 1)]

Store_command(s, c) ==
    IF Len(s.copybuf) < INPUT_BUF THEN [s EXCEPT !.copybuf = Append(@, c)] ELSE s

\* C('U'): position and num_of_backs stay as they are.
KillLine(s) ==
    LET kept == {i \in s.w..(s.e - 1) : At(s, i) = NL}
        stop == IF kept = {} THEN s.w ELSE Max(kept) + 1
        Rub[k \in Nat] == IF k = 0 THEN s ELSE Consputc(Rub[k - 1], BACKSPACE) IN
    [Rub[s.e - stop] EXCEPT !.e = stop]

Backspace(s) ==
    IF s.e # s.w /\ s.position > s.r
      THEN Remove_chars([s EXCEPT !.e = @ - 1, !.position = @ - 1], s.num_of_backs)
      ELSE s

KeyLeft(s) ==
    IF s.position > s.r
      THEN [s EXCEPT !.position = @ - 1, !.num_of_backs = @ + 1, !.cur = @ - 1]
      ELSE s

KeyRight(s) ==
    IF s.position < s.e
      THEN [s EXCEPT !.position = @ + 1, !.num_of_backs = @ - 1, !.cur = @ + 1]
      ELSE s

\* The line gives way to command_history[id].  The index is not reduced modulo
\* INPUT_BUF here.
Recall(s, id) ==
    LET command == IF id < Len(s.history) THEN s.history[id + 1] ELSE <<>>
        right == [s EXCEPT !.cur = @ + Max({s.e - s.position, 0})]
        Clear[k \in Nat] == IF k = 0 THEN right ELSE Remove_chars(Clear[k - 1], 0)
        put(t, c) == [Consputc(t, c) EXCEPT !.buf = IF t.e < INPUT_BUF THEN [@ EXCEPT ![t.e] = c] ELSE @,
                                            !.overrun = @ \/ t.e >= INPUT_BUF,
                                            !.e = @ + 1]
        new == FoldLeft(put, [Clear[s.e - s.w] EXCEPT !.e = s.w], command) IN
    [new EXCEPT !.position = new.e]

KeyUp(s) == IF s.command_id >= 0 THEN [Recall(s, s.command_id) EXCEPT !.command_id = @ - 1] ELSE s

\* Mutant: the last command of the history is taken to have one after it.
HasNext_OffByOne(s) == s.command_id < Len(s.history)

HasNext(s) == s.command_id < Len(s.history) - 1

KeyDown(s) ==
    IF HasNext(s) THEN [Recall(s, s.command_id + 1) EXCEPT !.command_id = @ + 1] ELSE s

Add_history(s, command) ==
    IF command = <<>> THEN s
    ELSE LET h == IF Len(s.history) < MAX_NUM_OF_HISTORY THEN s.history ELSE Tail(s.history) IN
         [s EXCEPT !.history = Append(h, command), !.command_id = Len(h)]

-----------------------------------------------------------------------------
(* NON=? *)

Operator == {"+", "-", "*", "/"}

Detect_math_expression(s, c) ==
    /\ c = "?" /\ At(s, s.position - 1) = "=" /\ At(s, s.position - 2) \in Digit
    /\ At(s, s.position - 3) \in Operator /\ At(s, s.position - 4) \in Digit

\* The digits of v, v > 0, the least one last.
Decimal(v) == LET D[n \in Nat] == IF n < 10 THEN <<Digits[n + 1]>>
                                  ELSE Append(D[n \div 10], Digits[(n % 10) + 1]) IN D[v]

Int_to_str(v) == IF v < 0 THEN <<"-">> \o Decimal(-v) ELSE Decimal(v)

\* float_to_str(a / b): two digits after the point, the rest cut off.  Infinity
\* and NaN become INT_MIN, of which the do loop writes '0' - 8.
Float_to_str(a, b) ==
    LET hundredths == (100 * a) \div b
        d == Decimal(hundredths) IN
    IF b = 0 THEN <<"(">>
    ELSE IF a = 0 THEN <<"0">>
    ELSE IF a < b THEN <<"0", ".">> \o d
    ELSE SubSeq(d, 1, Len(d) - 2) \o <<".">> \o SubSeq(d, Len(d) - 1, Len(d))

Calculate(a, op, b) ==
    CASE op = "+" -> Int_to_str(a + b)
      [] op = "-" -> Int_to_str(a - b)
      [] op = "*" -> Int_to_str(a * b)
      [] op = "/" -> Float_to_str(a, b)

Math_exp_len == 5

Evaluate(s) ==
    LET result == Calculate(Value(At(s, s.position - 4)), At(s, s.position - 3),
                            Value(At(s, s.position - 2)))
        n == Math_exp_len - 1
        Rub[k \in Nat] == IF k = 0 THEN s ELSE Consputc(Rub[k - 1], BACKSPACE)
        put(t, c) == [Consputc(t, c) EXCEPT !.buf[t.position % INPUT_BUF] = c,
                                            !.e = @ + 1, !.position = @ + 1] IN
    FoldLeft(put, [Rub[n] EXCEPT !.e = @ - n, !.position = @ - n], result)

-----------------------------------------------------------------------------
(* The default case *)

\* Mutant: the reader is woken by every character but the end of a line.
Wakes_NotAtEnd(c) == c = EOT

Wakes(c) == c \in {NL, EOT}

\* The end of a line: it goes into the history and to the reader.  The test for
\* a full buffer beside this one is never true: it comes before the character
\* is counted.
HandOver(s, c) ==
    LET t == Consputc([s EXCEPT !.buf[s.e % INPUT_BUF] = c, !.e = @ + 1], c)
        u == Add_history(t, Text(t, t.w, t.e - 1)) IN
    [u EXCEPT !.num_of_backs = 0, !.w = u.e, !.position = u.e, !.woken = Wakes(c)]

TypeAtEnd(s, c) ==
    Consputc([s EXCEPT !.buf[s.e % INPUT_BUF] = c, !.e = @ + 1, !.position = @ + 1], c)

\* The loop moves what is right of the cursor, but not the character at it.
TypeInside(s, c) ==
    LET moved == [i \in DOMAIN s.buf |->
                    LET from == {j \in (s.position + 1)..s.e : (j + 1) % INPUT_BUF = i} IN
                    IF i = s.position % INPUT_BUF THEN c
                    ELSE IF from = {} THEN s.buf[i] ELSE At(s, Max(from))] IN
    Insert_chars([s EXCEPT !.buf = moved, !.e = @ + 1, !.position = @ + 1], s.num_of_backs, c)

\* Mutant: one character more than the buffer holds is taken.
HasRoom_OffByOne(s) == 0 <= s.e - s.r /\ s.e - s.r <= INPUT_BUF

HasRoom(s) == 0 <= s.e - s.r /\ s.e - s.r < INPUT_BUF

Ordinary(s, c) ==
    IF ~HasRoom(s) THEN s
    ELSE IF Detect_math_expression(s, c) THEN Evaluate(s)
    ELSE IF c \in {NL, EOT} THEN HandOver(s, c)
    ELSE IF s.num_of_backs = 0 THEN TypeAtEnd(s, c) ELSE TypeInside(s, c)

-----------------------------------------------------------------------------
(* consoleintr() *)

Copied == {"bs", "left", "right"}
Ignored == {"^U", "up", "down"}             \* while copying

Edit(s, c) ==
    CASE c = "^P" -> s
      [] c = "^U" -> KillLine(s)
      [] c = "bs" -> Backspace(s)
      [] c = "left" -> KeyLeft(s)
      [] c = "right" -> KeyRight(s)
      [] c = "up" -> KeyUp(s)
      [] c = "down" -> KeyDown(s)
      [] OTHER -> Ordinary(s, c)

Switch(s, c) ==
    CASE c = "^S" -> [s EXCEPT !.copying = TRUE, !.copybuf = <<>>, !.inserting = FALSE]
      [] c = "^F" -> [s EXCEPT !.copying = FALSE, !.inserting = TRUE, !.idx = 0]
      [] OTHER -> IF ~s.copying \/ c = "^P" THEN Edit(s, c)
                  ELSE IF c \in Ignored THEN s ELSE Store_command(s, c)

\* Mutant: the paste goes on up to the end of copybuf, and then past it.
PasteEnds_Late(s) == s.idx = Len(s.copybuf) + 1

PasteEnds(s) == s.idx = Len(s.copybuf) - 1

Broken == con.overrun \/ con.r > con.w \/ con.w > con.e

\* One turn of the loop.  A key that ends a line adds to what the reader is due.
Turn(s, c) ==
    LET t == IF PasteEnds(s) THEN [s EXCEPT !.inserting = FALSE] ELSE s
        new == Switch(t, c) IN
    /\ ~Broken
    /\ con' = [new EXCEPT !.woken = FALSE]
    /\ reader' = IF new.woken /\ reader.at = "asleep" THEN [reader EXCEPT !.at = "reading"]
                 ELSE reader
    /\ pending' = IF new.w # s.w THEN pending \o Shown(s) \o <<c>> ELSE pending
    /\ margin' = IF new.w # s.w THEN new.cur ELSE margin
    /\ straight' = (straight /\ new.position = new.e)
    /\ UNCHANGED killed

Strike ==
    /\ ~con.inserting
    /\ \/ opening # <<>> /\ Turn(con, Head(opening)) /\ opening' = Tail(opening)
          /\ UNCHANGED struck
       \/ /\ opening = <<>> /\ struck < MaxKeys
          /\ \E c \in Key : Turn(con, c)
          /\ struck' = struck + 1 /\ UNCHANGED opening

\* A copied key takes the place of the next one.  Behind the last one the loop
\* goes on through memory, with cons.lock held: the model stops.
Paste ==
    /\ con.inserting /\ con.idx < Len(con.copybuf)
    /\ Turn([con EXCEPT !.idx = @ + 1], con.copybuf[con.idx + 1])
    /\ UNCHANGED <<opening, struck>>

-----------------------------------------------------------------------------
(* consoleread() *)

Call ==
    /\ reader.at = "idle"
    /\ \E n \in ReadSizes : reader' = [at |-> "reading", n |-> n, target |-> n]
    /\ UNCHANGED <<con, opening, struck, killed, pending, margin, straight>>

Unread(s) == s.r..(s.w - 1)

Read ==
    LET s == con
        full == s.r + reader.n
        lines == {i + 1 : i \in {j \in Unread(s) : At(s, j) = NL}}
        eots == {j \in Unread(s) : At(s, j) = EOT}
        to == Min({s.w, full} \cup lines \cup eots)
        eof == to \in eots /\ to # full /\ to \notin lines
        nothing == reader.n = reader.target /\ to = s.r     \* no byte so far
        r == IF eof /\ nothing THEN to + 1 ELSE to
        done == eof \/ to = full \/ to \in lines IN
    /\ reader.at = "reading" /\ ~con.inserting /\ ~Broken
    /\ con' = [s EXCEPT !.r = r]
    /\ pending' = SubSeq(pending, r - s.r + 1, Len(pending))
    /\ reader' = IF done \/ killed THEN [reader EXCEPT !.at = "idle"]
                 ELSE [reader EXCEPT !.at = "asleep", !.n = @ - (to - s.r)]
    /\ UNCHANGED <<opening, struck, killed, margin, straight>>

Kill ==
    /\ killed' = TRUE
    /\ reader' = IF reader.at = "asleep" THEN [reader EXCEPT !.at = "reading"] ELSE reader
    /\ UNCHANGED <<con, opening, struck, pending, margin, straight>>

Next == Strike \/ Paste \/ Call \/ Read \/ Kill

Spec == Init /\ [][Next]_vars

-----------------------------------------------------------------------------
(* Properties *)

\* Every variable keeps its type; command_history[command_id] exists whenever a
\* key may show it, and as long as the cursor stays at the end of the line the
\* counters keep their order and the unread input fits into the buffer.
TypeOK ==
    /\ con.command_id \in -1..Max({Len(con.history) - 1, 0})
    /\ Len(con.history) <= MAX_NUM_OF_HISTORY
    /\ \A k \in DOMAIN con.history : con.history[k] # <<>>
    /\ reader.at \in {"idle", "reading", "asleep"} /\ reader.n <= reader.target
    /\ straight /\ ~con.overrun =>
         con.r <= con.w /\ con.w <= con.e /\ con.e <= con.r + INPUT_BUF

\* As long as the cursor has stayed at the end of the line, whatever is typed,
\* erased, recalled, computed or pasted: the reader gets, byte for byte, what the
\* screen has shown, and the line in the making is what the screen shows now.
ReadsWhatIsShown ==
    straight /\ ~con.overrun =>
        /\ Text(con, con.r, con.w) = pending
        /\ Text(con, con.w, con.e) = Shown(con)

\* A reader sleeps only while nothing is handed over to it.
NoLostWakeup == reader.at = "asleep" => con.r = con.w /\ ~killed

\* A paste of two keys or more ends before it is through with the copied keys.
PasteStaysInside == con.inserting /\ Len(con.copybuf) >= 2 => con.idx < Len(con.copybuf) - 1
=============================================================================
