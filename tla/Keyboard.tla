------------------------------ MODULE Keyboard ------------------------------
(***************************************************************************)
(* The keyboard driver (kbd.c): kbdgetc() turns the bytes the controller   *)
(* sends, one or two for a key that goes down or up, into characters.      *)
(* Of the tables in kbd.h these are the entries of a few keys.             *)
(***************************************************************************)
EXTENDS Integers, Sequences, FiniteSets

CONSTANT MaxHeld    \* bound: keys held down at a time

VARIABLES
    shift,  \* the static of kbdgetc(), as a set of flags
    bytes,  \* sent by the controller and not read
    held,   \* keys that are down
    got     \* the key that went down last, and its character

vars == <<shift, bytes, held, got>>

NO == "NO"
E0 == 224
NoKey == [code |-> 0, ext |-> FALSE]

\* Scan codes.  A key with ext sends E0 before its code.
Code == [a |-> 30, one |-> 2, lshift |-> 42, rshift |-> 54, ctl |-> 29, alt |-> 56,
         caps |-> 58, eight |-> 72]
Plain == {[code |-> Code[k], ext |-> FALSE] : k \in DOMAIN Code}
Extended == {[code |-> Code[k], ext |-> TRUE] : k \in {"ctl", "alt", "eight"}}

Shiftcode(d) == CASE d \in {42, 54} -> {"SHIFT"} [] d \in {29, 157} -> {"CTL"}
                  [] d \in {56, 184} -> {"ALT"} [] OTHER -> {}
Togglecode(d) == IF d = 58 THEN {"CAPSLOCK"} ELSE {}

Normalmap(d) == CASE d = 30 -> "a" [] d = 2 -> "1" [] d = 72 -> "8" [] d = 200 -> "up"
                  [] OTHER -> NO
Shiftmap(d) == CASE d = 30 -> "A" [] d = 2 -> "!" [] d = 72 -> "8" [] d = 200 -> "up"
                 [] OTHER -> NO
Ctlmap(d) == CASE d = 30 -> "^A" [] d = 200 -> "up" [] OTHER -> NO

Charcode(flags) == IF "CTL" \in flags THEN "ctl" ELSE IF "SHIFT" \in flags THEN "shift" ELSE "normal"
Lookup(map, d) == CASE map = "ctl" -> Ctlmap(d) [] map = "shift" -> Shiftmap(d)
                    [] map = "normal" -> Normalmap(d)

Capslock(c) == CASE c = "a" -> "A" [] c = "A" -> "a" [] OTHER -> c

Init == shift = {} /\ bytes = <<>> /\ held = {} /\ got = [key |-> NoKey, char |-> NO]

Send(k, d) == bytes' = bytes \o (IF k.ext THEN <<E0, d>> ELSE <<d>>)

Press(k) ==
    /\ bytes = <<>> /\ k \notin held /\ Cardinality(held) < MaxHeld
    /\ held' = held \cup {k} /\ Send(k, k.code)
    /\ got' = [key |-> k, char |-> NO]
    /\ UNCHANGED shift

Unpress(k) ==
    /\ bytes = <<>> /\ k \in held
    /\ held' = held \ {k} /\ Send(k, k.code + 128)
    /\ UNCHANGED <<shift, got>>

SymmetricDifference(s, t) == (s \ t) \cup (t \ s)

\* Mutant: a released key leaves the E0 flag.
Cleared_KeepsE0(d) == Shiftcode(d)

\* The flags a released key clears.
Cleared(d) == Shiftcode(d) \cup {"E0ESC"}

\* Mutant: the second byte of an extended key is looked up like any other.
Extend_Never(d) == d

Extend(d) == IF "E0ESC" \in shift THEN d + 128 ELSE d

Kbdgetc ==
    /\ bytes # <<>>
    /\ bytes' = Tail(bytes)
    /\ LET d == Head(bytes) IN
       IF d = E0 THEN shift' = shift \cup {"E0ESC"} /\ UNCHANGED got
       ELSE IF d >= 128
         THEN /\ shift' = shift \ Cleared(IF "E0ESC" \in shift THEN d ELSE d - 128)
              /\ UNCHANGED got
       ELSE LET x == Extend(d)
                flags == SymmetricDifference((shift \ {"E0ESC"}) \cup Shiftcode(x), Togglecode(x))
                c == Lookup(Charcode(flags), x) IN
            /\ shift' = flags
            /\ got' = [got EXCEPT !.char = IF "CAPSLOCK" \in flags THEN Capslock(c) ELSE c]
    /\ UNCHANGED held

Next == (\E k \in Plain \cup Extended : Press(k) \/ Unpress(k)) \/ Kbdgetc

Spec == Init /\ [][Next]_vars

-----------------------------------------------------------------------------
(* Properties *)

\* No modifier sticks: once every key is up, and its bytes are read, only the
\* caps lock is left in `shift`.
NoModifierSticks == held = {} /\ bytes = <<>> => shift \subseteq {"CAPSLOCK"}

\* The extended key on the place of the keypad's 8 is always the cursor key, and
\* the keypad's never, whatever else is held.
CursorKeyIsExtended ==
    bytes = <<>> /\ got.key \in held =>
        (got.char = "up") <=> (got.key.ext /\ got.key.code = 72)
=============================================================================
