------------------------------- MODULE Shell -------------------------------
(***************************************************************************)
(* The shell (sh.c) at work: it reads lines, keeps a history of them, and  *)
(* has each run by a child, runcmd() forking and waiting for more.  Files  *)
(* are known by the place of their name in the line, a pipe by its command.*)
(***************************************************************************)
EXTENDS ShellParser, SequencesExt, FiniteSetsExt

CONSTANTS
    NPROC,
    NFD,                    \* bound: file descriptors, 0..NFD-1
    MAX_NUM_OF_HISTORY,
    Sessions                \* bound: the sequences of lines typed

Slot == 1..NPROC
Sh == 1
Init1 == 0      \* init, parent of orphans
FD == 0..(NFD - 1)
Closed == <<"closed">>
Console == <<"console">>

History == <<"history">>
Cd == <<"cd", Word>>
\* What main() sends to parsecmd(); a builtin or a history command is one word.
Line(typed) == IF typed = History THEN <<Word>> ELSE typed

VARIABLES
    todo,       \* lines not yet typed
    line,       \* buf
    proc,
    history_of_commands,
    typed       \* all commands so far

vars == <<todo, line, proc, history_of_commands, typed>>

Standard == [d \in FD |-> IF d \in 0..2 THEN Console ELSE Closed]
Free == [at |-> "free", parent |-> Init1, cmd |-> Exec(<<>>), fd |-> Standard,
         waits |-> 0, back |-> FALSE]

\* The shell has opened "console" for 0, 1 and 2.
Init ==
    /\ todo \in Sessions
    /\ line = <<>>
    /\ proc = [p \in Slot |-> IF p = Sh THEN [Free EXCEPT !.at = "prompt"] ELSE Free]
    /\ history_of_commands = <<>>
    /\ typed = <<>>

At(p, place) == proc[p].at = place
NextFree == LET free == {p \in Slot : At(p, "free")} IN IF free = {} THEN 0 ELSE Min(free)
CanFork == NextFree # 0

-----------------------------------------------------------------------------
(* main() *)

\* A command is copied over what the entry held before.
Over(entry, new) == new \o SubSeq(entry, Len(new) + 1, Len(entry))

\* Mutant: a full history is not moved up.
Remember_Last(h, new) ==
    IF Len(h) < MAX_NUM_OF_HISTORY THEN Append(h, new)
    ELSE [h EXCEPT ![Len(h)] = Over(@, new)]

\* A full history moves up and keeps a copy of its last entry, for the new one.
Remember(h, new) ==
    IF Len(h) < MAX_NUM_OF_HISTORY THEN Append(h, new)
    ELSE Append(Tail(h), Over(Last(h), new))

\* getcmd().  "cd" is done by the shell itself, and not remembered.
ReadLine ==
    /\ At(Sh, "prompt") /\ todo # <<>>
    /\ todo' = Tail(todo)
    /\ line' = Head(todo)
    /\ IF Head(todo) = Cd THEN UNCHANGED <<proc, history_of_commands, typed>>
       ELSE /\ proc' = [proc EXCEPT ![Sh].at = "fork"]
            /\ IF Head(todo) = History THEN UNCHANGED <<history_of_commands, typed>>
               ELSE /\ history_of_commands' = Remember(history_of_commands, Head(todo))
                    /\ typed' = Append(typed, Head(todo))

-----------------------------------------------------------------------------
(* Processes *)

\* fork1() of a child that goes on at this place.
ForkOf(p, cmd, at, back, next) ==
    /\ CanFork
    /\ proc' = [proc EXCEPT ![p] = [next EXCEPT !.waits = @ + 1],
                            ![NextFree] = [at |-> at, parent |-> p, cmd |-> cmd,
                                           fd |-> proc[p].fd, waits |-> 0, back |-> back]]
    /\ UNCHANGED <<todo, line, history_of_commands, typed>>

Step(p, next) ==
    /\ proc' = [proc EXCEPT ![p] = next]
    /\ UNCHANGED <<todo, line, history_of_commands, typed>>

Exit(p) ==
    /\ p # Sh
    /\ proc' = [q \in Slot |->
                 IF q = p THEN [proc[p] EXCEPT !.at = IF proc[p].parent = Init1 THEN "free" ELSE "zombie",
                                               !.fd = [d \in FD |-> Closed]]
                 ELSE IF proc[q].parent # p THEN proc[q]
                 ELSE IF At(q, "zombie") THEN Free ELSE [proc[q] EXCEPT !.parent = Init1]]
    /\ UNCHANGED <<todo, line, history_of_commands, typed>>

\* wait(): any child.  It returns at once if there is none.
WaitTo(p, next) ==
    LET zombies == {q \in Slot : proc[q].parent = p /\ At(q, "zombie")} IN
    \/ \E q \in zombies :
         /\ proc' = [proc EXCEPT ![p] = [next EXCEPT !.waits = @ - 1], ![q] = Free]
         /\ UNCHANGED <<todo, line, history_of_commands, typed>>
    \/ (\A q \in Slot : proc[q].parent # p) /\ Step(p, next)

Close(fd, d) == [fd EXCEPT ![d] = Closed]
FreeFd(fd) == Min({d \in FD : fd[d] = Closed})

-----------------------------------------------------------------------------
(* The shell and its child *)

ShellForks == At(Sh, "fork") /\ ForkOf(Sh, Exec(<<>>), "parse", FALSE, [proc[Sh] EXCEPT !.at = "wait"])
ShellWaits == At(Sh, "wait") /\ WaitTo(Sh, [proc[Sh] EXCEPT !.at = "prompt"])

\* parsecmd() in the child; it panics if there is a mistake.
Parse(p) ==
    /\ At(p, "parse")
    /\ LET r == ParseCmd(Line(line)) IN
       IF r.ok THEN Step(p, [proc[p] EXCEPT !.at = "runcmd", !.cmd = r.cmd]) ELSE Exit(p)

\* runcmd() of a command; each of its kinds below.
Runs(p, type) == At(p, "runcmd") /\ proc[p].cmd.type = type
Goto(p, cmd, at) == [proc[p] EXCEPT !.cmd = cmd, !.at = at]

\* exec() of the program, or nothing.
RunExec(p) ==
    /\ Runs(p, "EXEC")
    /\ IF proc[p].cmd.argv = <<>> THEN Exit(p) ELSE Step(p, [proc[p] EXCEPT !.at = "program"])

ProgramExits(p) == At(p, "program") /\ Exit(p)

\* close(), then open(), which may fail.
RunRedir(p) ==
    LET c == proc[p].cmd
        fd == Close(proc[p].fd, c.fd) IN
    /\ Runs(p, "REDIR")
    /\ \/ Step(p, [Goto(p, c.cmd, "runcmd") EXCEPT !.fd = [fd EXCEPT ![FreeFd(fd)] = <<"file", c.file>>]])
       \/ Exit(p)

\* Mutant: the shell does not wait between the commands of a list.
AfterLeft_RunRight == "runright"

AfterLeft == "waitleft"

RunList(p) ==
    /\ Runs(p, "LIST")
    /\ ForkOf(p, proc[p].cmd.left, "runcmd", proc[p].back, Goto(p, proc[p].cmd, AfterLeft))

WaitLeft(p) == At(p, "waitleft") /\ WaitTo(p, Goto(p, proc[p].cmd, "runright"))
RunRight(p) == At(p, "runright") /\ Step(p, Goto(p, proc[p].cmd.right, "runcmd"))

RunBack(p) ==
    /\ Runs(p, "BACK")
    /\ ForkOf(p, proc[p].cmd.cmd, "runcmd", TRUE, Goto(p, proc[p].cmd, "exit"))

Exits(p) == At(p, "exit") /\ Exit(p)

\* pipe(p), which takes the two lowest descriptors.
Ends(cmd) == <<<<"pipe", cmd, "r">>, <<"pipe", cmd, "w">>>>
End(fd, cmd, k) == CHOOSE d \in FD : fd[d] = Ends(cmd)[k]
RunPipe(p) ==
    LET c == proc[p].cmd
        fd1 == [proc[p].fd EXCEPT ![FreeFd(proc[p].fd)] = Ends(c)[1]] IN
    /\ Runs(p, "PIPE")
    /\ Step(p, [Goto(p, c, "forkleft") EXCEPT !.fd = [fd1 EXCEPT ![FreeFd(fd1)] = Ends(c)[2]]])

\* The child keeps its command until it has set up its descriptors.
ForkLeft(p) == At(p, "forkleft") /\ ForkOf(p, proc[p].cmd, "left", proc[p].back, Goto(p, proc[p].cmd, "forkright"))
ForkRight(p) == At(p, "forkright") /\ ForkOf(p, proc[p].cmd, "right", proc[p].back, Goto(p, proc[p].cmd, "closeboth"))

CloseEnds(fd, cmd) == Close(Close(fd, End(fd, cmd, 1)), End(fd, cmd, 2))

\* Mutant: dup() without the close() before it.
Plumb_NoClose(p, d, k) ==
    LET c == proc[p].cmd
        fd == proc[p].fd IN
    [fd EXCEPT ![FreeFd(fd)] = Ends(c)[k], ![End(fd, c, 1)] = Closed, ![End(fd, c, 2)] = Closed]

\* close(0 or 1), dup() of an end, close() of both.
Plumb(p, d, k) ==
    LET c == proc[p].cmd
        fd == Close(proc[p].fd, d) IN
    [fd EXCEPT ![FreeFd(fd)] = Ends(c)[k], ![End(fd, c, 1)] = Closed, ![End(fd, c, 2)] = Closed]
StartLeft(p) == At(p, "left") /\ Step(p, [Goto(p, proc[p].cmd.left, "runcmd") EXCEPT !.fd = Plumb(p, 1, 2)])
StartRight(p) == At(p, "right") /\ Step(p, [Goto(p, proc[p].cmd.right, "runcmd") EXCEPT !.fd = Plumb(p, 0, 1)])

\* Mutant: the parent keeps the write end.
ParentCloses_Read(fd, cmd) == Close(fd, End(fd, cmd, 1))

ParentCloses(fd, cmd) == CloseEnds(fd, cmd)

CloseBoth(p) ==
    /\ At(p, "closeboth")
    /\ Step(p, [Goto(p, proc[p].cmd, "wait1") EXCEPT !.fd = ParentCloses(@, proc[p].cmd)])
WaitBoth(p) ==
    \/ At(p, "wait1") /\ WaitTo(p, Goto(p, proc[p].cmd, "wait2"))
    \/ At(p, "wait2") /\ WaitTo(p, Goto(p, proc[p].cmd, "exit"))

Next ==
    \/ ReadLine \/ ShellForks \/ ShellWaits
    \/ \E p \in Slot :
         \/ Parse(p) \/ RunExec(p) \/ ProgramExits(p) \/ RunRedir(p)
         \/ RunList(p) \/ WaitLeft(p) \/ RunRight(p) \/ RunBack(p) \/ Exits(p)
         \/ RunPipe(p) \/ ForkLeft(p) \/ ForkRight(p) \/ StartLeft(p) \/ StartRight(p)
         \/ CloseBoth(p) \/ WaitBoth(p)

Spec == Init /\ [][Next]_vars

-----------------------------------------------------------------------------
(* Properties *)

\* The programs of a command, with the standard input and output of each.
RECURSIVE Programs(_, _, _)
Programs(c, in, out) ==
    CASE c.type = "EXEC" -> IF c.argv = <<>> THEN {} ELSE {[argv |-> c.argv, in |-> in, out |-> out]}
      [] c.type = "REDIR" -> Programs(c.cmd, IF c.fd = 0 THEN <<"file", c.file>> ELSE in,
                                             IF c.fd = 1 THEN <<"file", c.file>> ELSE out)
      [] c.type = "PIPE" -> Programs(c.left, in, Ends(c)[2]) \cup Programs(c.right, Ends(c)[1], out)
      [] c.type = "LIST" -> Programs(c.left, in, out) \cup Programs(c.right, in, out)
      [] c.type = "BACK" -> Programs(c.cmd, in, out)

Running == {p \in Slot : At(p, "program")}
Foreground == {p \in Running : ~proc[p].back}
Cmd == ParseCmd(Line(line)).cmd

\* A program runs with the standard input and output that its place in the line
\* gives it, however pipes, redirections and parentheses are nested.
RunsAsWritten ==
    \A p \in Foreground :
        [argv |-> proc[p].cmd.argv, in |-> proc[p].fd[0], out |-> proc[p].fd[1]]
          \in Programs(Cmd, Console, Console)

\* Nobody keeps an end of a pipe but the programs on its two sides, once they run: a
\* reader would never see the end of its input.
NoStrayEnds ==
    /\ \A p \in Running : \A d \in FD \ 0..2 : proc[p].fd[d] = Closed
    /\ \A p \in Slot : proc[p].at \in {"prompt", "wait1", "wait2"} =>
            \A d \in FD \ 0..2 : proc[p].fd[d] = Closed

\* The prompt comes back when every process of the line has ended but for those
\* put in the background.
PromptAfterForeground ==
    At(Sh, "prompt") => \A p \in Slot \ {Sh} : At(p, "free") \/ proc[p].back

RECURSIVE Lists(_)
Lists(c) ==
    CASE c.type = "EXEC" -> {}
      [] c.type \in {"REDIR", "BACK"} -> Lists(c.cmd)
      [] c.type = "PIPE" -> Lists(c.left) \cup Lists(c.right)
      [] c.type = "LIST" -> {c} \cup Lists(c.left) \cup Lists(c.right)
ArgvsOf(c) == {x.argv : x \in Programs(c, Console, Console)}

\* Nothing right of a `;` runs together with a foreground program left of it.
ListInOrder ==
    Running # {} =>
      \A c \in Lists(Cmd) : \A p \in Foreground, q \in Running :
        ~(proc[p].cmd.argv \in ArgvsOf(c.left) /\ proc[q].cmd.argv \in ArgvsOf(c.right))

\* The history has the last commands, oldest first; an entry that replaces a longer
\* one still begins with its command (and goes on with the rest of the longer one).
HistoryBegins ==
    LET n == Len(history_of_commands) IN
    /\ n = Min({Len(typed), MAX_NUM_OF_HISTORY})
    /\ \A k \in 1..n : LET c == typed[Len(typed) - n + k] IN
            IsPrefix(c, history_of_commands[k])

\* parsecmd() accepts exactly the lines of a language.
AcceptsExactly(L) == line \notin {History, Cd} => (ParseCmd(line).ok <=> line \in L)

\* Among the lines up to a length, that is the language of the grammar.
CONSTANT MaxLine    \* bound: length of lines compared
AcceptsTheLanguage == Len(line) <= MaxLine => AcceptsExactly(Language(MaxLine))
=============================================================================
