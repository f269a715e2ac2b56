---------------------------- MODULE ShellParser ----------------------------
(***************************************************************************)
(* The parser of sh.c, and the language it is meant to accept.  A line is  *)
(* a sequence of the tokens that gettoken() returns; a word is known by    *)
(* its place in the line.                                                  *)
(***************************************************************************)
EXTENDS Integers, Sequences, FiniteSets

CONSTANT MAXARGS    \* 20 in the source

Word == "a"
Tokens == {Word, "|", "(", ")", ";", "&", "<", ">", "+"}

Exec(argv) == [type |-> "EXEC", argv |-> argv]
Redir(cmd, file, fd, mode) == [type |-> "REDIR", cmd |-> cmd, file |-> file, fd |-> fd, mode |-> mode]
Pipe(left, right) == [type |-> "PIPE", left |-> left, right |-> right]
List(left, right) == [type |-> "LIST", left |-> left, right |-> right]
Back(cmd) == [type |-> "BACK", cmd |-> cmd]

\* What a parse function returns: a command, and the place where it stopped.
Parsed(cmd, i) == [ok |-> TRUE, cmd |-> cmd, i |-> i]
SyntaxError == [ok |-> FALSE, cmd |-> Exec(<<>>), i |-> 0]

Peek(line, i, toks) == i <= Len(line) /\ line[i] \in toks

\* One redirection of parseredirs(); `>>` is `>`.
Redirected(cmd, line, i) ==
    CASE line[i] = "<" -> Redir(cmd, i + 1, 0, "RDONLY")
      [] line[i] = ">" -> Redir(cmd, i + 1, 1, "WRONLY|CREATE")
      [] line[i] = "+" -> Redir(cmd, i + 1, 1, "WRONLY|CREATE")

RECURSIVE ParseRedirs(_, _, _), ParseArgs(_, _, _, _)

ParseRedirs(cmd, line, i) ==
    IF ~Peek(line, i, {"<", ">", "+"}) THEN Parsed(cmd, i)
    ELSE IF ~Peek(line, i + 1, {Word}) THEN SyntaxError
    ELSE ParseRedirs(Redirected(cmd, line, i), line, i + 2)

\* Appends an argument to the execcmd inside the redirections.
RECURSIVE AddArg(_, _)
AddArg(cmd, i) == IF cmd.type = "EXEC" THEN Exec(Append(cmd.argv, i))
                  ELSE [cmd EXCEPT !.cmd = AddArg(@, i)]

\* The loop of parseexec().
ParseArgs(cmd, argc, line, i) ==
    IF i > Len(line) \/ Peek(line, i, {"|", ")", "&", ";"}) THEN Parsed(cmd, i)
    ELSE IF line[i] # Word \/ argc + 1 >= MAXARGS THEN SyntaxError
    ELSE LET r == ParseRedirs(AddArg(cmd, i), line, i + 1) IN
         IF r.ok THEN ParseArgs(r.cmd, argc + 1, line, r.i) ELSE SyntaxError

\* The functions that call each other take Parses, what parseline() and parsepipe()
\* return from each place.
ParseBlock(line, i, Parses) ==
    LET body == Parses["line", i + 1] IN
    IF ~body.ok \/ ~Peek(line, body.i, {")"}) THEN SyntaxError
    ELSE ParseRedirs(body.cmd, line, body.i + 1)

ParseExec(line, i, Parses) ==
    IF Peek(line, i, {"("}) THEN ParseBlock(line, i, Parses)
    ELSE LET r == ParseRedirs(Exec(<<>>), line, i) IN
         IF r.ok THEN ParseArgs(r.cmd, 0, line, r.i) ELSE SyntaxError

ParsePipe(line, i, Parses) ==
    LET left == ParseExec(line, i, Parses)
        right == Parses["pipe", left.i + 1] IN
    IF ~left.ok \/ ~Peek(line, left.i, {"|"}) THEN left
    ELSE IF right.ok THEN Parsed(Pipe(left.cmd, right.cmd), right.i) ELSE SyntaxError

\* Mutant: only one `&` is read.
ParseBacks_One(cmd, line, i) ==
    IF Peek(line, i, {"&"}) THEN Parsed(Back(cmd), i + 1) ELSE Parsed(cmd, i)

RECURSIVE ParseAllBacks(_, _, _)
ParseAllBacks(cmd, line, i) ==
    IF Peek(line, i, {"&"}) THEN ParseAllBacks(Back(cmd), line, i + 1) ELSE Parsed(cmd, i)

\* The `&`s of parseline().
ParseBacks(cmd, line, i) == ParseAllBacks(cmd, line, i)

ParseLine(line, i, Parses) ==
    LET pipe == Parses["pipe", i]
        cmd == ParseBacks(pipe.cmd, line, pipe.i)
        rest == Parses["line", cmd.i + 1] IN
    IF ~pipe.ok THEN SyntaxError
    ELSE IF ~Peek(line, cmd.i, {";"}) THEN cmd
    ELSE IF rest.ok THEN Parsed(List(cmd.cmd, rest.cmd), rest.i) ELSE SyntaxError

\* "leftovers".
ParseCmd(line) ==
    LET Parses[what \in {"line", "pipe"}, i \in Nat] ==
            IF what = "line" THEN ParseLine(line, i, Parses) ELSE ParsePipe(line, i, Parses)
        r == Parses["line", 1] IN
    IF r.ok /\ r.i > Len(line) THEN r ELSE SyntaxError

-----------------------------------------------------------------------------
(* The language, by length *)

Join(A, B) == {x \o y : x \in A, y \in B}
Redirs(n) == IF n = 0 THEN {<<>>} ELSE IF n % 2 = 1 THEN {} ELSE
    {[i \in 1..n |-> IF i % 2 = 0 THEN Word ELSE s[(i + 1) \div 2]] :
        s \in [1..(n \div 2) -> {"<", ">", "+"}]}

\* Simple commands: words and redirections in any order, fewer words than MAXARGS.
Simple(n) ==
    LET S[k \in 0..n] == IF k = 0 THEN {<<>>} ELSE
            Join(S[k - 1], {<<Word>>})
              \cup (IF k = 1 THEN {} ELSE Join(S[k - 2], Redirs(2)))
        args(x) == Cardinality({i \in DOMAIN x :
                      x[i] = Word /\ (i = 1 \/ x[i - 1] \notin {"<", ">", "+"})}) IN
    {x \in S[n] : args(x) < MAXARGS}

Language(N) ==
    LET L[n \in 0..N] ==
        LET command(k) == Simple(k) \cup UNION {Join(Join({<<"(">>}, L[m]), Join({<<")">>}, Redirs(k - 2 - m))) :
                                                 m \in 0..(k - 2)}
            P[k \in 0..n] == command(k) \cup UNION {Join(Join(command(j), {<<"|">>}), P[k - 1 - j]) :
                                                     j \in 0..(k - 1)}
            backs(k) == UNION {Join(P[j], {[i \in 1..(k - j) |-> "&"]}) : j \in 0..k} IN
        backs(n) \cup UNION {Join(Join(backs(j), {<<";">>}), L[n - 1 - j]) : j \in 0..(n - 1)} IN
    UNION {L[n] : n \in 0..N}
=============================================================================
