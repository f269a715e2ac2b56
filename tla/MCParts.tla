------------------------------ MODULE MCParts ------------------------------
(***************************************************************************)
(* The parts of the system that do not meet each other, on small instances *)
(* and in one run: those of KernelParts, and others in the same way.       *)
(***************************************************************************)
EXTENDS KernelParts, TLC

\* Frames are interchangeable.
Symmetry == Permutations(SharedFrame)

-----------------------------------------------------------------------------
(* What users type, programs ask for and files hold *)

Keys == {"1", "?", "nl", "^D", "bs", "left", "right", "up", "down", "^U", "^S", "^F", "^P"}

\* A sum, a quotient, a copy and its paste, three lines for the history, editing, an
\* end of input, and an expression that is erased before it is evaluated.
TheOpenings ==
    {<<>>, <<"1", "+", "1", "=", "?">>, <<"7", "/", "2", "=", "?", "nl">>,
     <<"^S", "1", "+", "^F">>, <<"1", "nl", "2", "nl", "3", "nl">>,
     <<"1", "bs", "1", "2", "^D", "nl">>, <<"1", "-", "2", "=", "^U", "?">>,
     <<"1", "2", "left", "3">>}

TheNaps == {1, 2, -1}

TheTests ==
    {"sbrktest_small", "sbrktest_big", "sbrktest_kernel", "sbrktest_full", "validatetest",
     "bsstest", "bigargtest", "exectest", "mem", "forktest", "anything"}

TheImage == <<"text", "zero">>

ThePrograms == << <<6, 7, 6, 7>>, <<7>> >>

Tokens == {"a", "|", "(", ")", ";", "&", "<", ">", "+"}

Nested ==
    {<<"a", "|", "a", "|", "a">>, <<"(", "a", ";", "a", ")", "|", "a">>,
     <<"(", "a", "&", ";", "a", ")", ">", "a">>,
     <<"a", "<", "a", "|", "a", ">", "a", ";", "a">>,
     <<"a", ">", "a", "+", "a">>, <<"(", "a", "|", "a", ")", "&", ";", "a">>}

\* Every line of up to four tokens, some longer ones, and five commands for the history.
TheSessions ==
    {<<l>> : l \in UNION {[1..n -> Tokens] : n \in 0..4} \cup Nested}
      \cup [1..5 -> {<<"a">>, <<"a", "a", "a">>, <<"history">>, <<"cd", "a">>}]

TheTexts ==
    {<<>>, <<"a", "b", "nl", "b", "nl", "a", "b", "nl">>, <<"a", "b", "a", "b", "nl", "b", "nl">>}
      \cup UNION {[1..n -> {"a", "b", "nl"}] : n \in 1..5} \cup [1..4 -> {"a", " ", "nl"}]

ThePatterns ==
    {<<"b">>, <<"^", "a">>, <<"b", "$">>, <<"a", "*", "b">>, <<"^", "a", "*", "$">>,
     <<".", "b">>, <<"a", ".", "*", "$">>}

TheFormats == UNION {[1..n -> {"%", "d", "s", "y"}] : n \in 1..4}

TheArguments ==
    <<[int |-> -128, text |-> <<"a", "%">>], [int |-> 93, text |-> <<>>], [int |-> 0, text |-> <<"b">>]>>

-----------------------------------------------------------------------------

Console_ == INSTANCE Console WITH
    con <- v1, opening <- v2, struck <- v3, reader <- v4, killed <- v5, pending <- v6,
    margin <- v7, straight <- v8,
    INPUT_BUF <- 8, MAX_NUM_OF_HISTORY <- 2, COLS <- 14, Key <- Keys, Openings <- TheOpenings,
    MaxKeys <- 3, ReadSizes <- {1, 9}

Shell_ == INSTANCE Shell WITH
    todo <- v1, line <- v2, proc <- v3, history_of_commands <- v4, typed <- v5,
    MAXARGS <- 4, NPROC <- 8, NFD <- 6, MAX_NUM_OF_HISTORY <- 2, MaxLine <- 4,
    Sessions <- TheSessions

TheLanguage == Shell_!Language(4)

Umalloc_ == INSTANCE Umalloc WITH
    header <- v1, freep <- v2, brk <- v3, live <- v4, own <- v5,
    MINCORE <- 4, Sizes <- {2, 3, 5}, HEAP <- 12, MaxLive <- 3

Grep_ == INSTANCE Grep WITH
    prog <- v1, pattern <- v2, file <- v3, pos <- v4, chunked <- v5, buf <- v6,
    out <- v7, count <- v8, done <- v9,
    Texts <- TheTexts, Patterns <- ThePatterns, BUFSIZE <- 4

CLib_ == INSTANCE CLib WITH
    mem <- v1, old <- v2, call <- v3, ret <- v4,
    SIZE <- 4, W <- 8, Formats <- TheFormats, Arguments <- TheArguments

-----------------------------------------------------------------------------
Init ==
    \/ KernelInit
    \/ which = "Console" /\ Console_!Init /\ Zero8
    \/ which = "Shell" /\ Shell_!Init /\ Zero5
    \/ which = "Umalloc" /\ Umalloc_!Init /\ Zero5
    \/ which = "Grep" /\ Grep_!Init /\ Zero9
    \/ which = "CLib" /\ CLib_!Init /\ Zero4

Next ==
    \/ KernelNext
    \/ /\ UNCHANGED which
       /\ \/ which = "Console" /\ Console_!Next /\ UNCHANGED rest8
          \/ which = "Shell" /\ Shell_!Next /\ UNCHANGED rest5
          \/ which = "Umalloc" /\ Umalloc_!Next /\ UNCHANGED rest5
          \/ which = "Grep" /\ Grep_!Next /\ UNCHANGED rest9
          \/ which = "CLib" /\ CLib_!Next /\ UNCHANGED rest4

Spec == Init /\ [][Next]_vars

-----------------------------------------------------------------------------
(* The properties of the parts, as their modules state them *)

\* The console: a program reads the line that the screen shows, and is woken for it;
\* the buffer stays well formed and a paste inside what was copied.
ReadsWhatIsShown ==
    which = "Console" =>
      /\ Console_!TypeOK
      /\ Console_!ReadsWhatIsShown
      /\ Console_!NoLostWakeup
      /\ Console_!PasteStaysInside

\* The memory tests of usertests.c find no fault.
MemTestsPass == which = "Memory" => Memory!MemTestsPass

\* The parser takes the lines of the grammar and no others; every program of a line
\* runs with the files the line gives it, left of `;` before right, with nobody keeping
\* an end of a pipe; then comes the prompt, and the history begins with the latest.
LinesRunAsWritten ==
    which = "Shell" =>
      /\ v2 \notin Nested => Shell_!AcceptsExactly(TheLanguage)
      /\ Shell_!RunsAsWritten
      /\ Shell_!NoStrayEnds
      /\ Shell_!PromptAfterForeground
      /\ Shell_!ListInOrder
      /\ Shell_!HistoryBegins

\* malloc(): every unit of the heap is in one block; the free list goes round once, in
\* order, and its blocks do not touch.
HeapIsCovered ==
    which = "Umalloc" => Umalloc_!HeapIsCovered /\ Umalloc_!ListInOrder

\* grep prints the matching lines and wc counts the same, however reads cut the text.
ReadsDoNotShow ==
    which = "Grep" => Grep_!GrepPrintsTheLines /\ Grep_!WcCounts

\* Copies, comparisons and printed numbers of the C libraries are right at overlaps,
\* ends and the smallest int; a format means the same to programs and to the kernel.
LibraryIsRight ==
    which = "CLib" =>
      /\ CLib_!MovesWhatWasThere
      /\ CLib_!CopiesStrings
      /\ CLib_!ComparesStrings
      /\ CLib_!PrintsItsValue
      /\ CLib_!OnePrintf
=============================================================================
