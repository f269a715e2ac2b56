----------------------------- MODULE Usertests -----------------------------
(***************************************************************************)
(* The file system tests of usertests.c, and the other programs of the     *)
(* repository that test it, run on the model of the kernel in FileSys.     *)
(*                                                                         *)
(* A test is a sequence of system calls, each with the results the test    *)
(* takes for right; a child it forks runs a sequence of its own.  Loops    *)
(* are cut down to a few rounds, sizes to chunks, printf() is left out.    *)
(***************************************************************************)
EXTENDS FileSys, SequencesExt

VARIABLES
    test,       \* the test that runs
    role, pc,   \* of each process: the fork() it comes from, and its next call
    called,     \* it has made that call
    failed      \* the test has found something wrong

testing == <<test, role, pc, called, failed>>
tvars == <<vars, testing>>

Path(elems) == [absolute |-> FALSE, elems |-> elems]
Root == [absolute |-> TRUE, elems |-> <<>>]

\* Calls.  A path is given by its elements, relative to the current directory.
Mkdir(e) == [op |-> "mkdir", path |-> Path(e)]
Mknod(e) == [op |-> "mknod", path |-> Path(e)]
Rm(e) == [op |-> "unlink", path |-> Path(e)]
Cd(e) == [op |-> "chdir", path |-> Path(e)]
CdRoot == [op |-> "chdir", path |-> Root]
Ln(e, new) == [op |-> "link", path |-> Path(e), new |-> Path(new)]
Mv(e, dest) == [op |-> "move", path |-> Path(e), new |-> dest]
Old(e, mode) == [op |-> "open", path |-> Path(e), create |-> FALSE, mode |-> mode]
New(e) == [op |-> "open", path |-> Path(e), create |-> TRUE, mode |-> "RDWR"]
NewRO(e) == [op |-> "open", path |-> Path(e), create |-> TRUE, mode |-> "RDONLY"]
ReadOf(d, n) == [op |-> "read", d |-> d, n |-> n]
WriteOf(d, chunks) == [op |-> "write", d |-> d, data |-> chunks]
CloseOf(d) == [op |-> "close", d |-> d]
DupOf(d) == [op |-> "dup", d |-> d]
StatOf(d) == [op |-> "fstat", d |-> d]
ForkOf(calls) == [op |-> "fork", child |-> calls]
Wait == [op |-> "wait"]
Either(calls) == [op |-> "either", calls |-> calls]

PathOps == {"mkdir", "mknod", "unlink", "chdir", "link", "move", "open"}

\* A call with the results that let the test go on; with "data", what it must
\* have copied out.
Do(c) == [call |-> c, want |-> -1..99, data |-> {}]
Ok(c) == [call |-> c, want |-> 0..99, data |-> {}]
Fails(c) == [call |-> c, want |-> {-1}, data |-> {}]
Returns(n, c) == [call |-> c, want |-> {n}, data |-> {}]
Reads(d, n, contents) ==
    [call |-> ReadOf(d, n), want |-> {Len(x) : x \in contents}, data |-> contents]

Repeat(n, Calls(_)) == FlattenSeq([k \in 1..n |-> Calls(k)])

-----------------------------------------------------------------------------
(* Names and links *)

iputtest == <<Ok(Mkdir(<<"iputdir">>)), Ok(Cd(<<"iputdir">>)),
              Ok(Rm(<<"..", "iputdir">>)), Ok(CdRoot)>>

exitiputtest ==
    <<Do(ForkOf(<<Ok(Mkdir(<<"iputdir">>)), Ok(Cd(<<"iputdir">>)),
                   Ok(Rm(<<"..", "iputdir">>))>>)),
      Do(Wait)>>

openiputtest ==
    <<Ok(Mkdir(<<"oidir">>)),
      Do(ForkOf(<<Fails(Old(<<"oidir">>, "RDWR"))>>)),
      Ok(Rm(<<"oidir">>)), Do(Wait)>>

opentest == <<Ok(Old(<<"echo">>, "RDONLY")), Do(CloseOf(0)),
              Fails(Old(<<"doesnotexist">>, "RDONLY"))>>

createtest ==
    LET names == <<"a0", "a1", "a2">> IN
    Repeat(3, LAMBDA k : <<Do(New(<<names[k]>>)), Do(CloseOf(0))>>)
      \o Repeat(3, LAMBDA k : <<Do(Rm(<<names[k]>>))>>)

dirtest == <<Ok(Mkdir(<<"dir0">>)), Ok(Cd(<<"dir0">>)), Ok(Cd(<<"..">>)),
             Ok(Rm(<<"dir0">>))>>

unlinkread ==
    <<Ok(New(<<"unlinkread">>)), Do(WriteOf(0, <<"hello">>)), Do(CloseOf(0)),
      Ok(Old(<<"unlinkread">>, "RDWR")), Returns(0, Rm(<<"unlinkread">>)),
      Do(New(<<"unlinkread">>)), Do(WriteOf(1, <<"yyy">>)), Do(CloseOf(1)),
      Reads(0, 8, {<<"hello">>}), Returns(1, WriteOf(0, <<"hello">>)),
      Do(CloseOf(0)), Do(Rm(<<"unlinkread">>))>>

linktest ==
    <<Do(Rm(<<"lf1">>)), Do(Rm(<<"lf2">>)),
      Ok(New(<<"lf1">>)), Returns(1, WriteOf(0, <<"hello">>)), Do(CloseOf(0)),
      Ok(Ln(<<"lf1">>, <<"lf2">>)), Do(Rm(<<"lf1">>)),
      Fails(Old(<<"lf1">>, "RDONLY")),
      Ok(Old(<<"lf2">>, "RDONLY")), Reads(0, 8, {<<"hello">>}), Do(CloseOf(0)),
      Fails(Ln(<<"lf2">>, <<"lf2">>)), Do(Rm(<<"lf2">>)),
      Fails(Ln(<<"lf2">>, <<"lf1">>)), Fails(Ln(<<".">>, <<"lf1">>))>>

bigdir ==
    LET names == <<"x00", "x01", "x02">> IN
    <<Do(Rm(<<"bd">>)), Ok(NewRO(<<"bd">>)), Do(CloseOf(0))>>
      \o Repeat(3, LAMBDA k : <<Returns(0, Ln(<<"bd">>, <<names[k]>>))>>)
      \o <<Do(Rm(<<"bd">>))>>
      \o Repeat(3, LAMBDA k : <<Returns(0, Rm(<<names[k]>>))>>)

subdir_tree ==
    LET dd == "dd"  ff == "ff"  ffff == "ffff" IN
    <<Do(Rm(<<ff>>)), Returns(0, Mkdir(<<dd>>)),
      Ok(New(<<dd, ff>>)), Do(WriteOf(0, <<"ff">>)), Do(CloseOf(0)),
      Fails(Rm(<<dd>>)), Returns(0, Mkdir(<<dd, dd>>)),
      Ok(New(<<dd, dd, ff>>)), Do(WriteOf(0, <<"FF">>)), Do(CloseOf(0)),
      Ok(Old(<<dd, dd, "..", ff>>, "RDONLY")), Reads(0, 8, {<<"ff">>}), Do(CloseOf(0)),
      Returns(0, Ln(<<dd, dd, ff>>, <<dd, dd, ffff>>)),
      Returns(0, Rm(<<dd, dd, ff>>)), Fails(Old(<<dd, dd, ff>>, "RDONLY")),
      Returns(0, Cd(<<dd>>)), Returns(0, Cd(<<dd, "..", "..", dd>>)),
      Returns(0, Cd(<<dd, "..", "..", "..", dd>>)), Returns(0, Cd(<<".", "..">>)),
      Ok(Old(<<dd, dd, ffff>>, "RDONLY")), Reads(0, 8, {<<"FF">>}), Do(CloseOf(0)),
      Fails(Old(<<dd, dd, ff>>, "RDONLY"))>>

subdir_errors ==
    LET dd == "dd"  ff == "ff"  ffff == "ffff"  xx == "xx" IN
    <<Fails(New(<<dd, ff, ff>>)), Fails(New(<<dd, xx, ff>>)), Fails(NewRO(<<dd>>)),
      Fails(Old(<<dd>>, "RDWR")), Fails(Old(<<dd>>, "WRONLY")),
      Fails(Ln(<<dd, ff, ff>>, <<dd, dd, xx>>)), Fails(Ln(<<dd, xx, ff>>, <<dd, dd, xx>>)),
      Fails(Ln(<<dd, ff>>, <<dd, dd, ffff>>)), Fails(Mkdir(<<dd, ff, ff>>)),
      Fails(Mkdir(<<dd, xx, ff>>)), Fails(Mkdir(<<dd, dd, ffff>>)),
      Fails(Rm(<<dd, xx, ff>>)), Fails(Rm(<<dd, ff, ff>>)),
      Fails(Cd(<<dd, ff>>)), Fails(Cd(<<dd, xx>>)),
      Returns(0, Rm(<<dd, dd, ffff>>)), Returns(0, Rm(<<dd, ff>>)),
      Fails(Rm(<<dd>>)), Ok(Rm(<<dd, dd>>)), Ok(Rm(<<dd>>))>>

subdir == subdir_tree \o subdir_errors

\* skipelem() cuts a name down to DIRSIZ characters.
Cut(name) == IF name = "123456789012345" THEN "12345678901234" ELSE name

fourteen ==
    LET n14 == "12345678901234"  n15 == Cut("123456789012345") IN
    <<Returns(0, Mkdir(<<n14>>)), Returns(0, Mkdir(<<n14, n15>>)),
      Ok(NewRO(<<n15, n15, n15>>)), Do(CloseOf(0)),
      Ok(Old(<<n14, n14, n14>>, "RDONLY")), Do(CloseOf(0)),
      Fails(Mkdir(<<n14, n14>>)), Fails(Mkdir(<<n15, n14>>))>>

rmdot ==
    <<Returns(0, Mkdir(<<"dots">>)), Returns(0, Cd(<<"dots">>)),
      Fails(Rm(<<".">>)), Fails(Rm(<<"..">>)), Returns(0, CdRoot),
      Fails(Rm(<<"dots", ".">>)), Fails(Rm(<<"dots", "..">>)), Returns(0, Rm(<<"dots">>))>>

dirfile ==
    LET xx == <<"dirfile", "xx">> IN
    <<Ok(NewRO(<<"dirfile">>)), Do(CloseOf(0)), Fails(Cd(<<"dirfile">>)),
      Fails(Old(xx, "RDONLY")), Fails(NewRO(xx)), Fails(Mkdir(xx)), Fails(Rm(xx)),
      Fails(Ln(<<"README">>, xx)), Returns(0, Rm(<<"dirfile">>)),
      Fails(Old(<<".">>, "RDWR")), Do(Old(<<".">>, "RDONLY")),
      Fails(WriteOf(0, <<"x">>)), Do(CloseOf(0))>>

\* Deeper than the inode cache is large.
iref ==
    Repeat(NINODE + 1, LAMBDA k :
      <<Returns(0, Mkdir(<<"irefd">>)), Returns(0, Cd(<<"irefd">>)),
        Do(Mkdir(<<>>)), Do(Ln(<<"README">>, <<>>)), Do(NewRO(<<>>)),
        Do(NewRO(<<"xx">>)), Do(CloseOf(0)), Do(Rm(<<"xx">>))>>)
      \o <<Do(CdRoot)>>

-----------------------------------------------------------------------------
(* Contents *)

writetest ==
    <<Ok(New(<<"small">>)),
      Returns(1, WriteOf(0, <<"aa">>)), Returns(1, WriteOf(0, <<"bb">>)), Do(CloseOf(0)),
      Ok(Old(<<"small">>, "RDONLY")), Reads(0, 2, {<<"aa", "bb">>}), Do(CloseOf(0)),
      Ok(Rm(<<"small">>))>>

\* Writes that filewrite() splits into several transactions.
bigwrite ==
    <<Do(Rm(<<"bigwrite">>)), Ok(New(<<"bigwrite">>)),
      Returns(3, WriteOf(0, <<"x", "y", "z">>)), Returns(3, WriteOf(0, <<"x", "y", "z">>)),
      Do(CloseOf(0)), Do(Rm(<<"bigwrite">>))>>

bigfile ==
    <<Do(Rm(<<"bigfile">>)), Ok(New(<<"bigfile">>)),
      Returns(2, WriteOf(0, <<"0", "0">>)), Returns(2, WriteOf(0, <<"1", "1">>)),
      Do(CloseOf(0)), Ok(Old(<<"bigfile">>, "RDONLY"))>>
      \o <<Reads(0, 1, {<<"0">>}), Reads(0, 1, {<<"0">>}), Reads(0, 1, {<<"1">>}),
           Reads(0, 1, {<<"1">>}), Reads(0, 1, {<<>>}),
           Do(CloseOf(0)), Do(Rm(<<"bigfile">>))>>

\* init.c before its loop: descriptors 0, 1 and 2 share the console.
init ==
    <<Fails(Old(<<"console">>, "RDWR")), Do(Mknod(<<"console">>)),
      Returns(0, Old(<<"console">>, "RDWR")), Returns(1, DupOf(0)), Returns(2, DupOf(0)),
      Returns(0, StatOf(2))>>

-----------------------------------------------------------------------------
(* Several processes *)

sharedfd ==
    LET writes(x) == <<Returns(1, WriteOf(0, <<x>>)), Returns(1, WriteOf(0, <<x>>))>>
        both == {x \in [1..4 -> {"c", "p"}] : Cardinality({k \in 1..4 : x[k] = "c"}) = 2} IN
    <<Do(Rm(<<"sharedfd">>)), Ok(New(<<"sharedfd">>)), Do(ForkOf(writes("c")))>>
      \o writes("p")
      \o <<Do(Wait), Do(CloseOf(0)), Ok(Old(<<"sharedfd">>, "RDONLY")),
           Reads(0, 8, both), Do(CloseOf(0)), Do(Rm(<<"sharedfd">>))>>

fourfiles ==
    LET child(n, x) == <<Do(Rm(<<n>>)),
                         Do(ForkOf(<<Ok(New(<<n>>)), Returns(2, WriteOf(0, <<x, x>>))>>))>>
        look(n, x) == <<Do(Old(<<n>>, "RDONLY")), Reads(0, 8, {<<x, x>>}), Do(CloseOf(0)),
                        Do(Rm(<<n>>))>> IN
    child("f0", "0") \o child("f1", "1") \o <<Do(Wait)>> \o look("f0", "0") \o look("f1", "1")

createdelete ==
    LET name == <<<<"p0", "q0">>, <<"p1", "q1">>, <<"p2", "q2">>, <<"p3", "q3">>>>
        new(k, c) == <<Ok(New(<<name[k][c]>>)), Do(CloseOf(0))>>
        child(c) == <<Do(ForkOf(new(1, c) \o new(2, c) \o new(3, c)
                                   \o <<Ok(Rm(<<name[2][c]>>))>> \o new(4, c)))>>
        look(k, c) == IF k = 2 THEN <<Fails(Old(<<name[k][c]>>, "RDONLY"))>>
                      ELSE <<Ok(Old(<<name[k][c]>>, "RDONLY")), Do(CloseOf(0))>> IN
    child(1) \o child(2) \o <<Do(Wait)>>
      \o Repeat(4, LAMBDA k : look(k, 1) \o look(k, 2))
      \o <<Do(Rm(<<"p0">>)), Do(Rm(<<"q1">>)), Do(Rm(<<"r2">>)), Do(Rm(<<"s3">>))>>

concreate ==
    LET C == <<"C0", "C1", "C2">>
        new(n) == <<Ok(New(<<n>>)), Do(CloseOf(0))>>
        link(n) == <<Do(Ln(<<"C0">>, <<n>>))>>
        open(n) == <<Do(Old(<<n>>, "RDONLY")), Do(CloseOf(0))>>
        parent == <<new("C0"), link("C1"), new("C2")>>
        child == <<new("C0"), link("C1"), new("C2")>>
        round(k) == <<Do(Rm(<<C[k]>>)), Do(ForkOf(child[k]))>> \o parent[k] \o <<Do(Wait)>>
        rm(n) == <<Do(Rm(<<n>>)), Do(Rm(<<n>>))>>
        first == <<rm("C0"), open("C1"), rm("C2")>>
        second == <<open("C0"), rm("C1"), rm("C2")>>
        end(k) == <<Do(ForkOf(second[k]))>> \o first[k] \o <<Do(Wait)>>
        exists(k) == <<Ok(Old(<<C[k]>>, "RDONLY")), Do(CloseOf(0))>> IN
    Repeat(3, round) \o Repeat(3, exists) \o Repeat(3, end)

\* The random numbers choose: any of the three calls, each time.
linkunlink ==
    LET one == <<Do(Either({New(<<"x">>), Ln(<<"cat">>, <<"x">>), Rm(<<"x">>)})),
                 Do(CloseOf(0))>> IN
    <<Do(Rm(<<"x">>)), Do(ForkOf(one))>> \o one \o <<Do(Wait)>>

\* main() of stressfs.c, with one child.
stressfs ==
    LET body(n) == <<Do(New(<<n>>)), Do(WriteOf(0, <<"a">>)), Do(WriteOf(0, <<"a">>)),
                     Do(CloseOf(0)), Do(Old(<<n>>, "RDONLY")),
                     Reads(0, 1, {<<"a">>}), Reads(0, 1, {<<"a">>}), Do(CloseOf(0))>> IN
    <<Do(ForkOf(body("stressfs1")))>> \o body("stressfs0") \o <<Do(Wait)>>

\* move_file.c, as root, and what a user does next.
moving == <<Ok(New(<<"f">>)), Do(WriteOf(0, <<"x">>)), Do(CloseOf(0)), Do(Mkdir(<<"d">>)),
            Returns(0, Mv(<<"f">>, [absolute |-> TRUE, elems |-> <<"d">>])),
            Fails(Old(<<"f">>, "RDONLY")),
            Ok(Old(<<"d", "f">>, "RDONLY")), Reads(0, 8, {<<"x">>}), Do(CloseOf(0)),
            Fails(Mv(<<"f">>, Root)), Fails(Mv(<<"d">>, Root)),
            Ok(New(<<"f">>)), Do(CloseOf(0)), Fails(Mv(<<"f">>, Path(<<"d">>)))>>

movingaway == <<Do(Mkdir(<<"d">>)), Ok(New(<<"d", "f">>)), Do(CloseOf(0)),
                Returns(0, Mv(<<"d", "f">>, Root)), Do(Rm(<<"d">>))>>

\* Not a program of the repository: descriptors that are not open, or run out.
descriptors ==
    <<Fails(ReadOf(0, 1)), Fails(StatOf(0)), Fails(CloseOf(0)), Fails(DupOf(0)),
      Ok(Old(<<"cat">>, "WRONLY"))>>
      \o Repeat(NOFILE - 1, LAMBDA k : <<Returns(k, DupOf(0))>>)
      \o <<Fails(Old(<<"cat">>, "RDONLY")), Fails(DupOf(0)), Fails(ReadOf(1, 1)),
           Returns(0, CloseOf(0)), Returns(0, New(<<"cat">>))>>

\* Not a program of the repository: two processes, each with two calls of any
\* kind on one file and one directory.
race ==
    LET d == <<"d">>  a == <<"d", "a">>
        first == {Ln(<<"cat">>, a), NewRO(a), Old(d, "RDONLY"), Rm(a), Rm(d), Cd(d)}
        second == {Rm(<<"cat">>), Rm(a), Rm(d), Mkdir(d), CloseOf(0)}
        two == <<Do(Either(first)), Do(Either(second))>> IN
    <<Do(Mkdir(d)), Do(ForkOf(two))>> \o two

-----------------------------------------------------------------------------
(* Running them *)

Test == [moving |-> moving, movingaway |-> movingaway, descriptors |-> descriptors, race |-> race,
         iputtest |-> iputtest, exitiputtest |-> exitiputtest,
         openiputtest |-> openiputtest, opentest |-> opentest, createtest |-> createtest,
         dirtest |-> dirtest, unlinkread |-> unlinkread, linktest |-> linktest,
         bigdir |-> bigdir, subdir |-> subdir, fourteen |-> fourteen, rmdot |-> rmdot,
         dirfile |-> dirfile, iref |-> iref, writetest |-> writetest,
         bigwrite |-> bigwrite, bigfile |-> bigfile, init |-> init,
         sharedfd |-> sharedfd, fourfiles |-> fourfiles, createdelete |-> createdelete,
         concreate |-> concreate, linkunlink |-> linkunlink, stressfs |-> stressfs]

\* Tests that call sys_move_file().
Moving == {"moving", "movingaway"}

\* What a test runs: its own calls, and those of the children it forks.
Children(t) ==
    {Test[t][k].call.child : k \in {j \in DOMAIN Test[t] : Test[t][j].call.op = "fork"}}
Scripts(t) == {Test[t]} \cup Children(t)
Choice(c) == IF c.op = "either" THEN c.calls ELSE {c}

\* A call a program can make.
IsTestCall(c) ==
    /\ c.op \in PathOps => IsCall(c)
    /\ c.op \in {"read", "write", "close", "dup", "fstat"} => c.d \in Fd
    /\ c.op = "read" => c.n \in Nat

\* What tests run are sequences of such calls, and children fork no children.
ASSUME TestsAssumption ==
    \A t \in DOMAIN Test :
        /\ \A s \in Scripts(t) :
             /\ Len(s) \in Nat /\ DOMAIN s = 1..Len(s)
             /\ \A k \in DOMAIN s : \A c \in Choice(s[k].call) :
                  IsTestCall(c) /\ (c.op = "move" => t \in Moving)
        /\ \A s \in Children(t) : \A k \in DOMAIN s : s[k].call.op # "fork"

TestInit(Tests) ==
    /\ Init
    /\ test \in Tests
    /\ role = [p \in Proc |-> 0]
    /\ pc = [p \in Proc |-> 1]
    /\ called = [p \in Proc |-> FALSE]
    /\ failed = FALSE

Script(p) == IF role[p] = 0 THEN Test[test] ELSE Test[test][role[p]].call.child
Current(p) == Script(p)[pc[p]]
Running(p) == User(p) /\ ~failed /\ pc[p] <= Len(Script(p))

\* p makes its next call, c.
Makes(p, c) ==
    \/ c.op \in PathOps /\ PathCall(p, c)
    \/ c.op = "read" /\ Read(p, c.d, c.n)
    \/ c.op = "write" /\ Write(p, c.d, c.data)
    \/ c.op = "close" /\ Close(p, c.d)
    \/ c.op = "dup" /\ Dup(p, c.d)
    \/ c.op = "fstat" /\ Fstat(p, c.d)
    \/ /\ c.op = "wait" /\ \A q \in Proc \ {p} : fr[q].at = "unused" /\ puts[q] = <<>>
       /\ UNCHANGED vars

CallStep(p) ==
    /\ Running(p) /\ ~called[p] /\ Current(p).call.op # "fork"
    /\ \E c \in Choice(Current(p).call) : Makes(p, c)
    /\ called' = [called EXCEPT ![p] = TRUE]
    /\ UNCHANGED <<test, role, pc, failed>>

\* The child starts with its own calls; exit() follows the last one.
ForkStep(p) ==
    /\ Running(p) /\ Current(p).call.op = "fork"
    /\ \E q \in Proc :
         /\ q = Min({r \in Proc : fr[r].at = "unused" /\ puts[r] = <<>>})
         /\ Fork(p, q)
         /\ role' = [role EXCEPT ![q] = pc[p]]
         /\ pc' = [pc EXCEPT ![p] = @ + 1, ![q] = 1]
    /\ UNCHANGED <<test, called, failed>>

Right(p) ==
    /\ result[p] \in Current(p).want
    /\ Current(p).data # {} => buf[p] \in Current(p).data

CheckStep(p) ==
    /\ Running(p) /\ called[p]
    /\ failed' = ~Right(p)
    /\ pc' = [pc EXCEPT ![p] = @ + 1]
    /\ called' = [called EXCEPT ![p] = FALSE]
    /\ UNCHANGED <<vars, test, role>>

ExitStep(p) == pc[p] > Len(Script(p)) /\ Exit(p) /\ UNCHANGED testing

KernelTestStep(p) == KernelStep(p) /\ UNCHANGED testing

TestNext == \E p \in Proc :
    CallStep(p) \/ ForkStep(p) \/ CheckStep(p) \/ ExitStep(p) \/ KernelTestStep(p)

-----------------------------------------------------------------------------
(* Properties *)

\* Every call of every test, in every interleaving, gives what the test expects,
\* and the kernel does not panic.
TestsPass == ~failed /\ NoPanic

\* All of a test is over.
Over == Quiet /\ \A p \in Proc : fr[p].at = "unused" \/ pc[p] > Len(Script(p))

\* The counts of references and of links are exact: of files by descriptors, of
\* inodes by files, directories and locals, of links by names and subdirectories;
\* but for sys_move_file(), which forgets an iput() and an iupdate().
AccurateRefs == TypeOK /\ FileRefs /\ (test \notin Moving => InodeRefs)
AccurateLinks == NamesAreCovered /\ (test \notin Moving => DirLinks)

\* Tests in which a process unlinks an inode to which another one may still hold
\* a reference, if only in the last lines of an iput() that has freed it before:
\* iput() can lose the inode there (FileSys, UnlinkedIsFreed).
Racing == {"openiputtest", "createdelete", "concreate", "linkunlink", "race"}

\* When any other test is over, all it has unlinked and closed is gone: no inode
\* without a name is left on the disk, and no reference in the inode cache.
NothingLeaks ==
    Over /\ test \notin Racing \cup Moving /\ ~failed =>
      \A i \in Inum \ {ROOTINO} :
        /\ dinode[i].type # "free" => Names(i) # {}
        /\ inode[i].ref = Cardinality({f \in File : file[f].ip = i})
=============================================================================
