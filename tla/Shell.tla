------------------------------- MODULE Shell -------------------------------
(***************************************************************************)
(* The processes that run a command line: the main loop of sh.c, runcmd(), *)
(* and the part of init.c that adopts what they leave behind.              *)
(*                                                                         *)
(* A descriptor is <<"cons", 0>>, a file <<"in", 0>> or <<"out", 0>>, an   *)
(* end <<"r", k>> or <<"w", k>> of pipe k, or None.  The system calls are  *)
(* external, taken from their use here and in Proc and Pipe: fork() copies *)
(* the descriptors, open() and dup() take the lowest free one, exit()      *)
(* closes all of them and hands the children to init, wait() frees a child *)
(* that exited.  A program ("prog") is external too: it exits when it      *)
(* likes, but one whose input is a pipe reads it to the end first.         *)
(***************************************************************************)
EXTENDS ShellParser, FiniteSets, FiniteSetsExt, TLC

CONSTANTS
    Lines,      \* the lines that are typed while nothing runs
    BusyLines,  \* the lines that are typed while background jobs run
    NPROCS,     \* the slots of the process table that init leaves
    NOFILE      \* the descriptors of a process

VARIABLES
    proc,       \* the process in each slot: what it does, with which descriptors
    line,       \* buf of main(): the line that is run, <<>> at the prompt
    sh,         \* the main shell, 0 while there is none
    initAlive   \* init has not called exit()

vars == <<proc, line, sh, initAlive>>

Slots == 1..NPROCS
INIT == 0
None == <<"none", 0>>
NoPipe == <<0, 0>>
AllClosed == [d \in 0..(NOFILE - 1) |-> None]

FreeSlot ==
    [st |-> "free", cmd |-> execcmd(0), fd |-> AllClosed, p |-> NoPipe, parent |-> INIT]

Unused == {c \in Slots : proc[c].st = "free"}

\* The lowest free descriptor, which open(), dup() and pipe() take.
Lowest(fd) == Min({d \in DOMAIN fd : fd[d] = None})

Close(fd, S) == [d \in DOMAIN fd |-> IF d \in S THEN None ELSE fd[d]]

Open(fd, file) == [fd EXCEPT ![Lowest(fd)] = file]

\* The slots after process p called exit().
Exited(f, p) ==
    [q \in Slots |->
        IF q = p THEN [FreeSlot EXCEPT !.st = "zombie", !.parent = f[p].parent]
        ELSE IF f[q].parent = p /\ f[q].st # "free" THEN [f[q] EXCEPT !.parent = INIT]
        ELSE f[q]]

\* fork1(): a child that continues at st with cmd, while p continues at own; or
\* no slot or no memory, which is panic() and exits.
Fork1(p, st, cmd, own) ==
    \/ /\ Unused # {}
       /\ proc' = [proc EXCEPT ![Min(Unused)] = [proc[p] EXCEPT !.st = st, !.cmd = cmd, !.parent = p],
                               ![p].st = own]
    \/ proc' = Exited(proc, p)

\* What wait() of p may return: a child that exited, or 0 when there is none.
Children(p) == {c \in Slots : proc[c].st # "free" /\ proc[c].parent = p}

WaitResults(p) ==
    IF Children(p) = {} THEN {0} ELSE {c \in Children(p) : proc[c].st = "zombie"}

\* wait(), after which p continues at st.
Wait(p, st) ==
    \E c \in WaitResults(p) :
        proc' = [q \in Slots |-> IF q = c THEN FreeSlot
                                 ELSE IF q = p THEN [proc[p] EXCEPT !.st = st] ELSE proc[q]]

\* The shell that init starts: the console on descriptors 0, 1 and 2.
Started == [FreeSlot EXCEPT !.st = "prompt", !.fd = [d \in DOMAIN AllClosed |->
                                                        IF d < 3 THEN <<"cons", 0>> ELSE None]]

Init ==
    /\ proc = [q \in Slots |-> IF q = 1 THEN Started ELSE FreeSlot]
    /\ line = <<>> /\ sh = 1 /\ initAlive = TRUE

-----------------------------------------------------------------------------
(* main(). *)

\* A line is read and a child forked to run it.  cd changes nothing here and is
\* not among the lines.
Typed == IF Unused = Slots \ {sh} THEN Lines ELSE BusyLines

MainRead ==
    /\ sh # 0 /\ proc[sh].st = "prompt"
    /\ Fork1(sh, "parse", execcmd(0), "wait")
    /\ line' \in Typed
    /\ UNCHANGED <<sh, initAlive>>

\* The end of the input ends the shell.
MainEof ==
    /\ sh # 0 /\ proc[sh].st = "prompt"
    /\ proc' = Exited(proc, sh)
    /\ UNCHANGED <<line, sh, initAlive>>

\* The child is done: back to getcmd(), which clears buf.
MainWait ==
    /\ sh # 0 /\ proc[sh].st = "wait"
    /\ Wait(sh, "prompt")
    /\ line' = <<>>
    /\ UNCHANGED <<sh, initAlive>>

-----------------------------------------------------------------------------
(* runcmd(), in any process. *)

\* parsecmd() of each line, tabulated.
Reading == [l \in Lines |-> parsecmd(l)] @@ [l \in BusyLines |-> parsecmd(l)]

Parse(p) ==
    /\ proc[p].st = "parse"
    /\ LET r == Reading[line] IN
       proc' = IF r.ok THEN [proc EXCEPT ![p].st = "run", ![p].cmd = r.cmd] ELSE Exited(proc, p)

Runs(p, type) == proc[p].st = "run" /\ proc[p].cmd[1] = type

\* The program is executed, or there is none of that name.
RunExec(p) ==
    /\ Runs(p, "exec")
    /\ \/ /\ proc[p].cmd[2] > 0
          /\ proc' = [proc EXCEPT ![p].st = "prog", ![p].cmd = execcmd(0)]
       \/ proc' = Exited(proc, p)

\* open() may fail, which ends the process.
RunRedir(p) ==
    /\ Runs(p, "redir")
    /\ LET fd == proc[p].cmd[2] IN
       \/ proc' = [proc EXCEPT ![p].cmd = proc[p].cmd[3],
                               ![p].fd = Open(Close(@, {fd}), <<IF fd = 0 THEN "in" ELSE "out", 0>>)]
       \/ proc' = Exited(proc, p)

RunList(p) ==
    /\ Runs(p, "list")
    /\ Fork1(p, "run", proc[p].cmd[2], "list")

ListWait(p) ==
    /\ proc[p].st = "list"
    /\ \E c \in WaitResults(p) :
         proc' = [q \in Slots |->
                    IF q = c THEN FreeSlot
                    ELSE IF q = p THEN [proc[p] EXCEPT !.st = "run", !.cmd = proc[p].cmd[3]]
                    ELSE proc[q]]

\* A pipe that nobody holds.
Held(k) == \E q \in Slots : \E d \in DOMAIN proc[q].fd : proc[q].fd[d] \in {<<"r", k>>, <<"w", k>>}

NewPipe == Min({k \in Slots : ~Held(k)})

RunPipe(p) ==
    /\ Runs(p, "pipe")
    /\ \/ LET fd == Open(proc[p].fd, <<"r", NewPipe>>) IN
          proc' = [proc EXCEPT ![p].st = "left",
                               ![p].p = <<Lowest(proc[p].fd), Lowest(fd)>>,
                               ![p].fd = Open(fd, <<"w", NewPipe>>)]
       \/ proc' = Exited(proc, p)

PipeLeft(p) ==
    /\ proc[p].st = "left"
    /\ Fork1(p, "joinLeft", proc[p].cmd[2], "right")

PipeRight(p) ==
    /\ proc[p].st = "right"
    /\ Fork1(p, "joinRight", proc[p].cmd[3], "close")

\* Mutant: the child keeps the ends under their own descriptors.
JoinedLeak(fd, p, std) == Open(Close(fd, {std}), fd[p[std + 1]])

\* A child of a pipeline: close(std), dup(), close(p[0]), close(p[1]).
Joined(fd, p, std) == Close(Open(Close(fd, {std}), fd[p[std + 1]]), {p[1], p[2]})

PipeJoin(p) ==
    /\ proc[p].st \in {"joinLeft", "joinRight"}
    /\ proc' = [proc EXCEPT ![p].st = "run", ![p].p = NoPipe,
                            ![p].fd = Joined(@, proc[p].p, IF proc[p].st = "joinLeft" THEN 1 ELSE 0)]

\* Mutant: the parent of a pipeline waits with both ends open.
PipeCloseNot(p) ==
    /\ proc[p].st = "close"
    /\ proc' = [proc EXCEPT ![p].st = "wait2"]

PipeClose(p) ==
    /\ proc[p].st = "close"
    /\ proc' = [proc EXCEPT ![p].st = "wait2", ![p].p = NoPipe,
                            ![p].fd = Close(@, {proc[p].p[1], proc[p].p[2]})]

PipeWait(p) ==
    \/ proc[p].st = "wait2" /\ Wait(p, "wait1")
    \/ proc[p].st = "wait1" /\ Wait(p, "done")

RunBack(p) ==
    /\ Runs(p, "back")
    /\ Fork1(p, "run", proc[p].cmd[2], "done")

\* The exit() at the end of runcmd().
RunDone(p) ==
    /\ proc[p].st = "done"
    /\ proc' = Exited(proc, p)

runcmd(p) ==
    /\ \/ Parse(p) \/ RunExec(p) \/ RunRedir(p) \/ RunList(p) \/ ListWait(p) \/ RunPipe(p)
       \/ PipeLeft(p) \/ PipeRight(p) \/ PipeJoin(p) \/ PipeClose(p) \/ PipeWait(p)
       \/ RunBack(p) \/ RunDone(p)
    /\ UNCHANGED <<line, sh, initAlive>>

-----------------------------------------------------------------------------
(* External: the programs, and init. *)

\* Somebody may still write to pipe k.
HasWriter(k) == \E q \in Slots : \E d \in DOMAIN proc[q].fd : proc[q].fd[d] = <<"w", k>>

ProgramExit(p) ==
    /\ proc[p].st = "prog"
    /\ proc[p].fd[0][1] = "r" => ~HasWriter(proc[p].fd[0][2])
    /\ proc' = Exited(proc, p)
    /\ UNCHANGED <<line, sh, initAlive>>

\* The loop of wait() in init: it ends with the shell.
InitWait(c) ==
    /\ initAlive /\ sh # 0
    /\ proc[c].st = "zombie" /\ proc[c].parent = INIT
    /\ proc' = [proc EXCEPT ![c] = FreeSlot]
    /\ sh' = IF c = sh THEN 0 ELSE sh
    /\ UNCHANGED <<line, initAlive>>

\* A new shell; init exits when fork() fails.  A child whose exec() fails exits
\* at once, as a shell does that finds the end of its input (MainEof).
InitFork ==
    /\ initAlive /\ sh = 0
    /\ \/ initAlive' = FALSE /\ UNCHANGED <<proc, sh>>
       \/ /\ Unused # {}
          /\ sh' = Min(Unused)
          /\ proc' = [proc EXCEPT ![Min(Unused)] = Started]
          /\ UNCHANGED initAlive
    /\ line' = <<>>

\* What the processes do on their own, without a user who types.
Work ==
    \/ MainWait \/ InitFork
    \/ \E p \in Slots : runcmd(p) \/ ProgramExit(p) \/ InitWait(p)

Next == MainRead \/ MainEof \/ Work

Spec == Init /\ [][Next]_vars

\* Some process that can run does run: less than the scheduler gives, and
\* enough, because a line is a finite amount of work.  Nobody has to type.
Fairness == WF_vars(Work)

FairSpec == Spec /\ Fairness

-----------------------------------------------------------------------------
(* Properties. *)

\* parsecmd() finds the one reading that the grammar gives a line, and refuses
\* exactly the lines that have none.
ParsesGrammar ==
    LET r == parsecmd(line) IN LineOf(line) = IF r.ok THEN {r.cmd} ELSE {}

\* Whatever pipes, redirections, lists and background jobs led to it, a program
\* is executed with the three standard descriptors and no other, the first to
\* read from, the second to write to and the third the console; and no child
\* that the shell forgot to wait for is left to it.
ProgramsConnected ==
    \A p \in Slots : proc[p].st = "prog" =>
        /\ {d \in DOMAIN proc[p].fd : proc[p].fd[d] # None} = {0, 1, 2}
        /\ proc[p].fd[0][1] \in {"cons", "in", "r"}
        /\ proc[p].fd[1][1] \in {"cons", "out", "w"}
        /\ proc[p].fd[2] = <<"cons", 0>>
        /\ Children(p) = {}

\* The wait of main() for a line always ends: every reader of a pipe sees its
\* end, and every process that waits for children gets them.
WaitEnds == (sh # 0 /\ proc[sh].st = "wait") ~> (sh = 0 \/ proc[sh].st = "prompt")

=============================================================================
