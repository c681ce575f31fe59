---------------------------- MODULE ShellParser ----------------------------
(***************************************************************************)
(* The parser of the shell, sh.c: a recursive descent over the tokens of a *)
(* line, and the grammar it is meant to recognise.                         *)
(*                                                                         *)
(* A line is a sequence of the tokens that gettoken() returns: "a" is a    *)
(* word and "+" is >>.  A command is a tuple that starts with its type; an *)
(* "exec" has its argc, a "redir" the descriptor it replaces.              *)
(***************************************************************************)
EXTENDS Naturals, Sequences

CONSTANT MAXARGS        \* the size of argv in struct execcmd

Tokens == {"a", "|", "(", ")", ";", "&", "<", ">", "+"}

execcmd(argc) == <<"exec", argc>>
redircmd(cmd, fd) == <<"redir", fd, cmd>>
pipecmd(left, right) == <<"pipe", left, right>>
listcmd(left, right) == <<"list", left, right>>
backcmd(cmd) == <<"back", cmd>>

\* A parse so far: what was recognised, what is left, and whether panic() was
\* called, which ends the process that parses.
Parsed(cmd, rest) == [cmd |-> cmd, rest |-> rest, ok |-> TRUE]
Syntax == [cmd |-> execcmd(0), rest |-> <<>>, ok |-> FALSE]

\* peek() at the next token, and gettoken() past it.
Peek(s, S) == s # <<>> /\ Head(s) \in S

RedirFd(tok) == IF tok = "<" THEN 0 ELSE 1

RECURSIVE parseredirs(_, _)
parseredirs(cmd, s) ==
    IF ~Peek(s, {"<", ">", "+"}) THEN Parsed(cmd, s)
    ELSE IF ~Peek(Tail(s), {"a"}) THEN Syntax
    ELSE parseredirs(redircmd(cmd, RedirFd(Head(s))), Tail(Tail(s)))

\* The command inside its redirections gets another argument.
RECURSIVE AddArg(_)
AddArg(cmd) ==
    IF cmd[1] = "exec" THEN execcmd(cmd[2] + 1) ELSE redircmd(AddArg(cmd[3]), cmd[2])

\* The loop of parseexec(), after argc arguments.
RECURSIVE ParseArgs(_, _)
ParseArgs(p, argc) ==
    IF ~p.ok \/ p.rest = <<>> \/ Peek(p.rest, {"|", ")", "&", ";"}) THEN p
    ELSE IF ~Peek(p.rest, {"a"}) \/ argc + 1 >= MAXARGS THEN Syntax
    ELSE ParseArgs(parseredirs(AddArg(p.cmd), Tail(p.rest)), argc + 1)

\* Mutant: a line after ; is parsed as a pipeline.
RECURSIVE parselineShort(_), parseline(_)

RECURSIVE parsepipe(_), ParseBacks(_)

parseblock(s) ==
    LET p == parseline(Tail(s)) IN
    IF p.ok /\ Peek(p.rest, {")"}) THEN parseredirs(p.cmd, Tail(p.rest)) ELSE Syntax

parseexec(s) ==
    IF Peek(s, {"("}) THEN parseblock(s) ELSE ParseArgs(parseredirs(execcmd(0), s), 0)

parsepipe(s) ==
    LET p == parseexec(s) IN
    IF p.ok /\ Peek(p.rest, {"|"})
    THEN LET q == parsepipe(Tail(p.rest)) IN [q EXCEPT !.cmd = pipecmd(p.cmd, q.cmd)]
    ELSE p

\* The loop of parseline() over &.
ParseBacks(p) ==
    IF p.ok /\ Peek(p.rest, {"&"}) THEN ParseBacks(Parsed(backcmd(p.cmd), Tail(p.rest))) ELSE p

parselineShort(s) ==
    LET p == ParseBacks(parsepipe(s)) IN
    IF p.ok /\ Peek(p.rest, {";"})
    THEN LET q == parsepipe(Tail(p.rest)) IN [q EXCEPT !.cmd = listcmd(p.cmd, q.cmd)]
    ELSE p

parseline(s) ==
    LET p == ParseBacks(parsepipe(s)) IN
    IF p.ok /\ Peek(p.rest, {";"})
    THEN LET q == parseline(Tail(p.rest)) IN [q EXCEPT !.cmd = listcmd(p.cmd, q.cmd)]
    ELSE p

\* Leftovers are an error.
parsecmd(s) == LET p == parseline(s) IN IF p.ok /\ p.rest = <<>> THEN p ELSE Syntax

-----------------------------------------------------------------------------
(* The grammar, by splitting a sequence: the set of commands it stands for. *)

Upto(s, i) == SubSeq(s, 1, i)
From(s, i) == SubSeq(s, i, Len(s))

\* A sequence of words and redirections, with its number of words.
RECURSIVE Simple(_)
Simple(s) ==
    IF s = <<>> THEN {execcmd(0)}
    ELSE (IF s[Len(s)] = "a" THEN {AddArg(c) : c \in Simple(Upto(s, Len(s) - 1))} ELSE {})
         \cup (IF Len(s) > 1 /\ s[Len(s)] = "a" /\ s[Len(s) - 1] \in {"<", ">", "+"}
               THEN {redircmd(c, RedirFd(s[Len(s) - 1])) : c \in Simple(Upto(s, Len(s) - 2))}
               ELSE {})

RECURSIVE Argc(_)
Argc(cmd) == IF cmd[1] = "exec" THEN cmd[2] ELSE Argc(cmd[3])

RECURSIVE LineOf(_), PipeOf(_), BlockOf(_)

BlockOf(s) ==
    IF Len(s) < 2 THEN {}
    ELSE (IF s[1] = "(" /\ s[Len(s)] = ")" THEN LineOf(SubSeq(s, 2, Len(s) - 1)) ELSE {})
         \cup (IF s[Len(s)] = "a" /\ s[Len(s) - 1] \in {"<", ">", "+"}
               THEN {redircmd(c, RedirFd(s[Len(s) - 1])) : c \in BlockOf(Upto(s, Len(s) - 2))}
               ELSE {})

ExecOf(s) == {c \in Simple(s) : Argc(c) < MAXARGS} \cup BlockOf(s)

PipeOf(s) ==
    ExecOf(s) \cup
    UNION {{pipecmd(c, d) : c \in ExecOf(Upto(s, i - 1)), d \in PipeOf(From(s, i + 1))}
           : i \in {j \in DOMAIN s : s[j] = "|"}}

\* A pipeline followed by any number of &.
RECURSIVE JobOf(_)
JobOf(s) ==
    PipeOf(s) \cup
    (IF s # <<>> /\ s[Len(s)] = "&" THEN {backcmd(c) : c \in JobOf(Upto(s, Len(s) - 1))} ELSE {})

LineOf(s) ==
    JobOf(s) \cup
    UNION {{listcmd(c, d) : c \in JobOf(Upto(s, i - 1)), d \in LineOf(From(s, i + 1))}
           : i \in {j \in DOMAIN s : s[j] = ";"}}

=============================================================================
