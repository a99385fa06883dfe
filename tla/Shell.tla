------------------------------- MODULE Shell -------------------------------
(***************************************************************************)
(* The shell, parser-for-shell-noodlez102/myshell.c, with the processes it *)
(* starts, their pipes and SIGCHLD.  Lines come from a terminal; what the  *)
(* parser makes of them is the subject of Parser.  Left out: errors of     *)
(* pipe and fork, and the memory of pipelines.                             *)
(*                                                                         *)
(* A line is [valid, background, commands]; a command is [opens, reads,    *)
(* writes]: whether the files it is redirected to can be opened, whether   *)
(* its program reads all its input first, and how much it writes then.  A  *)
(* file in the place of the terminal changes nothing else, and a program   *)
(* that reads from either finds the end at once.                           *)
(*                                                                         *)
(* The kernel delivers a signal before the shell's next step.  It ends the *)
(* call the shell is blocked in, for sa_flags is 0, but waitpid looks for  *)
(* its child first.  Assumption: SIGCHLD comes from children that ended.   *)
(* Without SA_NOCLDSTOP one that is stopped or continued raises it too and *)
(* ends those calls as well; nobody stops children here.                   *)
(***************************************************************************)
EXTENDS Naturals, Sequences

CONSTANTS
  Scripts,     \* what users type: sequences of lines
  Capacity,    \* what a pipe holds
  MaxStages,   \* commands in a line
  MaxRuns      \* bound on the lines that are run, the repeated ones included

\* What the parser hands over; each line that is typed has its own number.
CommandLine == [number : Nat \ {0}, valid : BOOLEAN, background : BOOLEAN,
                commands : Seq([opens : BOOLEAN, reads : BOOLEAN, writes : Nat])]

ASSUME ShellAssumption ==
  /\ {Capacity, MaxStages, MaxRuns} \subseteq Nat \ {0}
  /\ Scripts \subseteq Seq(CommandLine)
  /\ \A s \in Scripts : /\ \A i \in 1 .. Len(s) : Len(s[i].commands) \in 1 .. MaxStages
                        /\ \A i, j \in 1 .. Len(s) : s[i].number = s[j].number => i = j

VARIABLES
  pc,         \* where the shell is
  script,     \* lines that are still to be typed
  input,      \* the buffer of fgets
  stage,      \* the command doCommand is at
  input_fd,   \* the pipe it reads from, 0 for the terminal
  ends,       \* ends of pipes the shell has open: <<pipe, "r">> or <<pipe, "w">>
  procs,      \* the processes, in the order of fork; process p has pipe p
  pipes,      \* how much each pipe holds
  pending,    \* SIGCHLD is pending
  executed    \* auxiliary: the lines that were run, by number

shellVars == <<script, input, stage, input_fd, ends>>
vars == <<pc, shellVars, procs, pipes, pending, executed>>

Pids == 1 .. MaxStages * MaxRuns
NoLine == [number |-> 0]

Init ==
  /\ pc = "prompt"
  /\ script \in Scripts
  /\ input = NoLine
  /\ stage = 0
  /\ input_fd = 0
  /\ ends = {}
  /\ procs = <<>>
  /\ pipes = <<>>
  /\ pending = FALSE
  /\ executed = <<>>

-----------------------------------------------------------------------------
(* main                                                                    *)

CallFgets ==
  /\ pc = "prompt" /\ ~pending
  /\ pc' = "reading"
  /\ UNCHANGED <<shellVars, procs, pipes, pending, executed>>

\* The rest of the loop for the line in the buffer: pipeline_build, and the first command.
Run(line) ==
  /\ executed' = Append(executed, line.number)
  /\ IF line.valid THEN pc' = "fork" /\ stage' = 1 /\ input_fd' = 0
                   ELSE pc' = "prompt" /\ UNCHANGED <<stage, input_fd>>

Type ==
  /\ pc = "reading" /\ ~pending
  /\ script # <<>> /\ Len(executed) < MaxRuns
  /\ input' = Head(script)
  /\ script' = Tail(script)
  /\ Run(Head(script))
  /\ UNCHANGED <<ends, procs, pipes, pending>>

Eof ==
  /\ pc = "reading" /\ ~pending
  /\ pc' = "exited"
  /\ UNCHANGED <<shellVars, procs, pipes, pending, executed>>

-----------------------------------------------------------------------------
(* doCommand, the parent                                                   *)

Child == Len(procs)
AtEnd == stage = Len(input.commands)

\* Mutant of AfterFork: doCommand waits for nobody.
AfterForkNoWait == "close"

AfterFork == IF input.background THEN "close" ELSE "forked"

\* pipe and fork.  The child inherits every end the shell has open.
Fork ==
  /\ pc = "fork" /\ ~pending
  /\ LET p == Len(procs) + 1
         held == ends \cup {<<p, "r">>, <<p, "w">>}
         command == input.commands[stage]
     IN  /\ ends' = held
         /\ procs' = Append(procs, [state |-> "forked", command |-> command,
                                    background |-> input.background, end |-> AtEnd,
                                    ends |-> held, in |-> input_fd, out |-> 0,
                                    eof |-> FALSE, got |-> 0, left |-> command.writes])
         /\ pipes' = Append(pipes, 0)
  /\ pc' = AfterFork
  /\ UNCHANGED <<script, input, stage, input_fd, pending, executed>>

CallWaitpid ==
  /\ pc = "forked" /\ ~pending
  /\ pc' = "waiting"
  /\ UNCHANGED <<shellVars, procs, pipes, pending, executed>>

WaitpidReturns ==
  /\ pc = "waiting"
  /\ \/ procs[Child].state = "zombie" /\ procs' = [procs EXCEPT ![Child].state = "reaped"]
     \/ procs[Child].state = "reaped" /\ UNCHANGED procs
  /\ pc' = "close"
  /\ UNCHANGED <<shellVars, pipes, pending, executed>>

\* Mutants of Closed: the read end of the last pipe, or every write end, stays open.
ClosedButLast == {<<Child, "w">>, <<input_fd, "r">>}
ClosedButWriter == {<<input_fd, "r">>} \cup (IF AtEnd THEN {<<Child, "r">>} ELSE {})

\* What doCommand closes: the ends it keeps are the input of the next command.
Closed == {<<Child, "w">>, <<input_fd, "r">>} \cup (IF AtEnd THEN {<<Child, "r">>} ELSE {})

Close ==
  /\ pc = "close" /\ ~pending
  /\ ends' = ends \ Closed
  /\ IF AtEnd THEN pc' = "prompt" /\ UNCHANGED <<stage, input_fd>>
              ELSE pc' = "fork" /\ stage' = stage + 1 /\ input_fd' = Child
  /\ UNCHANGED <<script, input, procs, pipes, pending, executed>>

-----------------------------------------------------------------------------
(* signalHandler                                                           *)

Zombies == {p \in DOMAIN procs : procs[p].state = "zombie"}

\* Mutant of Reaped: signalHandler calls waitpid once.
ReapedOne == IF Zombies = {} THEN procs
             ELSE [procs EXCEPT ![CHOOSE p \in Zombies : TRUE].state = "reaped"]

Reaped == [p \in DOMAIN procs |->
             IF p \in Zombies THEN [procs[p] EXCEPT !.state = "reaped"] ELSE procs[p]]

\* fgets returns NULL, feof is false and the line in the buffer is run again.  At the bound
\* the model stops.
Interrupted ==
  CASE pc = "waiting" -> pc' = "close" /\ UNCHANGED <<stage, input_fd, executed>>
    [] pc = "reading" /\ Len(executed) < MaxRuns -> Run(input)
    [] pc = "reading" /\ Len(executed) = MaxRuns -> pc' = "exited" /\ UNCHANGED <<stage, input_fd, executed>>
    [] OTHER -> UNCHANGED <<pc, stage, input_fd, executed>>

SignalHandler ==
  /\ pending /\ pc # "exited"
  /\ pc = "waiting" => Child \notin Zombies
  /\ procs' = Reaped
  /\ pending' = FALSE
  /\ Interrupted
  /\ UNCHANGED <<script, input, ends, pipes>>

-----------------------------------------------------------------------------
(* doCommand, the child, and the program it becomes                        *)

Ended(p) == /\ procs' = [procs EXCEPT ![p].state = "zombie", ![p].ends = {}]
            /\ pending' = TRUE

\* Mutant of KeptEnds: every child closes fd[1].
KeptEndsNoWriter(p) == procs[p].ends \ {<<p, "w">>}

\* The ends a child keeps, and where its output goes, when it calls execvp.
KeptEnds(p) == IF procs[p].background THEN procs[p].ends \ {<<p, "w">>} ELSE procs[p].ends
OutputOf(p) == IF ~procs[p].end /\ <<p, "w">> \in KeptEnds(p) THEN p ELSE 0

Exec(p) ==
  /\ procs[p].state = "forked"
  /\ IF procs[p].command.opens
     THEN /\ procs' = [procs EXCEPT ![p].state = "running", ![p].ends = KeptEnds(p),
                                    ![p].out = OutputOf(p)]
          /\ UNCHANGED pending
     ELSE Ended(p)
  /\ UNCHANGED <<pc, shellVars, pipes, executed>>

Reading(p) == procs[p].state = "running" /\ procs[p].command.reads /\ procs[p].in # 0 /\ ~procs[p].eof
Writing(p) == procs[p].state = "running" /\ ~Reading(p)

Writers(q) == {p \in DOMAIN procs : <<q, "w">> \in procs[p].ends}

ReadSome(p) ==
  /\ Reading(p)
  /\ LET q == procs[p].in IN
       \/ /\ pipes[q] > 0
          /\ pipes' = [pipes EXCEPT ![q] = @ - 1]
          /\ procs' = [procs EXCEPT ![p].got = @ + 1]
       \/ /\ pipes[q] = 0 /\ Writers(q) = {} /\ <<q, "w">> \notin ends
          /\ procs' = [procs EXCEPT ![p].eof = TRUE]
          /\ UNCHANGED pipes
  /\ UNCHANGED <<pc, shellVars, pending, executed>>

Full(p) == procs[p].out # 0 /\ pipes[p] = Capacity

WriteSome(p) ==
  /\ Writing(p) /\ procs[p].left > 0 /\ ~Full(p)
  /\ procs' = [procs EXCEPT ![p].left = @ - 1]
  /\ pipes' = IF procs[p].out = 0 THEN pipes ELSE [pipes EXCEPT ![p] = @ + 1]
  /\ UNCHANGED <<pc, shellVars, pending, executed>>

Exit(p) ==
  /\ Writing(p) /\ procs[p].left = 0
  /\ Ended(p)
  /\ UNCHANGED <<pc, shellVars, pipes, executed>>

-----------------------------------------------------------------------------

ShellStep == CallFgets \/ Fork \/ CallWaitpid \/ WaitpidReturns \/ Close \/ SignalHandler
ProcStep(p) == p \in DOMAIN procs /\ (Exec(p) \/ ReadSome(p) \/ WriteSome(p) \/ Exit(p))

Next == Type \/ Eof \/ ShellStep \/ \E p \in Pids : ProcStep(p)

\* The kernel runs every process that can run; users need not type.
Spec == Init /\ [][Next]_vars /\ WF_vars(ShellStep) /\ \A p \in Pids : WF_vars(ProcStep(p))

-----------------------------------------------------------------------------

(***************************************************************************)
(* Whatever was run, the shell has no end of a pipe open when it prompts:  *)
(* doCommand closes one end at once and hands the other to its next call.  *)
(***************************************************************************)
NoDescriptorLeft == pc \in {"prompt", "reading"} => ends = {}

(***************************************************************************)
(* A command of a pipeline that is not in the background has read all that *)
(* the command before it wrote when it finds the end of its input, even if *)
(* SIGCHLD ended the shell's wait between the two.                         *)
(***************************************************************************)
PipelineDelivers ==
  \A p \in DOMAIN procs : procs[p].eof /\ ~procs[p].background =>
    LET q == procs[p].in
    IN  procs[p].got = procs[q].command.writes - procs[q].left

\* The shell waits for a command that waits for a reader nobody has started.
Stuck == /\ pc = "waiting" /\ procs[Child].out # 0
         /\ Writing(Child) /\ procs[Child].left > 0 /\ Full(Child)

(***************************************************************************)
(* A line that was typed comes to its end and the shell prompts again,     *)
(* unless a command that is not the last writes more than a pipe holds.    *)
(***************************************************************************)
LineFinishes == (pc = "fork") ~> (pc \in {"prompt", "exited"} \/ Stuck)

(***************************************************************************)
(* The processes that have ended are all reaped while the shell runs: one  *)
(* SIGCHLD may stand for several, and signalHandler and doCommand compete  *)
(* for them.                                                               *)
(***************************************************************************)
ZombiesReaped == (Zombies # {}) ~> (Zombies = {} \/ pc = "exited")

(***************************************************************************)
(* A line is run again only after a line was put in the background: the    *)
(* end of a process that the shell waits for never interrupts fgets.       *)
(* (The SIGCHLD of a stopped or continued child, which could, is left out  *)
(* of the model.)                                                          *)
(***************************************************************************)
LinesRunOnce ==
  (\A p \in DOMAIN procs : ~procs[p].background) =>
    \A i, j \in DOMAIN executed : executed[i] = executed[j] => i = j
=============================================================================
