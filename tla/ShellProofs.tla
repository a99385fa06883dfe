----------------------------- MODULE ShellProofs -----------------------------
(***************************************************************************)
(* Theorems about Shell for every script, every capacity of a pipe and     *)
(* however the shell, its processes and SIGCHLD interleave.                *)
(***************************************************************************)
EXTENDS Shell, TLAPS

Process == [state : {"forked", "running", "zombie", "reaped"},
            command : [opens : BOOLEAN, reads : BOOLEAN, writes : Nat],
            background : BOOLEAN, end : BOOLEAN,
            ends : SUBSET (Nat \X {"r", "w"}), in : Nat, out : Nat,
            eof : BOOLEAN, got : Nat, left : Nat]

Busy == {"fork", "forked", "waiting", "close"}

TypeOK ==
  /\ pc \in {"prompt", "reading", "exited"} \cup Busy
  /\ script \in Seq(CommandLine)
  /\ stage \in Nat
  /\ input_fd \in Nat
  /\ ends \in SUBSET (Nat \X {"r", "w"})
  /\ procs \in Seq(Process)
  /\ pipes \in Seq(Nat) /\ Len(pipes) = Len(procs)
  /\ pending \in BOOLEAN
  /\ executed \in Seq(Nat)

\* The buffer holds a line that was typed once a process was started or a line is being run.
ValidLine(line) == line \in CommandLine /\ Len(line.commands) \in 1 .. MaxStages

LineInv ==
  /\ \A i \in 1 .. Len(script) : Len(script[i].commands) \in 1 .. MaxStages
  /\ pending => procs # <<>>
  /\ procs # <<>> \/ pc \in Busy => ValidLine(input)
  /\ pc \in Busy => stage \in 1 .. Len(input.commands)

\* The ends the shell holds: the input of the next command, and between fork and the end
\* of doCommand both ends of the child's pipe.
InputEnd == IF input_fd = 0 THEN {} ELSE {<<input_fd, "r">>}

EndsInv ==
  /\ pc \in {"prompt", "reading", "exited"} => ends = {}
  /\ pc = "fork" => input_fd \in {0, Child} /\ ends = InputEnd
  /\ pc \in {"forked", "waiting", "close"} =>
       /\ Child > 0 /\ input_fd < Child
       /\ ends = InputEnd \cup {<<Child, "r">>, <<Child, "w">>}

\* What doCommand knows of the last process it started.
StageInv ==
  /\ pc \in {"forked", "waiting", "close"} =>
       /\ procs[Child].end = AtEnd /\ procs[Child].background = input.background
  /\ pc = "fork" /\ input_fd # 0 =>
       /\ Child > 0 /\ ~procs[Child].end /\ procs[Child].background = input.background

\* A process reads from the one before it in the same line, or from the terminal.
ReadsPrevious(p) ==
  procs[p].in # 0 => /\ p > 1 /\ procs[p].in = p - 1
                     /\ procs[p - 1].background = procs[p].background
                     /\ ~procs[p - 1].end

\* Until it ends, a process that is not in the background holds the end it writes to.
HoldsOutput(p) ==
  /\ procs[p].state = "forked" => <<p, "w">> \in procs[p].ends /\ procs[p].out = 0
  /\ procs[p].background => procs[p].out = 0
  /\ procs[p].state = "running" /\ ~procs[p].background =>
       /\ <<p, "w">> \in procs[p].ends
       /\ procs[p].out = IF procs[p].end THEN 0 ELSE p

\* Nothing is lost between the writer and the reader of a pipe.
Taken(p) == IF p + 1 \in DOMAIN procs /\ procs[p + 1].in = p THEN procs[p + 1].got ELSE 0

Accounted(p) ==
  ~procs[p].background /\ ~procs[p].end =>
    pipes[p] + Taken(p) + procs[p].left = procs[p].command.writes

\* The end of the input is found when the writer has ended and the pipe is empty.
EofIsEnd(p) ==
  procs[p].eof => /\ procs[p].in # 0
                  /\ ~procs[p].background => /\ procs[p - 1].state \in {"zombie", "reaped"}
                                             /\ pipes[p - 1] = 0

PipeInv == \A p \in DOMAIN procs : ReadsPrevious(p) /\ HoldsOutput(p) /\ Accounted(p) /\ EofIsEnd(p)

\* While nothing was put in the background: only the process the shell waits for is alive,
\* so that no signal is left when it reads the next line.
Alone ==
  /\ \A p \in DOMAIN procs : procs[p].state \in {"forked", "running"} =>
                               p = Child /\ pc \in {"forked", "waiting"}
  /\ pc = "reading" => ~pending
  /\ pc = "waiting" /\ pending => procs[Child].state = "zombie"

Fresh ==
  /\ \A i, j \in DOMAIN executed : executed[i] = executed[j] => i = j
  /\ \A i \in DOMAIN executed, k \in 1 .. Len(script) : executed[i] # script[k].number
  /\ \A i, j \in 1 .. Len(script) : script[i].number = script[j].number => i = j

OnceInv == (\A p \in DOMAIN procs : ~procs[p].background) => Alone /\ Fresh

IInv == TypeOK /\ LineInv /\ EndsInv /\ StageInv /\ PipeInv /\ OnceInv

-----------------------------------------------------------------------------
(* What the steps of a process do, field by field                          *)

Static(p) ==
  /\ procs'[p].command = procs[p].command
  /\ procs'[p].background = procs[p].background
  /\ procs'[p].end = procs[p].end
  /\ procs'[p].in = procs[p].in

\* Steps of process p change nothing else in the table of processes.
OnlyProc(p) ==
  /\ procs' \in Seq(Process) /\ Len(procs') = Len(procs)
  /\ \A k \in 1 .. Len(procs) : k # p => procs'[k] = procs[k]
  /\ Static(p)

LEMMA SetProc ==
  ASSUME procs \in Seq(Process), NEW p \in 1 .. Len(procs), NEW x \in Process,
         procs' = [procs EXCEPT ![p] = x],
         x.command = procs[p].command, x.background = procs[p].background,
         x.end = procs[p].end, x.in = procs[p].in
  PROVE  OnlyProc(p) /\ procs'[p] = x
  BY DEF OnlyProc, Static

LEMMA EndedFields ==
  ASSUME TypeOK, NEW p \in 1 .. Len(procs), Ended(p)
  PROVE  /\ OnlyProc(p) /\ pending' = TRUE
         /\ procs'[p].state = "zombie" /\ procs'[p].ends = {}
         /\ procs'[p].out = procs[p].out /\ procs'[p].eof = procs[p].eof
         /\ procs'[p].got = procs[p].got /\ procs'[p].left = procs[p].left
  <1> DEFINE x == [procs[p] EXCEPT !.state = "zombie", !.ends = {}]
  <1>1. procs[p] \in Process
    BY DEF TypeOK
  <1>2. /\ x \in Process /\ x.state = "zombie" /\ x.ends = {}
        /\ x.command = procs[p].command /\ x.background = procs[p].background
        /\ x.end = procs[p].end /\ x.in = procs[p].in /\ x.out = procs[p].out
        /\ x.eof = procs[p].eof /\ x.got = procs[p].got /\ x.left = procs[p].left
    BY <1>1 DEF Process
  <1>3. procs' = [procs EXCEPT ![p] = x] /\ pending' = TRUE
    BY DEF Ended
  <1> HIDE DEF x
  <1> QED BY <1>2, <1>3, SetProc DEF TypeOK

LEMMA ExecFields ==
  ASSUME TypeOK, NEW p \in 1 .. Len(procs),
         procs' = [procs EXCEPT ![p].state = "running", ![p].ends = KeptEnds(p),
                                ![p].out = OutputOf(p)]
  PROVE  /\ OnlyProc(p)
         /\ procs'[p].state = "running" /\ procs'[p].ends = KeptEnds(p)
         /\ procs'[p].out = OutputOf(p) /\ procs'[p].eof = procs[p].eof
         /\ procs'[p].got = procs[p].got /\ procs'[p].left = procs[p].left
  <1> DEFINE x == [procs[p] EXCEPT !.state = "running", !.ends = KeptEnds(p), !.out = OutputOf(p)]
  <1>1. procs[p] \in Process
    BY DEF TypeOK
  <1>2. KeptEnds(p) \in SUBSET (Nat \X {"r", "w"}) /\ OutputOf(p) \in Nat
    BY <1>1 DEF KeptEnds, OutputOf, Process
  <1>3. /\ x \in Process /\ x.state = "running" /\ x.ends = KeptEnds(p) /\ x.out = OutputOf(p)
        /\ x.command = procs[p].command /\ x.background = procs[p].background
        /\ x.end = procs[p].end /\ x.in = procs[p].in
        /\ x.eof = procs[p].eof /\ x.got = procs[p].got /\ x.left = procs[p].left
    BY <1>1, <1>2 DEF Process
  <1>4. procs' = [procs EXCEPT ![p] = x]
    OBVIOUS
  <1> HIDE DEF x
  <1> QED BY <1>3, <1>4, SetProc DEF TypeOK

\* Fields of a process that read or wrote some.
Moves(p, got, eof, left) ==
  /\ OnlyProc(p)
  /\ procs'[p].state = procs[p].state /\ procs'[p].ends = procs[p].ends
  /\ procs'[p].out = procs[p].out
  /\ procs'[p].got = got /\ procs'[p].eof = eof /\ procs'[p].left = left

LEMMA MoveFields ==
  ASSUME TypeOK, NEW p \in 1 .. Len(procs)
  PROVE  /\ procs' = [procs EXCEPT ![p].got = @ + 1] =>
               Moves(p, procs[p].got + 1, procs[p].eof, procs[p].left)
         /\ procs' = [procs EXCEPT ![p].eof = TRUE] =>
               Moves(p, procs[p].got, TRUE, procs[p].left)
         /\ procs[p].left > 0 /\ procs' = [procs EXCEPT ![p].left = @ - 1] =>
               Moves(p, procs[p].got, procs[p].eof, procs[p].left - 1)
  <1> DEFINE Same(x) ==
        /\ x \in Process
        /\ x.state = procs[p].state /\ x.ends = procs[p].ends /\ x.out = procs[p].out
        /\ x.command = procs[p].command /\ x.background = procs[p].background
        /\ x.end = procs[p].end /\ x.in = procs[p].in
  <1>1. procs[p] \in Process
    BY DEF TypeOK
  <1>2. ASSUME procs' = [procs EXCEPT ![p].got = @ + 1]
        PROVE  Moves(p, procs[p].got + 1, procs[p].eof, procs[p].left)
    <2> DEFINE x == [procs[p] EXCEPT !.got = @ + 1]
    <2>1. Same(x) /\ x.got = procs[p].got + 1 /\ x.eof = procs[p].eof /\ x.left = procs[p].left
      BY <1>1 DEF Process
    <2>2. procs' = [procs EXCEPT ![p] = x]
      BY <1>2
    <2> HIDE DEF x
    <2> QED BY <2>1, <2>2, SetProc DEF TypeOK, Moves
  <1>3. ASSUME procs' = [procs EXCEPT ![p].eof = TRUE]
        PROVE  Moves(p, procs[p].got, TRUE, procs[p].left)
    <2> DEFINE x == [procs[p] EXCEPT !.eof = TRUE]
    <2>1. Same(x) /\ x.got = procs[p].got /\ x.eof = TRUE /\ x.left = procs[p].left
      BY <1>1 DEF Process
    <2>2. procs' = [procs EXCEPT ![p] = x]
      BY <1>3
    <2> HIDE DEF x
    <2> QED BY <2>1, <2>2, SetProc DEF TypeOK, Moves
  <1>4. ASSUME procs[p].left > 0, procs' = [procs EXCEPT ![p].left = @ - 1]
        PROVE  Moves(p, procs[p].got, procs[p].eof, procs[p].left - 1)
    <2> DEFINE x == [procs[p] EXCEPT !.left = @ - 1]
    <2>1. Same(x) /\ x.got = procs[p].got /\ x.eof = procs[p].eof /\ x.left = procs[p].left - 1
      BY <1>1, <1>4 DEF Process
    <2>2. procs' = [procs EXCEPT ![p] = x]
      BY <1>4
    <2> HIDE DEF x
    <2> QED BY <2>1, <2>2, SetProc DEF TypeOK, Moves
  <1> QED BY <1>2, <1>3, <1>4

\* A process that is reaped keeps everything but its state.
Reaps(p) ==
  /\ Static(p)
  /\ procs'[p].ends = procs[p].ends /\ procs'[p].out = procs[p].out
  /\ procs'[p].got = procs[p].got /\ procs'[p].eof = procs[p].eof
  /\ procs'[p].left = procs[p].left
  /\ procs'[p].state = procs[p].state \/ (procs[p].state = "zombie" /\ procs'[p].state = "reaped")

OnlyReaps ==
  /\ procs' \in Seq(Process) /\ Len(procs') = Len(procs)
  /\ \A p \in 1 .. Len(procs) : Reaps(p)

LEMMA ReapedFields ==
  ASSUME TypeOK, procs' = Reaped
  PROVE  OnlyReaps
  <1>1. procs \in Seq(Process) /\ DOMAIN procs = 1 .. Len(procs)
    BY DEF TypeOK
  <1>2. ASSUME NEW p \in 1 .. Len(procs), NEW x, x = [procs[p] EXCEPT !.state = "reaped"]
        PROVE  /\ x \in Process /\ x.state = "reaped" /\ x.ends = procs[p].ends
               /\ x.command = procs[p].command /\ x.background = procs[p].background
               /\ x.end = procs[p].end /\ x.in = procs[p].in /\ x.out = procs[p].out
               /\ x.eof = procs[p].eof /\ x.got = procs[p].got /\ x.left = procs[p].left
    <2>1. procs[p] \in Process
      BY <1>1
    <2> QED BY <1>2, <2>1 DEF Process
  <1>3. ASSUME NEW p \in 1 .. Len(procs)
        PROVE  /\ procs'[p] \in Process
               /\ Reaps(p)
    <2>1. CASE p \in Zombies
      <3>1. procs'[p] = [procs[p] EXCEPT !.state = "reaped"]
        BY <1>1, <2>1 DEF Reaped
      <3> QED BY <1>2, <2>1, <3>1 DEF Reaps, Static, Zombies
    <2>2. CASE p \notin Zombies
      <3>1. procs'[p] = procs[p]
        BY <1>1, <2>2 DEF Reaped
      <3> QED BY <1>1, <3>1 DEF Reaps, Static
    <2> QED BY <2>1, <2>2
  <1>4. DOMAIN procs' = 1 .. Len(procs) /\ procs' = [p \in 1 .. Len(procs) |-> procs'[p]]
    BY <1>1 DEF Reaped
  <1>5. procs' \in [1 .. Len(procs) -> Process] /\ Len(procs) \in Nat
    BY <1>1, <1>3, <1>4
  <1>6. procs' \in Seq(Process) /\ Len(procs') = Len(procs)
    BY <1>5
  <1> QED BY <1>3, <1>6 DEF OnlyReaps

LEMMA WaitpidFields ==
  ASSUME TypeOK, Child > 0, procs[Child].state = "zombie",
         procs' = [procs EXCEPT ![Child].state = "reaped"]
  PROVE  OnlyReaps /\ procs'[Child].state = "reaped"
  <1> DEFINE x == [procs[Child] EXCEPT !.state = "reaped"]
  <1>1. procs \in Seq(Process) /\ Child \in 1 .. Len(procs)
    BY DEF TypeOK, Child
  <1>2. procs[Child] \in Process
    BY <1>1
  <1>3. /\ x \in Process /\ x.state = "reaped" /\ x.ends = procs[Child].ends
        /\ x.command = procs[Child].command /\ x.background = procs[Child].background
        /\ x.end = procs[Child].end /\ x.in = procs[Child].in /\ x.out = procs[Child].out
        /\ x.eof = procs[Child].eof /\ x.got = procs[Child].got /\ x.left = procs[Child].left
    BY <1>2 DEF Process
  <1>4. procs' = [procs EXCEPT ![Child] = x]
    OBVIOUS
  <1> HIDE DEF x
  <1>5. OnlyProc(Child) /\ procs'[Child] = x
    BY <1>1, <1>3, <1>4, SetProc
  <1> QED BY <1>1, <1>3, <1>5 DEF OnlyReaps, OnlyProc, Reaps, Static

-----------------------------------------------------------------------------
(* Steps that start no process and leave the shell where it is             *)

SameTable ==
  /\ procs' \in Seq(Process) /\ Len(procs') = Len(procs)
  /\ \A p \in 1 .. Len(procs) : Static(p)

LEMMA SameTableFromFields ==
  ASSUME TypeOK
  PROVE  /\ UNCHANGED procs => OnlyReaps
         /\ OnlyReaps => SameTable
         /\ \A p \in 1 .. Len(procs) : OnlyProc(p) => SameTable
  BY DEF TypeOK, OnlyReaps, OnlyProc, Reaps, Static, SameTable

LEMMA ShellFrame ==
  ASSUME TypeOK, LineInv, EndsInv, StageInv, SameTable,
         UNCHANGED <<pc, shellVars, executed>>,
         pipes' \in Seq(Nat), Len(pipes') = Len(pipes),
         pending' \in BOOLEAN, pending' => procs # <<>>
  PROVE  TypeOK' /\ LineInv' /\ EndsInv' /\ StageInv'
  <1> USE DEF shellVars, SameTable
  <1>1. TypeOK'
    BY DEF TypeOK
  <1>2. procs' = <<>> <=> procs = <<>>
    BY DEF TypeOK
  <1>3. LineInv'
    BY <1>2 DEF LineInv, ValidLine
  <1>4. EndsInv'
    BY DEF EndsInv, InputEnd, Child
  <1>5. StageInv'
    <2>1. CASE Len(procs) > 0
      <3>1. Static(Child) /\ Child' = Child
        BY <2>1 DEF Child, TypeOK
      <3> QED BY <3>1 DEF StageInv, AtEnd, Static
    <2>2. CASE ~(Len(procs) > 0)
      BY <2>2 DEF StageInv, EndsInv, Child
    <2> QED BY <2>1, <2>2
  <1> QED BY <1>1, <1>3, <1>4, <1>5

\* signalHandler and doCommand reap, which no pipe notices.
LEMMA PipeReaps ==
  ASSUME TypeOK, PipeInv, OnlyReaps, UNCHANGED pipes
  PROVE  PipeInv'
  <1>1. DOMAIN procs' = 1 .. Len(procs) /\ DOMAIN procs = 1 .. Len(procs) /\ Len(procs) \in Nat
    BY DEF TypeOK, OnlyReaps
  <1>2. \A p \in 1 .. Len(procs) : Reaps(p)
    BY DEF OnlyReaps
  <1> SUFFICES ASSUME NEW p \in 1 .. Len(procs)
               PROVE  ReadsPrevious(p)' /\ HoldsOutput(p)' /\ Accounted(p)' /\ EofIsEnd(p)'
    BY <1>1 DEF PipeInv
  <1>3. ReadsPrevious(p) /\ HoldsOutput(p) /\ Accounted(p) /\ EofIsEnd(p)
    BY <1>1 DEF PipeInv
  <1>4. p > 1 => p - 1 \in 1 .. Len(procs)
    BY <1>1
  <1>5. ReadsPrevious(p)'
    BY <1>2, <1>3, <1>4 DEF ReadsPrevious, Reaps, Static
  <1>6. HoldsOutput(p)'
    BY <1>2, <1>3 DEF HoldsOutput, Reaps, Static
  <1>7. Taken(p)' = Taken(p)
    BY <1>1, <1>2 DEF Taken, Reaps, Static
  <1>8. Accounted(p)'
    BY <1>2, <1>3, <1>7 DEF Accounted, Reaps, Static
  <1>9. EofIsEnd(p)'
    BY <1>2, <1>3, <1>4 DEF EofIsEnd, ReadsPrevious, Reaps, Static
  <1> QED BY <1>5, <1>6, <1>8, <1>9

-----------------------------------------------------------------------------
(* Steps of a process                                                      *)

\* The program starts, or ends: the pipes stay as they are.
LEMMA PipeProc ==
  ASSUME TypeOK, PipeInv, NEW p \in 1 .. Len(procs), OnlyProc(p), UNCHANGED pipes,
         procs'[p].got = procs[p].got, procs'[p].left = procs[p].left,
         procs'[p].eof = procs[p].eof,
         procs[p].state \in {"forked", "running"},
         HoldsOutput(p)'
  PROVE  PipeInv'
  <1>1. DOMAIN procs' = 1 .. Len(procs) /\ DOMAIN procs = 1 .. Len(procs) /\ Len(procs) \in Nat
    BY DEF TypeOK, OnlyProc
  <1> SUFFICES ASSUME NEW k \in 1 .. Len(procs)
               PROVE  ReadsPrevious(k)' /\ HoldsOutput(k)' /\ Accounted(k)' /\ EofIsEnd(k)'
    BY <1>1 DEF PipeInv
  <1>2. ReadsPrevious(k) /\ HoldsOutput(k) /\ Accounted(k) /\ EofIsEnd(k)
    BY <1>1 DEF PipeInv
  <1>3. k > 1 => k - 1 \in 1 .. Len(procs)
    BY <1>1
  <1>4. \A j \in 1 .. Len(procs) : Static(j) /\ procs'[j].got = procs[j].got
                                   /\ procs'[j].left = procs[j].left
                                   /\ procs'[j].eof = procs[j].eof
    BY DEF OnlyProc, Static
  <1>5. ReadsPrevious(k)'
    BY <1>2, <1>3, <1>4 DEF ReadsPrevious, Static
  <1>6. HoldsOutput(k)'
    BY <1>2 DEF HoldsOutput, OnlyProc
  <1>7. Taken(k)' = Taken(k)
    BY <1>1, <1>4 DEF Taken, Static
  <1>8. Accounted(k)'
    BY <1>2, <1>4, <1>7 DEF Accounted, Static
  <1>9. EofIsEnd(k)'
    <2>1. SUFFICES ASSUME procs[k].eof, ~procs[k].background
                   PROVE  procs'[k - 1].state \in {"zombie", "reaped"}
      BY <1>2, <1>4 DEF EofIsEnd, Static
    <2>2. k > 1 /\ procs[k - 1].state \in {"zombie", "reaped"}
      BY <1>2, <2>1 DEF EofIsEnd, ReadsPrevious
    <2> QED BY <1>3, <2>2 DEF OnlyProc
  <1> QED BY <1>5, <1>6, <1>8, <1>9

LEMMA PipeExec ==
  ASSUME TypeOK, PipeInv, NEW p \in 1 .. Len(procs), Exec(p)
  PROVE  PipeInv'
  <1>1. HoldsOutput(p) /\ procs[p].state = "forked"
    BY DEF PipeInv, TypeOK, Exec
  <1>2. CASE procs[p].command.opens
    <2>1. /\ procs' = [procs EXCEPT ![p].state = "running", ![p].ends = KeptEnds(p),
                                    ![p].out = OutputOf(p)]
          /\ UNCHANGED pipes
      BY <1>2 DEF Exec
    <2>2. /\ OnlyProc(p)
          /\ procs'[p].state = "running" /\ procs'[p].ends = KeptEnds(p)
          /\ procs'[p].out = OutputOf(p) /\ procs'[p].eof = procs[p].eof
          /\ procs'[p].got = procs[p].got /\ procs'[p].left = procs[p].left
      BY <2>1, ExecFields
    <2>3. /\ procs'[p].background = procs[p].background /\ procs'[p].end = procs[p].end
          /\ <<p, "w">> \in procs[p].ends
      BY <1>1, <2>2 DEF HoldsOutput, OnlyProc, Static
    <2>4. procs[p].background => OutputOf(p) = 0
      BY DEF OutputOf, KeptEnds
    <2>5. ~procs[p].background => /\ KeptEnds(p) = procs[p].ends
                                  /\ OutputOf(p) = IF procs[p].end THEN 0 ELSE p
      BY <2>3 DEF OutputOf, KeptEnds
    <2>6. HoldsOutput(p)'
      BY <2>2, <2>3, <2>4, <2>5 DEF HoldsOutput
    <2> QED BY <1>1, <2>1, <2>2, <2>6, PipeProc
  <1>3. CASE ~procs[p].command.opens
    <2>1. Ended(p) /\ UNCHANGED pipes
      BY <1>3 DEF Exec
    <2>2. HoldsOutput(p)'
      BY <1>1, <2>1, EndedFields DEF HoldsOutput, OnlyProc, Static
    <2> QED BY <1>1, <2>1, <2>2, EndedFields, PipeProc
  <1> QED BY <1>2, <1>3

LEMMA PipeExit ==
  ASSUME TypeOK, PipeInv, NEW p \in 1 .. Len(procs), Exit(p)
  PROVE  PipeInv'
  <1>1. HoldsOutput(p) /\ procs[p].state = "running" /\ Ended(p) /\ UNCHANGED pipes
    BY DEF PipeInv, TypeOK, Exit, Writing
  <1>2. HoldsOutput(p)'
    BY <1>1, EndedFields DEF HoldsOutput, OnlyProc, Static
  <1> QED BY <1>1, <1>2, EndedFields, PipeProc

\* What is common to steps that move data: only the counts can be disturbed.
LEMMA PipeMoves ==
  ASSUME TypeOK, PipeInv, NEW p \in 1 .. Len(procs), OnlyProc(p),
         procs'[p].state = procs[p].state, procs'[p].ends = procs[p].ends,
         procs'[p].out = procs[p].out
  PROVE  /\ DOMAIN procs' = 1 .. Len(procs) /\ DOMAIN procs = 1 .. Len(procs)
         /\ \A k \in 1 .. Len(procs) : ReadsPrevious(k)' /\ HoldsOutput(k)'
         /\ (\A k \in 1 .. Len(procs) : Accounted(k)' /\ EofIsEnd(k)') => PipeInv'
  <1>1. DOMAIN procs' = 1 .. Len(procs) /\ DOMAIN procs = 1 .. Len(procs) /\ Len(procs) \in Nat
    BY DEF TypeOK, OnlyProc
  <1>2. ASSUME NEW k \in 1 .. Len(procs) PROVE ReadsPrevious(k)' /\ HoldsOutput(k)'
    <2>1. ReadsPrevious(k) /\ HoldsOutput(k)
      BY <1>1 DEF PipeInv
    <2>2. k > 1 => k - 1 \in 1 .. Len(procs)
      BY <1>1
    <2> QED BY <2>1, <2>2 DEF ReadsPrevious, HoldsOutput, OnlyProc, Static
  <1> QED BY <1>1, <1>2 DEF PipeInv

\* A read takes from the pipe what it adds to the reader.
LEMMA PipeRead ==
  ASSUME TypeOK, PipeInv, NEW p \in 1 .. Len(procs), Reading(p), NEW q, q = procs[p].in,
         pipes[q] > 0, pipes' = [pipes EXCEPT ![q] = @ - 1],
         Moves(p, procs[p].got + 1, procs[p].eof, procs[p].left)
  PROVE  PipeInv'
  <1>1. Moves(p, procs[p].got + 1, procs[p].eof, procs[p].left)
    OBVIOUS
  <1>2. OnlyProc(p)
    BY <1>1 DEF Moves
  <1>3. /\ DOMAIN procs' = 1 .. Len(procs) /\ DOMAIN procs = 1 .. Len(procs)
        /\ (\A k \in 1 .. Len(procs) : Accounted(k)' /\ EofIsEnd(k)') => PipeInv'
    BY <1>1, <1>2, PipeMoves DEF Moves
  <1>4. q = p - 1 /\ q \in 1 .. Len(procs)
    <2>1. ReadsPrevious(p) /\ procs[p].in # 0
      BY <1>3 DEF PipeInv, Reading
    <2> QED BY <2>1 DEF ReadsPrevious
  <1>5. \A k \in 1 .. Len(procs) : procs[k] \in Process /\ pipes[k] \in Nat
    BY DEF TypeOK
  <1>6. ASSUME NEW k \in 1 .. Len(procs) PROVE Accounted(k)'
    <2>1. Accounted(k) /\ ReadsPrevious(p)
      BY <1>3 DEF PipeInv
    <2>2. CASE k = q
      <3>1. k + 1 = p /\ procs'[p].got = procs[p].got + 1 /\ procs'[p].in = procs[p].in
        BY <1>1, <1>4, <2>2 DEF Moves, OnlyProc, Static
      <3>2. Taken(k) = procs[p].got /\ Taken(k)' = procs[p].got + 1
        BY <1>3, <2>2, <3>1 DEF Taken
      <3>3. pipes'[k] = pipes[k] - 1
        BY <1>4, <2>2 DEF TypeOK
      <3>4. procs'[k] = procs[k]
        BY <1>2, <1>4, <2>2 DEF OnlyProc
      <3>5. procs[k].left \in Nat /\ procs[p].got \in Nat /\ pipes[k] \in Nat
        BY <1>5 DEF Process
      <3>6. pipes'[k] + Taken(k)' + procs[k].left = pipes[k] + Taken(k) + procs[k].left
        BY <3>2, <3>3, <3>5
      <3> QED BY <2>1, <3>4, <3>6 DEF Accounted
    <2>3. CASE k # q
      <3>1. k + 1 # p
        BY <1>4, <2>3
      <3>2. Taken(k)' = Taken(k)
        BY <1>2, <1>3, <3>1 DEF Taken, OnlyProc
      <3>3. pipes'[k] = pipes[k]
        BY <1>4, <2>3 DEF TypeOK
      <3>4. Static(k) /\ procs'[k].left = procs[k].left
        BY <1>1, <1>2 DEF OnlyProc, Moves, Static
      <3> QED BY <2>1, <3>2, <3>3, <3>4 DEF Accounted, Static
    <2> QED BY <2>2, <2>3
  <1>7. ASSUME NEW k \in 1 .. Len(procs) PROVE EofIsEnd(k)'
    <2>1. EofIsEnd(k) /\ ReadsPrevious(k)
      BY <1>3 DEF PipeInv
    <2>2. \A j \in 1 .. Len(procs) : Static(j) /\ procs'[j].eof = procs[j].eof
                                     /\ procs'[j].state = procs[j].state
      BY <1>1, <1>2 DEF Moves, OnlyProc, Static
    <2>3. SUFFICES ASSUME procs[k].eof, ~procs[k].background
                   PROVE  procs'[k - 1].state \in {"zombie", "reaped"} /\ pipes'[k - 1] = 0
      BY <2>1, <2>2 DEF EofIsEnd, Static
    <2>4. k - 1 \in 1 .. Len(procs) /\ pipes[k - 1] = 0 /\ procs[k - 1].state \in {"zombie", "reaped"}
      BY <2>1, <2>3 DEF EofIsEnd, ReadsPrevious
    <2>5. k - 1 # q
      BY <2>4
    <2> QED BY <2>2, <2>4, <2>5 DEF TypeOK
  <1> QED BY <1>3, <1>6, <1>7

LEMMA FieldTypes ==
  ASSUME TypeOK, NEW p \in 1 .. Len(procs)
  PROVE  /\ procs[p] \in Process /\ pipes[p] \in Nat
         /\ procs[p].state \in {"forked", "running", "zombie", "reaped"}
         /\ procs[p].left \in Nat /\ procs[p].got \in Nat /\ Taken(p) \in Nat
  <1>1. procs \in Seq(Process) /\ pipes \in Seq(Nat) /\ Len(pipes) = Len(procs)
    BY DEF TypeOK
  <1>2. \A k \in 1 .. Len(procs) : procs[k] \in Process /\ pipes[k] \in Nat
    BY <1>1
  <1>3. \A k \in 1 .. Len(procs) : procs[k].got \in Nat /\ procs[k].left \in Nat
                                   /\ procs[k].state \in {"forked", "running", "zombie", "reaped"}
    BY <1>2 DEF Process
  <1>4. Taken(p) \in Nat
    BY <1>1, <1>3 DEF Taken
  <1> QED BY <1>2, <1>3, <1>4

\* The end is found only when nobody holds the writing end any more.
LEMMA PipeEof ==
  ASSUME TypeOK, PipeInv, NEW p \in 1 .. Len(procs), Reading(p), NEW q, q = procs[p].in,
         pipes[q] = 0, Writers(q) = {}, UNCHANGED pipes,
         Moves(p, procs[p].got, TRUE, procs[p].left)
  PROVE  PipeInv'
  <1>1. Moves(p, procs[p].got, TRUE, procs[p].left) /\ OnlyProc(p)
    BY DEF Moves
  <1>2. /\ DOMAIN procs' = 1 .. Len(procs) /\ DOMAIN procs = 1 .. Len(procs)
        /\ (\A k \in 1 .. Len(procs) : Accounted(k)' /\ EofIsEnd(k)') => PipeInv'
    BY <1>1, PipeMoves DEF Moves
  <1>3. procs[p].in # 0 /\ q = p - 1 /\ q \in 1 .. Len(procs)
    <2>1. ReadsPrevious(p) /\ procs[p].in # 0
      BY <1>2 DEF PipeInv, Reading
    <2> QED BY <2>1 DEF ReadsPrevious
  <1>4. ~procs[p].background => procs[q].state \in {"zombie", "reaped"}
    <2>1. HoldsOutput(q) /\ ReadsPrevious(p)
      BY <1>2, <1>3 DEF PipeInv
    <2>2. <<q, "w">> \notin procs[q].ends
      BY <1>2, <1>3 DEF Writers
    <2>3. procs[q].state \in {"forked", "running", "zombie", "reaped"}
      BY <1>3, FieldTypes
    <2>4. procs[q].background = procs[p].background
      BY <1>3, <2>1 DEF ReadsPrevious
    <2> QED BY <2>1, <2>2, <2>3, <2>4 DEF HoldsOutput
  <1>5. \A j \in 1 .. Len(procs) : /\ Static(j) /\ procs'[j].state = procs[j].state
                                   /\ procs'[j].got = procs[j].got
                                   /\ procs'[j].left = procs[j].left
                                   /\ j # p => procs'[j].eof = procs[j].eof
    BY <1>1 DEF Moves, OnlyProc, Static
  <1>6. ASSUME NEW k \in 1 .. Len(procs) PROVE Accounted(k)'
    <2>1. Accounted(k) /\ Taken(k)' = Taken(k)
      BY <1>2, <1>5 DEF PipeInv, Taken, Static
    <2> QED BY <1>5, <2>1 DEF Accounted, Static
  <1>7. ASSUME NEW k \in 1 .. Len(procs) PROVE EofIsEnd(k)'
    <2>1. CASE k = p
      <3>1. procs'[p].in # 0 /\ (procs'[p].background <=> procs[p].background)
        BY <1>3, <1>5 DEF Static
      <3>2. procs'[p - 1].state = procs[q].state /\ pipes'[p - 1] = 0
        BY <1>3, <1>5
      <3> QED BY <1>4, <2>1, <3>1, <3>2 DEF EofIsEnd
    <2>2. CASE k # p
      <3>1. EofIsEnd(k) /\ ReadsPrevious(k)
        BY <1>2 DEF PipeInv
      <3> QED BY <1>5, <2>2, <3>1 DEF EofIsEnd, ReadsPrevious, Static
    <2> QED BY <2>1, <2>2
  <1> QED BY <1>2, <1>6, <1>7

\* A write that goes to the pipe adds to it what the writer has no longer to write.
LEMMA PipeWrite ==
  ASSUME TypeOK, PipeInv, NEW p \in 1 .. Len(procs), Writing(p), procs[p].left > 0,
         pipes' = IF procs[p].out = 0 THEN pipes ELSE [pipes EXCEPT ![p] = @ + 1],
         Moves(p, procs[p].got, procs[p].eof, procs[p].left - 1)
  PROVE  PipeInv'
  <1>1. Moves(p, procs[p].got, procs[p].eof, procs[p].left - 1) /\ OnlyProc(p)
    BY DEF Moves
  <1>2. /\ DOMAIN procs' = 1 .. Len(procs) /\ DOMAIN procs = 1 .. Len(procs)
        /\ (\A k \in 1 .. Len(procs) : Accounted(k)' /\ EofIsEnd(k)') => PipeInv'
    BY <1>1, PipeMoves DEF Moves
  <1>3. \A j \in 1 .. Len(procs) : /\ Static(j) /\ procs'[j].state = procs[j].state
                                   /\ procs'[j].got = procs[j].got
                                   /\ procs'[j].eof = procs[j].eof
                                   /\ j # p => procs'[j].left = procs[j].left
                                   /\ j # p => pipes'[j] = pipes[j]
    BY <1>1 DEF Moves, OnlyProc, Static, TypeOK
  <1>4. procs[p].state = "running" /\ HoldsOutput(p)
    BY <1>2 DEF PipeInv, Writing
  <1>5. ASSUME NEW k \in 1 .. Len(procs) PROVE Accounted(k)'
    <2>1. Accounted(k) /\ Taken(k)' = Taken(k)
      BY <1>2, <1>3 DEF PipeInv, Taken, Static
    <2>2. CASE k # p
      BY <1>3, <2>1, <2>2 DEF Accounted, Static
    <2>3. CASE k = p
      <3> SUFFICES ASSUME ~procs[p].background, ~procs[p].end
                   PROVE  pipes'[p] + Taken(p) + procs'[p].left = procs[p].command.writes
        BY <1>3, <2>1, <2>3 DEF Accounted, Static
      <3>1. procs[p].out # 0
        BY <1>4 DEF HoldsOutput
      <3>2. pipes'[p] = pipes[p] + 1 /\ procs'[p].left = procs[p].left - 1
        BY <1>1, <3>1 DEF TypeOK, Moves
      <3>3. pipes[p] \in Nat /\ procs[p].left \in Nat /\ Taken(p) \in Nat
        BY FieldTypes
      <3>4. pipes[p] + Taken(p) + procs[p].left = procs[p].command.writes
        BY <2>1, <2>3 DEF Accounted
      <3>5. (pipes[p] + 1) + Taken(p) + (procs[p].left - 1) = pipes[p] + Taken(p) + procs[p].left
        BY <3>3
      <3> QED BY <3>2, <3>4, <3>5
    <2> QED BY <2>2, <2>3
  <1>6. ASSUME NEW k \in 1 .. Len(procs) PROVE EofIsEnd(k)'
    <2>1. EofIsEnd(k) /\ ReadsPrevious(k)
      BY <1>2 DEF PipeInv
    <2>2. SUFFICES ASSUME procs[k].eof, ~procs[k].background
                   PROVE  procs'[k - 1].state \in {"zombie", "reaped"} /\ pipes'[k - 1] = 0
      BY <1>3, <2>1 DEF EofIsEnd, Static
    <2>3. k - 1 \in 1 .. Len(procs) /\ pipes[k - 1] = 0 /\ procs[k - 1].state \in {"zombie", "reaped"}
      BY <2>1, <2>2 DEF EofIsEnd, ReadsPrevious
    <2> QED BY <1>3, <1>4, <2>3
  <1> QED BY <1>2, <1>5, <1>6

Alive(p) == procs[p].state \in {"forked", "running"}
NoBackground == \A p \in DOMAIN procs : ~procs[p].background

LEMMA ProcStepFacts ==
  ASSUME TypeOK, PipeInv, NEW p \in 1 .. Len(procs), ProcStep(p)
  PROVE  /\ UNCHANGED <<pc, shellVars, executed>> /\ OnlyProc(p) /\ Alive(p)
         /\ pipes' \in Seq(Nat) /\ Len(pipes') = Len(pipes)
         /\ pending' = pending \/ (pending' = TRUE /\ procs'[p].state = "zombie")
         /\ PipeInv'
  <1>1. CASE Exec(p)
    <2>1. Alive(p) /\ UNCHANGED <<pc, shellVars, executed, pipes>> /\ PipeInv'
      BY <1>1, PipeExec DEF Exec, Alive
    <2>2. CASE procs[p].command.opens
      BY <1>1, <2>1, <2>2, ExecFields DEF Exec, TypeOK
    <2>3. CASE ~procs[p].command.opens
      BY <1>1, <2>1, <2>3, EndedFields DEF Exec, TypeOK
    <2> QED BY <2>2, <2>3
  <1>2. CASE ReadSome(p)
    <2>1. Reading(p) /\ Alive(p) /\ UNCHANGED <<pc, shellVars, executed, pending>>
      BY <1>2 DEF ReadSome, Reading, Alive
    <2>2. DOMAIN procs = 1 .. Len(procs) /\ DOMAIN pipes = 1 .. Len(procs)
      BY DEF TypeOK
    <2>3. procs[p].in \in 1 .. Len(procs)
      <3>1. ReadsPrevious(p)
        BY <2>2 DEF PipeInv
      <3> QED BY <2>1, <3>1 DEF ReadsPrevious, Reading
    <2>4. CASE /\ pipes[procs[p].in] > 0
               /\ pipes' = [pipes EXCEPT ![procs[p].in] = @ - 1]
               /\ procs' = [procs EXCEPT ![p].got = @ + 1]
      <3>1. Moves(p, procs[p].got + 1, procs[p].eof, procs[p].left)
        BY <2>4, MoveFields
      <3>2. PipeInv'
        BY <2>1, <2>4, <3>1, PipeRead
      <3>3. pipes' \in Seq(Nat) /\ Len(pipes') = Len(pipes)
        <4>1. pipes \in Seq(Nat) /\ Len(pipes) = Len(procs) /\ pipes[procs[p].in] - 1 \in Nat
          BY <2>3, <2>4 DEF TypeOK
        <4> QED BY <2>3, <2>4, <4>1
      <3> QED BY <2>1, <3>1, <3>2, <3>3 DEF Moves
    <2>5. CASE /\ pipes[procs[p].in] = 0 /\ Writers(procs[p].in) = {}
               /\ procs' = [procs EXCEPT ![p].eof = TRUE]
               /\ UNCHANGED pipes
      <3>1. Moves(p, procs[p].got, TRUE, procs[p].left)
        BY <2>5, MoveFields
      <3>2. PipeInv'
        BY <2>1, <2>5, <3>1, PipeEof
      <3> QED BY <2>1, <2>5, <3>1, <3>2 DEF Moves, TypeOK
    <2> QED BY <1>2, <2>4, <2>5 DEF ReadSome
  <1>3. CASE WriteSome(p)
    <2>1. /\ Writing(p) /\ Alive(p) /\ UNCHANGED <<pc, shellVars, executed, pending>>
          /\ procs[p].left > 0 /\ procs' = [procs EXCEPT ![p].left = @ - 1]
          /\ pipes' = IF procs[p].out = 0 THEN pipes ELSE [pipes EXCEPT ![p] = @ + 1]
      BY <1>3 DEF WriteSome, Writing, Alive
    <2>2. Moves(p, procs[p].got, procs[p].eof, procs[p].left - 1)
      BY <2>1, MoveFields
    <2>3. PipeInv'
      BY <2>1, <2>2, PipeWrite
    <2>4. pipes' \in Seq(Nat) /\ Len(pipes') = Len(pipes)
      <3>1. pipes \in Seq(Nat) /\ Len(pipes) = Len(procs)
        BY DEF TypeOK
      <3> QED BY <2>1, <3>1
    <2> QED BY <2>1, <2>2, <2>3, <2>4 DEF Moves
  <1>4. CASE Exit(p)
    <2>1. /\ Alive(p) /\ Ended(p) /\ UNCHANGED <<pc, shellVars, executed, pipes>> /\ PipeInv'
      BY <1>4, PipeExit DEF Exit, Writing, Alive
    <2> QED BY <2>1, EndedFields DEF TypeOK
  <1> QED BY <1>1, <1>2, <1>3, <1>4 DEF ProcStep

LEMMA ProcIInv ==
  ASSUME IInv, NEW p \in 1 .. Len(procs), ProcStep(p)
  PROVE  IInv'
  <1>1. /\ UNCHANGED <<pc, shellVars, executed>> /\ OnlyProc(p) /\ Alive(p)
        /\ pipes' \in Seq(Nat) /\ Len(pipes') = Len(pipes)
        /\ pending' = pending \/ (pending' = TRUE /\ procs'[p].state = "zombie")
        /\ PipeInv'
    BY ProcStepFacts DEF IInv
  <1>2. /\ SameTable /\ pending' \in BOOLEAN /\ procs # <<>>
        /\ DOMAIN procs = 1 .. Len(procs) /\ DOMAIN procs' = 1 .. Len(procs)
    <2>1. TypeOK /\ SameTable
      BY <1>1, SameTableFromFields DEF IInv
    <2>2. pending' \in BOOLEAN
      BY <1>1, <2>1 DEF TypeOK
    <2> QED BY <2>1, <2>2 DEF TypeOK, SameTable
  <1>3. TypeOK' /\ LineInv' /\ EndsInv' /\ StageInv'
    BY <1>1, <1>2, ShellFrame DEF IInv
  <1>4. OnceInv'
    <2> SUFFICES ASSUME NoBackground' PROVE Alone' /\ Fresh'
      BY DEF OnceInv, NoBackground
    <2>1. NoBackground
      BY <1>2 DEF NoBackground, SameTable, Static
    <2>2. Alone /\ Fresh
      BY <2>1 DEF IInv, OnceInv, NoBackground
    <2>3. Fresh'
      BY <1>1, <2>2 DEF Fresh, shellVars
    <2>4. p = Child /\ pc \in {"forked", "waiting"} /\ Child' = Child
      BY <1>1, <1>2, <2>2 DEF Alone, Alive, Child, OnlyProc
    <2>5. pending' /\ pc = "waiting" => procs'[p].state = "zombie"
      BY <1>1, <2>2, <2>4 DEF Alone, Alive
    <2>6. \A k \in 1 .. Len(procs) : procs'[k].state \in {"forked", "running"} => k = p
      BY <1>1, <1>2, <2>2, <2>4 DEF Alone, OnlyProc
    <2> QED BY <1>1, <1>2, <2>3, <2>4, <2>5, <2>6 DEF Alone
  <1> QED BY <1>1, <1>3, <1>4 DEF IInv

-----------------------------------------------------------------------------
(* Steps of the shell                                                      *)

\* A step of the shell that starts no process, reaped ones aside: what is left to show is
\* about the shell's own variables.
LEMMA OnceReaps ==
  ASSUME TypeOK, OnceInv, OnlyReaps, NoBackground'
  PROVE  /\ Alone /\ Fresh /\ NoBackground
         /\ DOMAIN procs' = 1 .. Len(procs) /\ DOMAIN procs = 1 .. Len(procs) /\ Child' = Child
         /\ \A p \in 1 .. Len(procs) : Alive(p)' => Alive(p)
  <1>1. DOMAIN procs' = 1 .. Len(procs) /\ DOMAIN procs = 1 .. Len(procs) /\ Child' = Child
    BY DEF TypeOK, OnlyReaps, Child
  <1>2. NoBackground
    BY <1>1 DEF OnlyReaps, Reaps, Static, NoBackground
  <1>3. \A p \in 1 .. Len(procs) : Alive(p)' => Alive(p)
    BY DEF OnlyReaps, Reaps, Alive
  <1> QED BY <1>1, <1>2, <1>3 DEF OnceInv, NoBackground

\* fgets and waitpid are called, the end of the input is read, or nothing happens.
LEMMA CallIInv ==
  ASSUME IInv, UNCHANGED <<shellVars, procs, pipes, pending, executed>>,
         \/ UNCHANGED pc
         \/ pc = "prompt" /\ ~pending /\ pc' = "reading"
         \/ pc = "reading" /\ pc' = "exited"
         \/ pc = "forked" /\ ~pending /\ pc' = "waiting"
  PROVE  IInv'
  <1> USE DEF shellVars
  <1>1. TypeOK /\ OnlyReaps
    BY SameTableFromFields DEF IInv
  <1>2. TypeOK'
    BY <1>1 DEF TypeOK, Busy
  <1>3. LineInv'
    BY DEF IInv, LineInv, ValidLine, Busy
  <1>4. EndsInv'
    BY DEF IInv, EndsInv, InputEnd, Child
  <1>5. StageInv'
    BY DEF IInv, StageInv, AtEnd, Child
  <1>6. PipeInv'
    BY <1>1, PipeReaps DEF IInv
  <1>7. OnceInv'
    <2> SUFFICES ASSUME NoBackground' PROVE Alone' /\ Fresh'
      BY DEF OnceInv, NoBackground
    <2>1. /\ Alone /\ Fresh
          /\ DOMAIN procs' = 1 .. Len(procs) /\ DOMAIN procs = 1 .. Len(procs) /\ Child' = Child
      BY <1>1, OnceReaps DEF IInv
    <2>2. Fresh'
      BY <2>1 DEF Fresh
    <2>3. Alone'
      BY <2>1 DEF Alone
    <2> QED BY <2>2, <2>3
  <1> QED BY <1>2, <1>3, <1>4, <1>5, <1>6, <1>7 DEF IInv

LEMMA TypeIInv == IInv /\ Type => IInv'
  <1> SUFFICES ASSUME IInv, Type PROVE IInv'
    OBVIOUS
  <1> DEFINE line == Head(script)
  <1>1. /\ pc = "reading" /\ ~pending /\ input' = line /\ script' = Tail(script)
        /\ script \in Seq(CommandLine) /\ script # <<>>
        /\ executed' = Append(executed, line.number)
        /\ \/ line.valid /\ pc' = "fork" /\ stage' = 1 /\ input_fd' = 0
           \/ pc' = "prompt" /\ UNCHANGED <<stage, input_fd>>
        /\ UNCHANGED <<ends, procs, pipes, pending>>
    BY DEF IInv, TypeOK, Type, Run
  <1>2. /\ line = script[1] /\ Len(script) \in Nat /\ Len(script) > 0
        /\ Tail(script) \in Seq(CommandLine) /\ Len(Tail(script)) = Len(script) - 1
        /\ \A i \in 1 .. Len(Tail(script)) : Tail(script)[i] = script[i + 1]
    BY <1>1
  <1>3. ValidLine(line)
    BY <1>1, <1>2 DEF ValidLine, IInv, LineInv
  <1>4. line.number \in Nat
    BY <1>3 DEF ValidLine, CommandLine
  <1> HIDE DEF line
  <1>5. TypeOK /\ OnlyReaps
    BY <1>1, SameTableFromFields DEF IInv
  <1>6. TypeOK'
    <2>1. executed' \in Seq(Nat)
      BY <1>1, <1>4, <1>5 DEF TypeOK
    <2> QED BY <1>1, <1>2, <1>5, <2>1 DEF TypeOK, Busy
  <1>7. LineInv'
    <2>1. \A i \in 1 .. Len(Tail(script)) : Len(Tail(script)[i].commands) \in 1 .. MaxStages
      BY <1>2 DEF IInv, LineInv
    <2>2. Len(line.commands) \in Nat \ {0}
      BY <1>3, ShellAssumption DEF ValidLine
    <2> QED BY <1>1, <1>3, <2>1, <2>2 DEF IInv, LineInv, Busy
  <1>8. EndsInv'
    BY <1>1 DEF IInv, EndsInv, InputEnd
  <1>9. StageInv'
    BY <1>1 DEF StageInv
  <1>10. PipeInv'
    BY <1>1, <1>5, PipeReaps DEF IInv
  <1>11. OnceInv'
    <2> SUFFICES ASSUME NoBackground' PROVE Alone' /\ Fresh'
      BY DEF OnceInv, NoBackground
    <2>1. /\ Alone /\ Fresh
          /\ DOMAIN procs' = 1 .. Len(procs) /\ DOMAIN procs = 1 .. Len(procs)
      BY <1>5, OnceReaps DEF IInv
    <2>2. Alone'
      BY <1>1, <2>1 DEF Alone
    <2>3. Fresh'
      <3> DEFINE n == Len(executed)
      <3>1. /\ n \in Nat /\ DOMAIN executed = 1 .. n /\ DOMAIN executed' = 1 .. n + 1
            /\ executed'[n + 1] = line.number
            /\ \A i \in 1 .. n : executed'[i] = executed[i]
        BY <1>1, <1>4, <1>5 DEF TypeOK
      <3>2. \A i \in 1 .. n : executed[i] # line.number
        BY <1>2, <2>1, <3>1 DEF Fresh
      <3>3. \A i, j \in DOMAIN executed' : executed'[i] = executed'[j] => i = j
        BY <2>1, <3>1, <3>2 DEF Fresh
      <3>4. \A k \in 1 .. Len(script') : script'[k].number # line.number
        BY <1>1, <1>2, <2>1 DEF Fresh
      <3>5. \A i \in 1 .. n, k \in 1 .. Len(script') : executed[i] # script'[k].number
        BY <1>1, <1>2, <2>1, <3>1 DEF Fresh
      <3>6. \A i \in DOMAIN executed', k \in 1 .. Len(script') : executed'[i] # script'[k].number
        BY <3>1, <3>4, <3>5
      <3>7. \A i, j \in 1 .. Len(script') : script'[i].number = script'[j].number => i = j
        BY <1>1, <1>2, <2>1 DEF Fresh
      <3> QED BY <3>3, <3>6, <3>7 DEF Fresh
    <2> QED BY <2>2, <2>3
  <1> QED BY <1>6, <1>7, <1>8, <1>9, <1>10, <1>11 DEF IInv

LEMMA ElementOf == ASSUME NEW S, NEW s \in Seq(S), NEW i \in 1 .. Len(s) PROVE s[i] \in S
  OBVIOUS

\* The new process is the last; the others do not change.
LEMMA ForkFields ==
  ASSUME IInv, Fork
  PROVE  LET p == Len(procs) + 1
             x == procs'[p]
         IN  /\ procs' \in Seq(Process) /\ Len(procs') = p
             /\ \A k \in 1 .. Len(procs) : procs'[k] = procs[k]
             /\ x.state = "forked" /\ x.background = input.background /\ x.end = AtEnd
             /\ x.ends = ends \cup {<<p, "r">>, <<p, "w">>} /\ x.in = input_fd
             /\ x.out = 0 /\ x.eof = FALSE /\ x.got = 0 /\ x.left = x.command.writes
             /\ pipes' \in Seq(Nat) /\ Len(pipes') = p /\ pipes'[p] = 0
             /\ \A k \in 1 .. Len(procs) : pipes'[k] = pipes[k]
             /\ ends' = ends \cup {<<p, "r">>, <<p, "w">>}
  <1> DEFINE p == Len(procs) + 1
             held == ends \cup {<<p, "r">>, <<p, "w">>}
             command == input.commands[stage]
             new == [state |-> "forked", command |-> command,
                     background |-> input.background, end |-> AtEnd,
                     ends |-> held, in |-> input_fd, out |-> 0,
                     eof |-> FALSE, got |-> 0, left |-> command.writes]
  <1>1. procs' = Append(procs, new) /\ pipes' = Append(pipes, 0) /\ ends' = held
    BY DEF Fork
  <1>2. /\ procs \in Seq(Process) /\ pipes \in Seq(Nat) /\ Len(pipes) = Len(procs)
        /\ Len(procs) \in Nat /\ input_fd \in Nat /\ ends \in SUBSET (Nat \X {"r", "w"})
    BY DEF IInv, TypeOK
  <1>3. ValidLine(input) /\ stage \in 1 .. Len(input.commands)
    BY DEF IInv, LineInv, Fork, Busy
  <1>4. /\ command \in [opens : BOOLEAN, reads : BOOLEAN, writes : Nat]
        /\ input.background \in BOOLEAN
    <2>1. /\ input.background \in BOOLEAN
          /\ input.commands \in Seq([opens : BOOLEAN, reads : BOOLEAN, writes : Nat])
      BY <1>3 DEF ValidLine, CommandLine
    <2>2. command \in [opens : BOOLEAN, reads : BOOLEAN, writes : Nat]
      BY <1>3, <2>1, ElementOf
    <2> QED BY <2>1, <2>2
  <1>5. held \in SUBSET (Nat \X {"r", "w"})
    BY <1>2
  <1>6. AtEnd \in BOOLEAN
    BY DEF AtEnd
  <1> HIDE DEF held, command
  <1>7. command.writes \in Nat
    BY <1>4
  <1>8. new \in Process
    BY <1>2, <1>4, <1>5, <1>6, <1>7 DEF Process
  <1>9. /\ new.state = "forked" /\ new.background = input.background /\ new.end = AtEnd
        /\ new.ends = held /\ new.in = input_fd /\ new.out = 0 /\ new.eof = FALSE
        /\ new.got = 0 /\ new.left = new.command.writes
    OBVIOUS
  <1> HIDE DEF new
  <1>10. /\ procs' \in Seq(Process) /\ Len(procs') = p /\ procs'[p] = new
         /\ \A k \in 1 .. Len(procs) : procs'[k] = procs[k]
    BY <1>1, <1>2, <1>8
  <1>11. /\ pipes' \in Seq(Nat) /\ Len(pipes') = p /\ pipes'[p] = 0
         /\ \A k \in 1 .. Len(procs) : pipes'[k] = pipes[k]
    BY <1>1, <1>2
  <1> QED BY <1>1, <1>9, <1>10, <1>11 DEF held

LEMMA ForkIInv == IInv /\ Fork => IInv'
  <1> SUFFICES ASSUME IInv, Fork PROVE IInv'
    OBVIOUS
  <1> PICK p \in Nat : p = Len(procs) + 1
    BY DEF IInv, TypeOK
  <1>1. /\ procs' \in Seq(Process) /\ Len(procs') = p
        /\ \A k \in 1 .. Len(procs) : procs'[k] = procs[k]
    BY ForkFields
  <1>2. /\ procs'[p].state = "forked" /\ procs'[p].background = input.background
        /\ procs'[p].end = AtEnd /\ procs'[p].in = input_fd
        /\ procs'[p].out = 0 /\ procs'[p].eof = FALSE /\ procs'[p].got = 0
        /\ procs'[p].left = procs'[p].command.writes
        /\ <<p, "w">> \in procs'[p].ends
    BY ForkFields
  <1>3. /\ pipes' \in Seq(Nat) /\ Len(pipes') = p /\ pipes'[p] = 0
        /\ \A k \in 1 .. Len(procs) : pipes'[k] = pipes[k]
    BY ForkFields
  <1>4. ends' = ends \cup {<<p, "r">>, <<p, "w">>}
    BY ForkFields
  <1>5. /\ pc = "fork" /\ ~pending
        /\ pc' = IF input.background THEN "close" ELSE "forked"
        /\ UNCHANGED <<script, input, stage, input_fd, pending, executed>>
    BY DEF Fork, AfterFork
  <1>6. /\ TypeOK /\ Len(procs) \in Nat /\ DOMAIN procs = 1 .. Len(procs) /\ input_fd \in Nat
    BY DEF IInv, TypeOK
  <1>7. DOMAIN procs' = 1 .. p
    BY <1>1
  <1>8. input_fd \in {0, Len(procs)} /\ ends = InputEnd
    BY <1>5 DEF IInv, EndsInv, Child
  <1>9. TypeOK'
    <2>1. ends' \in SUBSET (Nat \X {"r", "w"})
      BY <1>4, <1>6 DEF TypeOK
    <2> QED BY <1>1, <1>3, <1>5, <1>6, <2>1 DEF TypeOK, Busy
  <1>10. LineInv'
    BY <1>5 DEF IInv, LineInv, ValidLine, Busy
  <1>11. EndsInv'
    <2>1. Child' = p /\ p > 0 /\ input_fd < p /\ InputEnd' = InputEnd
      <3>1. Child' = p /\ InputEnd' = InputEnd
        BY <1>1, <1>5 DEF Child, InputEnd
      <3>2. Len(procs) \in Nat /\ (input_fd = 0 \/ input_fd = Len(procs))
        BY <1>6, <1>8
      <3>3. p > 0 /\ input_fd < p
        BY <3>2
      <3> QED BY <3>1, <3>3
    <2>2. pc' \in {"forked", "close"}
      BY <1>5
    <2> QED BY <1>4, <1>5, <1>8, <2>1, <2>2 DEF EndsInv
  <1>12. StageInv'
    <2>1. Child' = p /\ AtEnd' = AtEnd /\ pc' \in {"forked", "close"}
      BY <1>1, <1>5 DEF Child, AtEnd
    <2> QED BY <1>2, <1>5, <2>1 DEF StageInv
  <1>13. PipeInv'
    <2>1. ASSUME NEW k \in 1 .. Len(procs)
          PROVE  ReadsPrevious(k)' /\ HoldsOutput(k)' /\ Accounted(k)' /\ EofIsEnd(k)'
      <3>1. ReadsPrevious(k) /\ HoldsOutput(k) /\ Accounted(k) /\ EofIsEnd(k)
        BY <1>6 DEF IInv, PipeInv
      <3>2. procs'[k] = procs[k] /\ pipes'[k] = pipes[k]
        BY <1>1, <1>3
      <3>3. k > 1 => procs'[k - 1] = procs[k - 1] /\ pipes'[k - 1] = pipes[k - 1]
        <4>1. Len(procs) \in Nat
          BY <1>6
        <4>2. k > 1 => k - 1 \in 1 .. Len(procs)
          BY <4>1
        <4> QED BY <1>1, <1>3, <4>2, Zenon
      <3>4. Taken(k)' = Taken(k)
        <4>1. CASE k + 1 = p
          <5>1. Taken(k) = 0
            BY <1>6, <4>1 DEF Taken
          <5>2. Taken(k)' = 0
            BY <1>2, <4>1 DEF Taken
          <5> QED BY <5>1, <5>2
        <4>2. CASE k + 1 # p
          <5>1. k + 1 \in 1 .. Len(procs)
            BY <1>6, <4>2
          <5> QED BY <1>1, <1>6, <1>7, <5>1 DEF Taken
        <4> QED BY <4>1, <4>2
      <3>5. ReadsPrevious(k)'
        BY <3>1, <3>2, <3>3 DEF ReadsPrevious
      <3>6. HoldsOutput(k)' /\ Accounted(k)'
        BY <3>1, <3>2, <3>4 DEF HoldsOutput, Accounted
      <3>7. EofIsEnd(k)'
        BY <3>1, <3>2, <3>3 DEF EofIsEnd, ReadsPrevious
      <3> QED BY <3>5, <3>6, <3>7
    <2>2. ReadsPrevious(p)'
      <3> SUFFICES ASSUME input_fd # 0
                   PROVE  /\ p > 1 /\ input_fd = p - 1
                          /\ procs'[p - 1].background = procs'[p].background
                          /\ ~procs'[p - 1].end
        BY <1>2 DEF ReadsPrevious
      <3>1. /\ Len(procs) > 0 /\ input_fd = Len(procs) /\ p - 1 = Len(procs)
            /\ ~procs[Len(procs)].end /\ procs[Len(procs)].background = input.background
        <4>0. Len(procs) \in Nat /\ input_fd = Len(procs)
          BY <1>6, <1>8
        <4>1. Len(procs) > 0 /\ input_fd = Len(procs) /\ p - 1 = Len(procs)
          BY <4>0
        <4>2. ~procs[Len(procs)].end /\ procs[Len(procs)].background = input.background
          BY <1>5 DEF IInv, StageInv, Child
        <4> QED BY <4>1, <4>2
      <3>2. procs'[p - 1] = procs[Len(procs)]
        BY <1>1, <1>6, <3>1
      <3>3. procs'[p - 1].background = procs'[p].background /\ ~procs'[p - 1].end
        BY <1>2, <3>1, <3>2
      <3> QED BY <1>6, <3>1, <3>3
    <2>3. HoldsOutput(p)' /\ EofIsEnd(p)'
      BY <1>2 DEF HoldsOutput, EofIsEnd
    <2>4. Taken(p)' = 0
      <3>1. p + 1 \notin DOMAIN procs'
        BY <1>7
      <3> QED BY <3>1 DEF Taken
    <2>5. procs'[p].left \in Nat
      <3>1. p \in 1 .. Len(procs')
        BY <1>1, <1>6
      <3>2. procs'[p] \in Process
        BY <1>1, <3>1
      <3> QED BY <3>2 DEF Process
    <2>6. Accounted(p)'
      BY <1>2, <1>3, <2>4, <2>5 DEF Accounted
    <2>7. \A k \in 1 .. p : k \in 1 .. Len(procs) \/ k = p
      BY <1>6
    <2> QED BY <1>7, <2>1, <2>2, <2>3, <2>6, <2>7 DEF PipeInv
  <1>14. OnceInv'
    <2> SUFFICES ASSUME NoBackground' PROVE Alone' /\ Fresh'
      BY DEF OnceInv, NoBackground
    <2>1. \A k \in 1 .. p : ~procs'[k].background
      BY <1>7 DEF NoBackground
    <2>2. ~input.background
      BY <1>2, <1>6, <2>1
    <2>3. NoBackground
      BY <1>1, <1>6, <2>1 DEF NoBackground
    <2>4. Alone /\ Fresh
      BY <2>3 DEF IInv, OnceInv, NoBackground
    <2>5. Alone'
      <3>1. \A k \in 1 .. Len(procs) : procs'[k].state \notin {"forked", "running"}
        BY <1>1, <1>5, <1>6, <2>4 DEF Alone
      <3>2. \A k \in 1 .. p : k \in 1 .. Len(procs) \/ k = p
        BY <1>6
      <3> QED BY <1>1, <1>5, <1>7, <2>2, <3>1, <3>2 DEF Alone, Child
    <2>6. Fresh'
      BY <1>5, <2>4 DEF Fresh
    <2> QED BY <2>5, <2>6
  <1> QED BY <1>9, <1>10, <1>11, <1>12, <1>13, <1>14 DEF IInv

LEMMA WaitpidIInv == IInv /\ WaitpidReturns => IInv'
  <1> SUFFICES ASSUME IInv, WaitpidReturns PROVE IInv'
    OBVIOUS
  <1>1. /\ pc = "waiting" /\ pc' = "close"
        /\ UNCHANGED <<script, input, stage, input_fd, ends, pipes, pending, executed>>
    BY DEF WaitpidReturns, shellVars
  <1>2. TypeOK /\ Child > 0
    BY <1>1 DEF IInv, EndsInv
  <1>3. OnlyReaps /\ procs'[Child].state = "reaped"
    <2>1. CASE procs[Child].state = "zombie" /\ procs' = [procs EXCEPT ![Child].state = "reaped"]
      BY <1>2, <2>1, WaitpidFields
    <2>2. CASE procs[Child].state = "reaped" /\ UNCHANGED procs
      BY <1>2, <2>2, SameTableFromFields
    <2> QED BY <2>1, <2>2 DEF WaitpidReturns
  <1>4. SameTable /\ Len(procs') = Len(procs) /\ Child' = Child
    BY <1>2, <1>3, SameTableFromFields DEF SameTable, Child
  <1>5. TypeOK'
    BY <1>1, <1>2, <1>4 DEF TypeOK, Busy, SameTable
  <1>6. LineInv'
    BY <1>1, <1>2, <1>4 DEF IInv, LineInv, ValidLine, Busy, Child
  <1>7. EndsInv'
    BY <1>1, <1>4 DEF IInv, EndsInv, InputEnd
  <1>8. StageInv'
    <2>1. Static(Child)
      BY <1>2, <1>4 DEF SameTable, Child, TypeOK
    <2> QED BY <1>1, <1>4, <2>1 DEF IInv, StageInv, AtEnd, Static
  <1>9. PipeInv'
    BY <1>1, <1>2, <1>3, PipeReaps DEF IInv
  <1>10. OnceInv'
    <2> SUFFICES ASSUME NoBackground' PROVE Alone' /\ Fresh'
      BY DEF OnceInv, NoBackground
    <2>1. /\ Alone /\ Fresh
          /\ DOMAIN procs' = 1 .. Len(procs) /\ DOMAIN procs = 1 .. Len(procs)
          /\ \A p \in 1 .. Len(procs) : Alive(p)' => Alive(p)
      BY <1>3, OnceReaps DEF IInv
    <2>2. Fresh'
      BY <1>1, <2>1 DEF Fresh
    <2>3. \A p \in 1 .. Len(procs) : ~Alive(p)'
      BY <1>3, <2>1 DEF Alone, Alive
    <2>4. Alone'
      BY <1>1, <2>1, <2>3 DEF Alone, Alive
    <2> QED BY <2>2, <2>4
  <1> QED BY <1>5, <1>6, <1>7, <1>8, <1>9, <1>10 DEF IInv

LEMMA CloseIInv == IInv /\ Close => IInv'
  <1> SUFFICES ASSUME IInv, Close PROVE IInv'
    OBVIOUS
  <1>1. /\ pc = "close" /\ ends' = ends \ Closed
        /\ \/ AtEnd /\ pc' = "prompt" /\ UNCHANGED <<stage, input_fd>>
           \/ ~AtEnd /\ pc' = "fork" /\ stage' = stage + 1 /\ input_fd' = Child
        /\ UNCHANGED <<script, input, procs, pipes, pending, executed>>
    BY DEF Close
  <1>2. TypeOK /\ OnlyReaps
    BY <1>1, SameTableFromFields DEF IInv
  <1>3. Child \in Nat /\ Child' = Child
    BY <1>1, <1>2 DEF TypeOK, Child
  <1>4. /\ Child > 0 /\ input_fd < Child
        /\ ends = InputEnd \cup {<<Child, "r">>, <<Child, "w">>}
    BY <1>1 DEF IInv, EndsInv
  <1>5. ValidLine(input) /\ stage \in 1 .. Len(input.commands)
    BY <1>1 DEF IInv, LineInv, Busy
  <1>6. TypeOK'
    BY <1>1, <1>2, <1>3 DEF TypeOK, Busy
  <1>7. LineInv'
    <2>1. ~AtEnd => stage + 1 \in 1 .. Len(input.commands)
      BY <1>5, ShellAssumption DEF AtEnd, ValidLine
    <2> QED BY <1>1, <1>5, <2>1 DEF IInv, LineInv, ValidLine, Busy
  <1>8. EndsInv'
    <2>1. CASE AtEnd
      <3>1. ends' = {}
        BY <1>1, <1>4, <2>1 DEF Closed, InputEnd
      <3> QED BY <1>1, <2>1, <3>1 DEF EndsInv
    <2>2. CASE ~AtEnd
      <3>1. ends' = {<<Child, "r">>}
        <4>1. <<Child, "r">> # <<Child, "w">> /\ input_fd # Child
          BY <1>2, <1>3, <1>4 DEF TypeOK
        <4> QED BY <1>1, <1>4, <2>2, <4>1 DEF Closed, InputEnd
      <3>2. pc' = "fork" /\ input_fd' = Child
        BY <1>1, <2>2
      <3> QED BY <1>3, <1>4, <3>1, <3>2 DEF EndsInv, InputEnd
    <2> QED BY <2>1, <2>2
  <1>9. StageInv'
    BY <1>1, <1>3, <1>4 DEF IInv, StageInv, Child
  <1>10. PipeInv'
    BY <1>1, <1>2, PipeReaps DEF IInv
  <1>11. OnceInv'
    <2> SUFFICES ASSUME NoBackground' PROVE Alone' /\ Fresh'
      BY DEF OnceInv, NoBackground
    <2>1. Alone /\ Fresh
      BY <1>2, OnceReaps DEF IInv
    <2>2. Fresh'
      BY <1>1, <2>1 DEF Fresh
    <2>3. Alone'
      BY <1>1, <1>3, <2>1 DEF Alone
    <2> QED BY <2>2, <2>3
  <1> QED BY <1>6, <1>7, <1>8, <1>9, <1>10, <1>11 DEF IInv

\* The handler runs between two steps, or ends waitpid or fgets: then the line in the
\* buffer is run again, which only a process in the background can bring about.
LEMMA SignalIInv == IInv /\ SignalHandler => IInv'
  <1> SUFFICES ASSUME IInv, SignalHandler PROVE IInv'
    OBVIOUS
  <1>1. /\ pending /\ pending' = FALSE /\ procs' = Reaped
        /\ UNCHANGED <<script, input, ends, pipes>>
        /\ pc = "waiting" => Child \notin Zombies
    BY DEF SignalHandler
  <1>2. \/ UNCHANGED <<pc, stage, input_fd, executed>>
        \/ pc = "waiting" /\ pc' = "close" /\ UNCHANGED <<stage, input_fd, executed>>
        \/ pc = "reading" /\ pc' \in {"prompt", "fork"}
           /\ executed' = Append(executed, input.number)
           /\ (pc' = "fork" => stage' = 1 /\ input_fd' = 0)
           /\ (pc' = "prompt" => UNCHANGED <<stage, input_fd>>)
        \/ pc = "reading" /\ pc' = "exited" /\ UNCHANGED <<stage, input_fd, executed>>
    BY DEF SignalHandler, Interrupted, Run
  <1>3. TypeOK /\ OnlyReaps
    BY <1>1, ReapedFields DEF IInv
  <1>4. SameTable /\ Len(procs') = Len(procs) /\ Child' = Child
    BY <1>3, SameTableFromFields DEF SameTable, Child
  <1>5. ValidLine(input) /\ procs # <<>> /\ Child \in 1 .. Len(procs)
    <2>1. ValidLine(input) /\ procs # <<>>
      BY <1>1 DEF IInv, LineInv
    <2> QED BY <1>3, <2>1 DEF TypeOK, Child
  <1>6. input.number \in Nat /\ Len(input.commands) \in Nat \ {0}
    BY <1>5, ShellAssumption DEF ValidLine, CommandLine
  <1>7. TypeOK'
    <2>1. executed' \in Seq(Nat)
      <3>1. executed \in Seq(Nat)
        BY <1>3 DEF TypeOK
      <3>2. Append(executed, input.number) \in Seq(Nat)
        BY <1>6, <3>1
      <3> QED BY <1>2, <3>1, <3>2
    <2>2. /\ pc' \in {"prompt", "reading", "exited"} \cup Busy /\ stage' \in Nat
          /\ input_fd' \in Nat
      BY <1>2, <1>3 DEF TypeOK, Busy
    <2> QED BY <1>1, <1>3, <1>4, <2>1, <2>2 DEF TypeOK, SameTable
  <1>8. LineInv'
    BY <1>1, <1>2, <1>5, <1>6 DEF IInv, LineInv, ValidLine, Busy
  <1>9. EndsInv'
    BY <1>1, <1>2, <1>4 DEF IInv, EndsInv, InputEnd
  <1>10. StageInv'
    <2>1. Static(Child)
      BY <1>4, <1>5 DEF SameTable
    <2> QED BY <1>1, <1>2, <1>4, <2>1 DEF IInv, StageInv, AtEnd, Static
  <1>11. PipeInv'
    BY <1>1, <1>3, PipeReaps DEF IInv
  <1>12. OnceInv'
    <2> SUFFICES ASSUME NoBackground' PROVE Alone' /\ Fresh'
      BY DEF OnceInv, NoBackground
    <2>1. /\ Alone /\ Fresh
          /\ DOMAIN procs' = 1 .. Len(procs) /\ DOMAIN procs = 1 .. Len(procs)
          /\ \A p \in 1 .. Len(procs) : Alive(p)' => Alive(p)
      BY <1>3, OnceReaps DEF IInv
    <2>2. pc \notin {"reading", "waiting"}
      BY <1>1, <1>5, <2>1 DEF Alone, Zombies
    <2>3. UNCHANGED <<pc, executed, script>>
      BY <1>1, <1>2, <2>2
    <2>4. Fresh'
      BY <2>1, <2>3 DEF Fresh
    <2>5. Alone'
      BY <1>1, <1>4, <2>1, <2>3 DEF Alone, Alive
    <2> QED BY <2>4, <2>5
  <1> QED BY <1>7, <1>8, <1>9, <1>10, <1>11, <1>12 DEF IInv

-----------------------------------------------------------------------------
(* Theorems                                                                *)

LEMMA InitIInv == Init => IInv
  <1> SUFFICES ASSUME Init PROVE IInv
    OBVIOUS
  <1>1. script \in Seq(CommandLine)
    BY ShellAssumption DEF Init
  <1>2. TypeOK
    <2>1. <<>> \in Seq(Process) /\ <<>> \in Seq(Nat)
      OBVIOUS
    <2>2. ends \in SUBSET (Nat \X {"r", "w"}) /\ pending \in BOOLEAN
      BY DEF Init
    <2> QED BY <1>1, <2>1, <2>2 DEF Init, TypeOK
  <1>3. LineInv
    BY ShellAssumption DEF Init, LineInv, Busy
  <1>4. EndsInv /\ StageInv
    BY DEF Init, EndsInv, StageInv
  <1>5. PipeInv
    BY DEF Init, PipeInv
  <1>6. OnceInv
    BY ShellAssumption DEF Init, OnceInv, Alone, Fresh
  <1> QED BY <1>2, <1>3, <1>4, <1>5, <1>6 DEF IInv

LEMMA IInvNext == IInv /\ [Next]_vars => IInv'
  <1> SUFFICES ASSUME IInv, [Next]_vars PROVE IInv'
    OBVIOUS
  <1>1. CASE Eof \/ CallFgets \/ CallWaitpid \/ UNCHANGED vars
    <2>1. UNCHANGED <<shellVars, procs, pipes, pending, executed>>
      BY <1>1 DEF Eof, CallFgets, CallWaitpid, vars
    <2>2. \/ UNCHANGED pc
          \/ pc = "prompt" /\ ~pending /\ pc' = "reading"
          \/ pc = "reading" /\ pc' = "exited"
          \/ pc = "forked" /\ ~pending /\ pc' = "waiting"
      BY <1>1 DEF Eof, CallFgets, CallWaitpid, vars
    <2> QED BY <2>1, <2>2, CallIInv
  <1>2. ASSUME NEW p \in Pids, ProcStep(p) PROVE IInv'
    <2>1. p \in 1 .. Len(procs)
      BY <1>2 DEF ProcStep, IInv, TypeOK
    <2> QED BY <1>2, <2>1, ProcIInv
  <1> QED BY <1>1, <1>2, TypeIInv, ForkIInv, WaitpidIInv, CloseIInv, SignalIInv
          DEF Next, ShellStep

LEMMA IInvHolds == Spec => []IInv
  BY InitIInv, IInvNext, PTL DEF Spec

\* doCommand leaves no end of a pipe open in the shell, whatever signals came in between,
\* whatever failed to start and however many lines were run (or run again).
THEOREM ShellClosesItsEnds == Spec => []NoDescriptorLeft
  <1>1. IInv => NoDescriptorLeft
    BY DEF IInv, EndsInv, NoDescriptorLeft
  <1> QED BY <1>1, IInvHolds, PTL

\* The reader of a pipeline that is not in the background gets all its writer wrote, for
\* pipes of any capacity and pipelines of any length: that execvp'd programs keep fd[1]
\* open until they end is what keeps the end of the input from being found too early.
THEOREM PipelinesDeliver == Spec => []PipelineDelivers
  <1>1. IInv => PipelineDelivers
    <2> SUFFICES ASSUME IInv, NEW p \in DOMAIN procs, procs[p].eof, ~procs[p].background
                 PROVE  procs[p].got = procs[procs[p].in].command.writes - procs[procs[p].in].left
      BY DEF PipelineDelivers
    <2>1. DOMAIN procs = 1 .. Len(procs) /\ TypeOK
      BY DEF IInv, TypeOK
    <2>2. ReadsPrevious(p) /\ EofIsEnd(p)
      BY DEF IInv, PipeInv
    <2>3. /\ procs[p].in = p - 1 /\ p - 1 \in 1 .. Len(procs) /\ pipes[p - 1] = 0
          /\ ~procs[p - 1].background /\ ~procs[p - 1].end
      BY <2>1, <2>2 DEF ReadsPrevious, EofIsEnd
    <2>4. Accounted(p - 1)
      BY <2>1, <2>3 DEF IInv, PipeInv
    <2>5. Taken(p - 1) = procs[p].got
      BY <2>1, <2>3 DEF Taken
    <2>6. /\ procs[p].got \in Nat /\ procs[p - 1].left \in Nat
          /\ procs[p].got + procs[p - 1].left = procs[p - 1].command.writes
      <3>1. procs[p].got \in Nat /\ procs[p - 1].left \in Nat
        BY <2>1, <2>3, FieldTypes
      <3>2. 0 + procs[p].got + procs[p - 1].left = procs[p - 1].command.writes
        BY <2>3, <2>4, <2>5 DEF Accounted
      <3> QED BY <3>1, <3>2
    <2> QED BY <2>3, <2>6
  <1> QED BY <1>1, IInvHolds, PTL

\* As long as nothing was put in the background, no line is run twice: SIGCHLD of the
\* process that doCommand waits for is handled before fgets is called.
THEOREM ForegroundRunsOnce == Spec => []LinesRunOnce
  <1>1. IInv => LinesRunOnce
    BY DEF IInv, OnceInv, Fresh, LinesRunOnce
  <1> QED BY <1>1, IInvHolds, PTL
=============================================================================
