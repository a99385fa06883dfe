------------------------------- MODULE Parser -------------------------------
(***************************************************************************)
(* The parser of the shell, myshell_parser.c: pipeline_build on every line *)
(* of bounded length, and pipeline_free on what it built or gave up.       *)
(*                                                                         *)
(* A line is the sequence of its tokens; whitespace is left out, except    *)
(* that it takes room between two words.  A word is "w", or "long" when it *)
(* exceeds MAX_WORD_LENGTH.  Copies made by strndup are named by the       *)
(* position of the token they copy, and 0 is the NULL pointer.             *)
(***************************************************************************)
EXTENDS Integers, Sequences, FiniteSets, FiniteSetsExt, SequencesExt

CONSTANTS
  MAX_LINE_LENGTH,   \* size of the caller's buffer, the final NUL included
  MAX_WORD_LENGTH

ASSUME LengthAssumption ==
  /\ MAX_LINE_LENGTH \in Nat \ {0}
  /\ MAX_WORD_LENGTH \in Nat \ {0}

VARIABLES
  line,             \* the tokens of command_line
  token,            \* position the parser has come to
  commands,         \* the list of struct pipeline_command
  is_background,
  last_cmd_parse,   \* last result of parse_command that parse_pipes saw
  in_ret,           \* redirect_in_ret of the round in progress
  at,               \* where pipeline_build or pipeline_free is
  heap,             \* copies that are allocated
  wild              \* free() was given an uninitialised pointer

vars == <<line, token, commands, is_background, last_cmd_parse, in_ret, at, heap, wild>>

Null == 0
Words == {"w", "long"}
Angles == {"<", ">"}
Tokens == Words \cup Angles \cup {"&", "|"}

Length(tk) == IF tk = "long" THEN MAX_WORD_LENGTH + 1 ELSE 1

\* Characters of a line: its tokens, and a blank between two words.
Chars(l) ==
  LET longs  == {i \in 1..Len(l) : l[i] = "long"}
      blanks == {i \in 1..Len(l) - 1 : {l[i], l[i + 1]} \subseteq Words}
  IN  Len(l) + MAX_WORD_LENGTH * Cardinality(longs) + Cardinality(blanks)

\* MAX_ARGV_LENGTH, the number of entries of command_args.
MaxArgv == MAX_LINE_LENGTH \div 2 + 1

\* command_args is the sequence of the entries that were written.
NewCommand == [command_args |-> <<Null>>, redirect_in_path |-> Null, redirect_out_path |-> Null]

Init ==
  /\ \E n \in 0..MAX_LINE_LENGTH - 1 :
       line \in {l \in [1..n -> Tokens] : Chars(l) < MAX_LINE_LENGTH}
  /\ token = 1
  /\ commands = <<NewCommand>>
  /\ is_background = FALSE
  /\ last_cmd_parse = 0
  /\ in_ret = 0
  /\ at = "args"
  /\ heap = {}
  /\ wild = FALSE

\* next_token: the type of the token at position i.
TokenType(i) == IF i > Len(line) THEN "none" ELSE IF line[i] \in Words THEN "word" ELSE line[i]

TooLongOffByOne(i) == Length(line[i]) >= MAX_WORD_LENGTH
TooLong(i) == Length(line[i]) > MAX_WORD_LENGTH

current == commands[Len(commands)]
ArgCount(c) == Cardinality({k \in DOMAIN c.command_args : c.command_args[k] # Null})

\* command_args[k] = x, the entries being counted from 0.
Store(args, k, x) == SubSeq(args, 1, k) \o <<x>>

\* parse_args ends the list of arguments with a NULL.
EndedNever(c) == c.command_args
Ended(c) == Store(c.command_args, ArgCount(c), Null)

-----------------------------------------------------------------------------

\* parse_args, one round of its loop: copy a word.
ParseArg ==
  /\ at = "args" /\ TokenType(token) = "word" /\ ~TooLong(token)
  /\ commands' = [commands EXCEPT ![Len(commands)].command_args =
                    Store(@, ArgCount(current), token)]
  /\ heap' = heap \cup {token}
  /\ token' = token + 1
  /\ UNCHANGED <<line, is_background, last_cmd_parse, in_ret, at, wild>>

\* parse_args returns -1, and so does everything above it: no NULL is stored.
ParseArgTooLong ==
  /\ at = "args" /\ TokenType(token) = "word" /\ TooLong(token)
  /\ at' = "failed"
  /\ UNCHANGED <<line, token, commands, is_background, last_cmd_parse, in_ret, heap, wild>>

\* parse_args ends; without arguments parse_command returns 0 before it looks for
\* redirections.
ParseArgsEnd ==
  /\ at = "args" /\ TokenType(token) # "word"
  /\ commands' = [commands EXCEPT ![Len(commands)].command_args = Ended(current)]
  /\ IF ArgCount(current) = 0
     THEN at' = "pipes" /\ last_cmd_parse' = 0
     ELSE at' = "in" /\ UNCHANGED last_cmd_parse
  /\ UNCHANGED <<line, token, is_background, in_ret, heap, wild>>

\* The common body of parse_redirect_in and parse_redirect_out: what is returned, the
\* position afterwards and the word that becomes the path.
RedirectAtAngle(i, angle) ==
  CASE TokenType(i) # angle -> [ret |-> 0, token |-> i, path |-> {}]
    [] TokenType(i) = angle /\ TokenType(i + 1) = "word" /\ ~TooLong(i + 1) ->
         [ret |-> 1, token |-> i + 2, path |-> {i}]
    [] OTHER -> [ret |-> -1, token |-> i + 1, path |-> {}]
Redirect(i, angle) ==
  CASE TokenType(i) # angle -> [ret |-> 0, token |-> i, path |-> {}]
    [] TokenType(i) = angle /\ TokenType(i + 1) = "word" /\ ~TooLong(i + 1) ->
         [ret |-> 1, token |-> i + 2, path |-> {i + 1}]
    [] OTHER -> [ret |-> -1, token |-> i + 1, path |-> {}]

\* The field keeps its value when nothing was recorded.
PathAfter(old, path) == IF path = {} THEN old ELSE CHOOSE p \in path : TRUE

RedirectIn ==
  LET r == Redirect(token, "<") IN
  /\ at = "in"
  /\ in_ret' = r.ret
  /\ token' = r.token
  /\ commands' = [commands EXCEPT ![Len(commands)].redirect_in_path = PathAfter(@, r.path)]
  /\ heap' = heap \cup r.path
  /\ at' = "out"
  /\ UNCHANGED <<line, is_background, last_cmd_parse, wild>>

\* parse_redirect_out, also called when parse_redirect_in failed, and the loop around
\* both, which goes on only if both found something.
RedirectOut ==
  LET r == Redirect(token, ">") IN
  /\ at = "out"
  /\ token' = r.token
  /\ commands' = [commands EXCEPT ![Len(commands)].redirect_out_path = PathAfter(@, r.path)]
  /\ heap' = heap \cup r.path
  /\ \/ /\ in_ret > 0 /\ r.ret > 0
        /\ at' = "in"
        /\ UNCHANGED last_cmd_parse
     \/ /\ -1 \in {in_ret, r.ret}
        /\ at' = "failed"
        /\ UNCHANGED last_cmd_parse
     \/ /\ ~(in_ret > 0 /\ r.ret > 0) /\ -1 \notin {in_ret, r.ret}
        /\ at' = "pipes"
        /\ last_cmd_parse' = 1
  /\ UNCHANGED <<line, is_background, in_ret, wild>>

MayPipeAlways == last_cmd_parse \in {0, 1}
MayPipe == last_cmd_parse = 1

\* parse_pipes meets '|' after a command: the next command is linked before it is parsed.
Pipe ==
  /\ at = "pipes" /\ TokenType(token) = "|" /\ MayPipe
  /\ token' = token + 1
  /\ commands' = Append(commands, NewCommand)
  /\ at' = "args"
  /\ UNCHANGED <<line, is_background, last_cmd_parse, in_ret, heap, wild>>

\* parse_pipes meets '|' and the command in front of it was empty.
PipeRefused ==
  /\ at = "pipes" /\ TokenType(token) = "|" /\ ~MayPipe
  /\ at' = "failed"
  /\ UNCHANGED <<line, token, commands, is_background, last_cmd_parse, in_ret, heap, wild>>

\* parse_background: the number of marks it takes.
Background(i) == IF TokenType(i) = "&" THEN 1 ELSE 0

\* The end of parse_pipes: the background mark, then the end of the line or an error.
Finish ==
  /\ at = "pipes" /\ TokenType(token) # "|"
  /\ is_background' = (Background(token) = 1)
  /\ token' = token + Background(token)
  /\ at' = IF TokenType(token') = "none" THEN "built" ELSE "failed"
  /\ UNCHANGED <<line, commands, last_cmd_parse, in_ret, heap, wild>>

-----------------------------------------------------------------------------

\* The caller frees a pipeline it got; pipeline_build frees one that failed.
PipelineFree ==
  /\ at \in {"built", "failed"}
  /\ at' = "free"
  /\ UNCHANGED <<line, token, commands, is_background, last_cmd_parse, in_ret, heap, wild>>

CopiesButOut(c) == Range(c.command_args) \cup {c.redirect_in_path}
Copies(c) == Range(c.command_args) \cup {c.redirect_in_path, c.redirect_out_path}

\* One round of the loop of pipeline_free.  pipeline_command_free_args stops at the first
\* NULL; if none was stored it goes on to an entry that malloc left as it was.
FreeCommand ==
  /\ at = "free" /\ commands # <<>> /\ ~wild
  /\ LET c == Head(commands) IN
       /\ wild' \in {FALSE, Null \notin Range(c.command_args)}
       /\ heap' = heap \ Copies(c)
  /\ commands' = Tail(commands)
  /\ UNCHANGED <<line, token, is_background, last_cmd_parse, in_ret, at>>

FreeEnd ==
  /\ at = "free" /\ (commands = <<>> \/ wild)
  /\ at' = "freed"
  /\ UNCHANGED <<line, token, commands, is_background, last_cmd_parse, in_ret, heap, wild>>

Returned == at = "freed" /\ UNCHANGED vars

Next ==
  \/ ParseArg \/ ParseArgTooLong \/ ParseArgsEnd
  \/ RedirectIn \/ RedirectOut
  \/ Pipe \/ PipeRefused \/ Finish
  \/ PipelineFree \/ FreeCommand \/ FreeEnd \/ Returned

Spec == Init /\ [][Next]_vars

-----------------------------------------------------------------------------
(***************************************************************************)
(* The reference: what a line means, read off the line without parsing.    *)
(***************************************************************************)

Positions == 1..Len(line)
IsPath(i) == i > 1 /\ line[i] \in Words /\ line[i - 1] \in Angles
CommandOf(i) == 1 + Cardinality({j \in 1..i - 1 : line[j] = "|"})

ArgsOf(c) == {i \in Positions : line[i] \in Words /\ ~IsPath(i) /\ CommandOf(i) = c}
PathsOf(c, angle) == {i \in Positions : IsPath(i) /\ line[i - 1] = angle /\ CommandOf(i) = c}

\* The grammar of the comments of parse_pipes, parse_command and parse_args, with '&' at
\* the end of the line only and with a last command that may be empty.
Grammatical ==
  \A i \in Positions :
    /\ line[i] # "long"
    /\ line[i] = "&" => i = Len(line)
    /\ line[i] \in Angles => i < Len(line) /\ line[i + 1] \in Words
    /\ line[i] \in Angles \cup {"|"} => i > 1 /\ line[i - 1] \in Words
    /\ line[i] \in Words /\ i > 1 => ~IsPath(i - 1)

\* At most one '<' and one '>' per command, in this order.
InThenOut ==
  \A i, j \in Positions :
    i < j /\ CommandOf(i) = CommandOf(j) /\ {line[i], line[j]} \subseteq Angles =>
      line[i] = "<" /\ line[j] = ">"

\* The line is accepted only if it is in the grammar: whatever mixture of errors a line
\* has, one of them is noticed, although parse_redirect_out goes on after an error.
AcceptedIsGrammatical == at = "built" => Grammatical

\* pipeline_build rejects no line of the grammar whose commands redirect their input
\* first and their output second, each at most once.
UsualLineAccepted == at = "failed" => ~(Grammatical /\ InThenOut)

\* s lists the elements of S in increasing order.
Lists(s, S) == Range(s) = S /\ \A i, j \in DOMAIN s : i < j => s[i] < s[j]

\* The pipeline that is built says what the line says: as many commands as there are
\* pipes and one, each with its words in order and the last of each of its redirections,
\* and the background mark.
FaithfulPipeline ==
  at = "built" =>
    /\ is_background = (\E i \in Positions : line[i] = "&")
    /\ Len(commands) = 1 + Cardinality({i \in Positions : line[i] = "|"})
    /\ \A c \in 1..Len(commands) :
         /\ Last(commands[c].command_args) = Null
         /\ Lists(Front(commands[c].command_args), ArgsOf(c))
         /\ commands[c].redirect_in_path = Max(PathsOf(c, "<") \cup {Null})
         /\ commands[c].redirect_out_path = Max(PathsOf(c, ">") \cup {Null})

\* pipeline_free, whatever the parser had done when it failed, releases every copy but
\* the paths that a later redirection of the same command replaced.
FreeReleasesAll ==
  at = "freed" /\ ~wild =>
    \A i \in heap : \E j \in Positions :
      /\ i < j /\ j < token
      /\ IsPath(i) /\ IsPath(j) /\ line[i - 1] = line[j - 1]
      /\ CommandOf(i) = CommandOf(j)

\* Stores into command_args stay inside the array, with the longest list of arguments that
\* fits in a line too; and pipeline_free follows an uninitialised entry only after
\* parse_args met a word that is too long behind an argument of the same command.
ArgsStayInside ==
  /\ \A c \in 1..Len(commands) : Len(commands[c].command_args) <= MaxArgv
  /\ wild => /\ token > 1 /\ token <= Len(line)
             /\ line[token] = "long" /\ line[token - 1] = "w" /\ ~IsPath(token - 1)
=============================================================================
