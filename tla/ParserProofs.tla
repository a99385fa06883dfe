---------------------------- MODULE ParserProofs ----------------------------
(***************************************************************************)
(* Theorems about Parser for lines of any length and any limits: which     *)
(* lines pipeline_build accepts, and what pipeline_free leaves behind.     *)
(***************************************************************************)
EXTENDS Parser, FiniteSetTheorems, SequenceTheorems, TLAPS

-----------------------------------------------------------------------------
(* The inductive invariant                                                 *)

Building == at \in {"args", "in", "out", "pipes"}

CommandType == [command_args : Seq(Nat), redirect_in_path : Nat, redirect_out_path : Nat]

TypeInv ==
  /\ line \in Seq(Tokens)
  /\ token \in Nat \ {0}
  /\ commands \in Seq(CommandType)
  /\ in_ret \in {-1, 0, 1}
  /\ last_cmd_parse \in {0, 1}
  /\ at \in {"args", "in", "out", "pipes", "built", "failed", "free", "freed"}
  /\ Building => commands # <<>>

\* The arguments read so far are all of command_args, but for the NULL of a new command.
ArgsInv ==
  at = "args" =>
    \/ current.command_args = <<Null>>
    \/ current.command_args # <<>> /\ \A k \in DOMAIN current.command_args : current.command_args[k] # Null

\* The tokens in front of position k obey the grammar, and none of them is a '&'.
Good(k) ==
  \A i \in 1 .. k - 1 :
    /\ i <= Len(line) /\ line[i] \notin {"long", "&"}
    /\ line[i] \in Angles => i + 1 < k /\ line[i + 1] \in Words
    /\ line[i] \in Angles \cup {"|"} => i > 1 /\ line[i - 1] \in Words
    /\ line[i] \in Words /\ i > 1 => ~IsPath(i - 1)

\* Position k stands behind a word.
BehindWord(k) == k > 1 /\ line[k - 1] \in Words

\* What the parser knows of the line when it has not met an error.
GrammarInv ==
  /\ at \in {"args", "in", "pipes"} \/ (at = "out" /\ in_ret # -1) => Good(token)
  /\ at = "args" =>
       /\ BehindWord(token) => ~IsPath(token - 1)
       /\ current.command_args # <<Null>> => BehindWord(token)
  /\ at = "in" \/ (at = "out" /\ in_ret # -1) \/ (at = "pipes" /\ last_cmd_parse = 1) =>
       BehindWord(token)
  /\ at = "built" => Grammatical

\* Position k stands behind one redirection of each kind; nothing was redirected yet.
BehindInOut(k) ==
  k > 4 /\ line[k - 4] = "<" /\ line[k - 3] \in Words /\ line[k - 2] = ">" /\ line[k - 1] \in Words
BehindArgs(k) == BehindWord(k) /\ ~IsPath(k - 1) /\ TokenType(k) # "word"

\* On a line of the usual form the parser meets no error.
UsualInv ==
  Grammatical /\ InThenOut =>
    /\ at # "failed"
    /\ at = "args" /\ current.command_args = <<Null>> => token = 1 \/ line[token - 1] = "|"
    /\ at = "in" => BehindArgs(token) \/ BehindInOut(token)
    /\ at = "out" =>
         \/ in_ret = 0 /\ TokenType(token) # "<" /\ (BehindArgs(token) \/ BehindInOut(token))
         \/ in_ret = 1 /\ token > 2 /\ line[token - 2] = "<" /\ line[token - 1] \in Words
    /\ at = "pipes" =>
         /\ TokenType(token) \in {"|", "&", "none"}
         /\ last_cmd_parse = 0 => token = 1 \/ line[token - 1] = "|"

\* p is the path of a redirection of the command that position k belongs to.
PathBefore(p, angle, k) ==
  /\ p \in 1 .. k - 1 /\ p <= Len(line) /\ IsPath(p) /\ line[p - 1] = angle
  /\ \A j \in p .. k - 1 : line[j] # "|"

PathInv ==
  Building =>
    /\ current.redirect_in_path # Null => PathBefore(current.redirect_in_path, "<", token)
    /\ current.redirect_out_path # Null => PathBefore(current.redirect_out_path, ">", token)

\* A later redirection of the same command replaced the copy of position i.
Replaced(i) ==
  \E j \in Positions :
    /\ i < j /\ j < token
    /\ IsPath(i) /\ IsPath(j) /\ line[i - 1] = line[j - 1]
    /\ CommandOf(i) = CommandOf(j)

HeapInv ==
  /\ Null \notin heap
  /\ \A i \in heap : Replaced(i) \/ \E c \in 1 .. Len(commands) : i \in Copies(commands[c])
  /\ at = "freed" /\ ~wild => commands = <<>>

IInv == TypeInv /\ ArgsInv /\ GrammarInv /\ UsualInv /\ PathInv /\ HeapInv

-----------------------------------------------------------------------------
(* The operators of the model                                              *)

LEMMA ArgCountNew ==
  ASSUME NEW c, c.command_args = <<Null>>
  PROVE  ArgCount(c) = 0
  <1>1. {k \in DOMAIN c.command_args : c.command_args[k] # Null} = {}
    BY DEF Null
  <1> QED BY <1>1, FS_EmptySet DEF ArgCount

LEMMA ArgCountAll ==
  ASSUME NEW c, c.command_args \in Seq(Nat),
         \A k \in DOMAIN c.command_args : c.command_args[k] # Null
  PROVE  ArgCount(c) = Len(c.command_args)
  <1>1. Len(c.command_args) \in Nat /\ DOMAIN c.command_args = 1 .. Len(c.command_args)
    OBVIOUS
  <1>2. {k \in DOMAIN c.command_args : c.command_args[k] # Null} = 1 .. Len(c.command_args)
    BY <1>1
  <1>3. Cardinality(1 .. Len(c.command_args)) = Len(c.command_args)
    BY <1>1, FS_Interval
  <1> QED BY <1>2, <1>3 DEF ArgCount

\* Storing over the NULL of a new command, and behind the arguments stored so far.
LEMMA StoreAt ==
  ASSUME NEW args \in Seq(Nat), NEW x \in Nat
  PROVE  Store(args, 0, x) = <<x>> /\ Store(args, Len(args), x) = Append(args, x)
  <1>1. SubSeq(args, 1, 0) = <<>>
    OBVIOUS
  <1>2. SubSeq(args, 1, Len(args)) = args
    OBVIOUS
  <1>3. <<>> \o <<x>> = <<x>> /\ args \o <<x>> = Append(args, x)
    OBVIOUS
  <1> QED BY <1>1, <1>2, <1>3 DEF Store

\* The last command alone changes.
LEMMA LastChanged ==
  ASSUME NEW s \in Seq(CommandType), s # <<>>, NEW d \in CommandType, NEW u,
         u = [s EXCEPT ![Len(s)] = d]
  PROVE  /\ u \in Seq(CommandType) /\ u # <<>> /\ Len(u) = Len(s) /\ u[Len(u)] = d
         /\ \A i \in 1 .. Len(s) : i # Len(s) => u[i] = s[i]
  <1>1. Len(s) \in Nat \ {0}
    OBVIOUS
  <1>2. Len(s) \in 1 .. Len(s)
    BY <1>1
  <1>3. /\ u \in Seq(CommandType) /\ Len(u) = Len(s)
        /\ \A i \in 1 .. Len(s) : u[i] = IF i = Len(s) THEN d ELSE s[i]
    BY <1>2, ExceptSeq
  <1>4. u # <<>>
    BY <1>1, <1>3
  <1> QED BY <1>2, <1>3, <1>4

LEMMA NewCommandType == NewCommand \in CommandType
  BY DEF NewCommand, CommandType, Null

\* The command that is being parsed.
LEMMA CurrentType ==
  ASSUME TypeInv, Building
  PROVE  /\ current \in CommandType /\ Len(commands) \in Nat \ {0}
         /\ current.command_args \in Seq(Nat)
         /\ current.redirect_in_path \in Nat /\ current.redirect_out_path \in Nat
  <1>1. Len(commands) \in Nat \ {0} /\ Len(commands) \in DOMAIN commands
    BY DEF TypeInv
  <1>2. current \in CommandType
    BY <1>1 DEF TypeInv, current
  <1> QED BY <1>1, <1>2 DEF CommandType

\* What is read at a position.
LEMMA TokenTypes ==
  ASSUME TypeInv, NEW i \in Nat \ {0}
  PROVE  /\ TokenType(i) \in {"word", "<", ">", "&", "|", "none"}
         /\ TokenType(i) = "none" <=> i > Len(line)
         /\ TokenType(i) = "word" => i <= Len(line) /\ line[i] \in Words
         /\ TokenType(i) \in {"<", ">", "&", "|"} => i <= Len(line) /\ line[i] = TokenType(i) /\ line[i] \notin Words
         /\ i <= Len(line) => line[i] \in Tokens
         /\ i <= Len(line) /\ line[i] \in Words => TokenType(i) = "word"
  <1>1. Len(line) \in Nat /\ (i <= Len(line) => line[i] \in Tokens)
    BY DEF TypeInv
  <1> QED BY <1>1 DEF TokenType, Tokens, Words, Angles

\* A word that is too long is one the model calls so.
LEMMA TooLongIsLong ==
  ASSUME NEW i, line[i] \in Words
  PROVE  TooLong(i) <=> line[i] = "long"
  BY LengthAssumption DEF TooLong, Length, Words

\* The two functions that parse a redirection.
LEMMA RedirectFacts ==
  ASSUME TypeInv, NEW i \in Nat \ {0}, NEW angle \in Angles, NEW r, r = Redirect(i, angle)
  PROVE  \/ TokenType(i) # angle /\ r.ret = 0 /\ r.token = i /\ r.path = {}
         \/ /\ TokenType(i) = angle /\ r.ret = 1 /\ r.token = i + 2 /\ r.path = {i + 1}
            /\ i + 1 <= Len(line) /\ line[i] = angle /\ line[i + 1] \in Words /\ line[i + 1] # "long"
         \/ /\ TokenType(i) = angle /\ r.ret = -1 /\ r.token = i + 1 /\ r.path = {}
            /\ i <= Len(line) /\ line[i] = angle
            /\ i + 1 > Len(line) \/ line[i + 1] \notin Words \/ line[i + 1] = "long"
  <1>1. CASE TokenType(i) # angle
    BY <1>1 DEF Redirect
  <1>2. CASE TokenType(i) = angle
    <2>1. i <= Len(line) /\ line[i] = angle /\ angle \in {"<", ">"}
      BY <1>2, TokenTypes DEF Angles
    <2>2. CASE TokenType(i + 1) = "word" /\ ~TooLong(i + 1)
      <3>1. r = [ret |-> 1, token |-> i + 2, path |-> {i + 1}]
        BY <1>2, <2>2 DEF Redirect
      <3>2. i + 1 <= Len(line) /\ line[i + 1] \in Words
        BY <2>2, TokenTypes
      <3> QED BY <1>2, <2>1, <2>2, <3>1, <3>2, TooLongIsLong
    <2>3. CASE ~(TokenType(i + 1) = "word" /\ ~TooLong(i + 1))
      <3>1. r = [ret |-> -1, token |-> i + 1, path |-> {}]
        BY <1>2, <2>3 DEF Redirect
      <3>2. i + 1 > Len(line) \/ line[i + 1] \notin Words \/ line[i + 1] = "long"
        <4>1. Len(line) \in Nat /\ i + 1 \in Nat \ {0}
          BY DEF TypeInv
        <4>2. CASE TokenType(i + 1) # "word"
          BY <4>1, <4>2, TokenTypes
        <4>3. CASE TooLong(i + 1)
          BY <4>3, TooLongIsLong
        <4> QED BY <2>3, <4>2, <4>3
      <3> QED BY <1>2, <2>1, <3>1, <3>2
    <2> QED BY <2>2, <2>3
  <1> QED BY <1>1, <1>2

LEMMA PathAfterFacts ==
  ASSUME NEW old, NEW x
  PROVE  PathAfter(old, {}) = old /\ PathAfter(old, {x}) = x
  <1>1. (CHOOSE p \in {x} : TRUE) = x
    BY Zenon
  <1> QED BY <1>1 DEF PathAfter

-----------------------------------------------------------------------------
(* What each action does to the command that is being parsed               *)

\* The last command becomes d and the other ones stay.
Touched(d) ==
  /\ commands' \in Seq(CommandType) /\ commands' # <<>> /\ Len(commands') = Len(commands)
  /\ commands'[Len(commands')] = d
  /\ \A i \in 1 .. Len(commands) : i # Len(commands) => commands'[i] = commands[i]

LEMMA CurrentBecomes ==
  ASSUME TypeInv, Building, NEW d \in CommandType, commands' = [commands EXCEPT ![Len(commands)] = d]
  PROVE  Touched(d) /\ current' = d
  <1>1. PICK s, u : s = commands /\ u = commands'
    OBVIOUS
  <1>2. s \in Seq(CommandType) /\ s # <<>> /\ u = [s EXCEPT ![Len(s)] = d]
    BY <1>1 DEF TypeInv
  <1>3. /\ u \in Seq(CommandType) /\ u # <<>> /\ Len(u) = Len(s) /\ u[Len(u)] = d
        /\ \A i \in 1 .. Len(s) : i # Len(s) => u[i] = s[i]
    BY <1>2, LastChanged
  <1> QED BY <1>1, <1>3 DEF Touched, current

LEMMA ArgsTouched ==
  ASSUME TypeInv, Building, NEW e \in Seq(Nat),
         commands' = [commands EXCEPT ![Len(commands)].command_args = e]
  PROVE  /\ Touched(current') /\ current'.command_args = e
         /\ current'.redirect_in_path = current.redirect_in_path
         /\ current'.redirect_out_path = current.redirect_out_path
  <1>1. PICK d : d = [current EXCEPT !.command_args = e]
    OBVIOUS
  <1>2. current \in CommandType
    BY CurrentType
  <1>3. /\ d \in CommandType /\ d.command_args = e /\ d.redirect_in_path = current.redirect_in_path
        /\ d.redirect_out_path = current.redirect_out_path
    BY <1>1, <1>2 DEF CommandType
  <1>4. commands' = [commands EXCEPT ![Len(commands)] = d]
    BY <1>1 DEF current
  <1>5. Touched(d) /\ current' = d
    BY <1>3, <1>4, CurrentBecomes
  <1> QED BY <1>3, <1>5

LEMMA InTouched ==
  ASSUME TypeInv, Building, NEW e \in Nat,
         commands' = [commands EXCEPT ![Len(commands)].redirect_in_path = e]
  PROVE  /\ Touched(current') /\ current'.command_args = current.command_args
         /\ current'.redirect_in_path = e /\ current'.redirect_out_path = current.redirect_out_path
  <1>1. PICK d : d = [current EXCEPT !.redirect_in_path = e]
    OBVIOUS
  <1>2. current \in CommandType
    BY CurrentType
  <1>3. /\ d \in CommandType /\ d.command_args = current.command_args /\ d.redirect_in_path = e
        /\ d.redirect_out_path = current.redirect_out_path
    BY <1>1, <1>2 DEF CommandType
  <1>4. commands' = [commands EXCEPT ![Len(commands)] = d]
    BY <1>1 DEF current
  <1>5. Touched(d) /\ current' = d
    BY <1>3, <1>4, CurrentBecomes
  <1> QED BY <1>3, <1>5

LEMMA OutTouched ==
  ASSUME TypeInv, Building, NEW e \in Nat,
         commands' = [commands EXCEPT ![Len(commands)].redirect_out_path = e]
  PROVE  /\ Touched(current') /\ current'.command_args = current.command_args
         /\ current'.redirect_in_path = current.redirect_in_path /\ current'.redirect_out_path = e
  <1>1. PICK d : d = [current EXCEPT !.redirect_out_path = e]
    OBVIOUS
  <1>2. current \in CommandType
    BY CurrentType
  <1>3. /\ d \in CommandType /\ d.command_args = current.command_args
        /\ d.redirect_in_path = current.redirect_in_path /\ d.redirect_out_path = e
    BY <1>1, <1>2 DEF CommandType
  <1>4. commands' = [commands EXCEPT ![Len(commands)] = d]
    BY <1>1 DEF current
  <1>5. Touched(d) /\ current' = d
    BY <1>3, <1>4, CurrentBecomes
  <1> QED BY <1>3, <1>5

\* The arguments of the current command: none yet, or as many as were stored.
LEMMA ArgsSoFar ==
  ASSUME TypeInv, ArgsInv, at = "args", NEW x \in Nat
  PROVE  /\ current.command_args = <<Null>> =>
              ArgCount(current) = 0 /\ Store(current.command_args, ArgCount(current), x) = <<x>>
         /\ current.command_args # <<Null>> =>
              /\ ArgCount(current) > 0
              /\ \A k \in DOMAIN current.command_args : current.command_args[k] # Null
              /\ Store(current.command_args, ArgCount(current), x) = Append(current.command_args, x)
         /\ current.command_args \in Seq(Nat) /\ current.command_args # <<>>
         /\ Store(current.command_args, ArgCount(current), x) \in Seq(Nat)
  <1>1. current.command_args \in Seq(Nat)
    BY CurrentType DEF Building
  <1>2. CASE current.command_args = <<Null>>
    <2>1. ArgCount(current) = 0
      BY <1>2, ArgCountNew
    <2>2. Store(current.command_args, 0, x) = <<x>>
      BY <1>1, StoreAt
    <2>3. <<x>> \in Seq(Nat) /\ <<Null>> # <<>>
      OBVIOUS
    <2>4. Store(current.command_args, ArgCount(current), x) = <<x>>
      BY <2>1, <2>2
    <2> QED BY <1>1, <1>2, <2>1, <2>3, <2>4, Zenon
  <1>3. CASE current.command_args # <<Null>>
    <2>1. current.command_args # <<>> /\ \A k \in DOMAIN current.command_args : current.command_args[k] # Null
      BY <1>3 DEF ArgsInv
    <2>2. ArgCount(current) = Len(current.command_args)
      BY <1>1, <2>1, ArgCountAll
    <2>3. Len(current.command_args) > 0
      BY <1>1, <2>1
    <2>4. Store(current.command_args, Len(current.command_args), x) = Append(current.command_args, x)
      BY <1>1, StoreAt
    <2>5. Append(current.command_args, x) \in Seq(Nat)
      BY <1>1
    <2> QED BY <1>1, <1>3, <2>1, <2>2, <2>3, <2>4, <2>5
  <1> QED BY <1>2, <1>3

\* A copy that was replaced stays so.
LEMMA ReplacedStays ==
  ASSUME TypeInv, line' = line, token' \in Nat, token' >= token, NEW i, Replaced(i)
  PROVE  Replaced(i)'
  <1>1. PICK j \in Positions : /\ i < j /\ j < token /\ IsPath(i) /\ IsPath(j) /\ line[i - 1] = line[j - 1]
                               /\ CommandOf(i) = CommandOf(j)
    BY DEF Replaced
  <1>2. j \in Positions' /\ IsPath(i)' /\ IsPath(j)' /\ CommandOf(i)' = CommandOf(j)'
    BY <1>1 DEF Positions, IsPath, CommandOf
  <1>3. j < token'
    BY <1>1 DEF Positions, TypeInv
  <1> QED BY <1>1, <1>2, <1>3 DEF Replaced

\* A copy is covered by a command or was replaced, as long as the command that changes
\* keeps its copies or has them replaced.
LEMMA HeapGrows ==
  ASSUME TypeInv, HeapInv, Building, NEW d, Touched(d), line' = line, at' # "freed",
         token' \in Nat, token' >= token, NEW N, heap' = heap \cup N, N \subseteq Copies(d), Null \notin N,
         \A i \in Copies(current) : i # Null => i \in Copies(d) \/ Replaced(i)'
  PROVE  HeapInv'
  <1>1. Len(commands) \in Nat \ {0} /\ Len(line) \in Nat
    BY CurrentType DEF TypeInv
  <1>2. \A i \in heap : Replaced(i) => Replaced(i)'
    BY ReplacedStays
  <1>3. ASSUME NEW i \in heap PROVE Replaced(i)' \/ \E c \in 1 .. Len(commands') : i \in Copies(commands'[c])
    <2>1. CASE Replaced(i)
      BY <1>2, <2>1
    <2>2. CASE \E c \in 1 .. Len(commands) : i \in Copies(commands[c])
      <3>1. PICK c \in 1 .. Len(commands) : i \in Copies(commands[c])
        BY <2>2
      <3>2. CASE c # Len(commands)
        BY <3>1, <3>2 DEF Touched
      <3>3. CASE c = Len(commands)
        <4>1. i # Null /\ i \in Copies(current)
          BY <3>1, <3>3 DEF HeapInv, current
        <4>2. Len(commands') \in 1 .. Len(commands') /\ commands'[Len(commands')] = d
          BY <1>1 DEF Touched
        <4> QED BY <4>1, <4>2
      <3> QED BY <3>2, <3>3
    <2> QED BY <2>1, <2>2 DEF HeapInv
  <1>4. ASSUME NEW i \in N PROVE \E c \in 1 .. Len(commands') : i \in Copies(commands'[c])
    <2>1. Len(commands') \in 1 .. Len(commands') /\ commands'[Len(commands')] = d
      BY <1>1 DEF Touched
    <2> QED BY <2>1
  <1>5. \A i \in heap' : Replaced(i)' \/ \E c \in 1 .. Len(commands') : i \in Copies(commands'[c])
    BY <1>3, <1>4
  <1>6. Null \notin heap'
    BY DEF HeapInv
  <1>7. \A c : Copies(c)' = Copies(c)
    BY DEF Copies
  <1> QED BY <1>5, <1>6 DEF HeapInv, Copies

-----------------------------------------------------------------------------
(* The invariant is kept by parse_args                                     *)

\* The grammar of a longer prefix, one token or one redirection at a time.
LEMMA GoodWord ==
  ASSUME TypeInv, NEW k \in Nat \ {0}, Good(k), k <= Len(line), line[k] = "w",
         BehindWord(k) => ~IsPath(k - 1)
  PROVE  Good(k + 1)
  <1>1. line[k] \notin Angles /\ line[k] \notin {"|", "long", "&"}
    BY DEF Angles
  <1>2. k > 1 => ~IsPath(k - 1)
    BY DEF BehindWord, IsPath
  <1> SUFFICES ASSUME NEW i \in 1 .. k
               PROVE /\ i <= Len(line) /\ line[i] \notin {"long", "&"}
                     /\ line[i] \in Angles => i + 1 < k + 1 /\ line[i + 1] \in Words
                     /\ line[i] \in Angles \cup {"|"} => i > 1 /\ line[i - 1] \in Words
                     /\ line[i] \in Words /\ i > 1 => ~IsPath(i - 1)
    BY DEF Good
  <1>3. CASE i = k
    BY <1>1, <1>2, <1>3
  <1>4. CASE i # k
    <2>1. i \in 1 .. k - 1
      BY <1>4
    <2>2. line[i] \in Angles => i + 1 < k /\ line[i + 1] \in Words
      BY <2>1 DEF Good
    <2>3. i + 1 < k => i + 1 < k + 1
      BY <2>1
    <2> QED BY <2>1, <2>2, <2>3 DEF Good
  <1> QED BY <1>3, <1>4

LEMMA GoodRedirect ==
  ASSUME TypeInv, NEW k \in Nat \ {0}, Good(k), BehindWord(k), k + 1 <= Len(line), line[k] \in Angles,
         line[k + 1] \in Words, line[k + 1] # "long"
  PROVE  Good(k + 2) /\ BehindWord(k + 2)
  <1>1. line[k] \notin Words /\ line[k] \notin {"|", "long", "&"} /\ line[k + 1] \notin Angles
        /\ line[k + 1] \notin {"|", "long", "&"}
    BY DEF Angles, Words
  <1>2. Len(line) \in Nat /\ k <= Len(line) /\ k + 1 > 1 /\ k + 2 > 1
    BY DEF TypeInv
  <1>3. ~IsPath(k + 1 - 1)
    BY <1>1 DEF IsPath
  <1>4. BehindWord(k + 2)
    BY <1>2 DEF BehindWord
  <1> SUFFICES ASSUME NEW i \in 1 .. k + 1
               PROVE /\ i <= Len(line) /\ line[i] \notin {"long", "&"}
                     /\ line[i] \in Angles => i + 1 < k + 2 /\ line[i + 1] \in Words
                     /\ line[i] \in Angles \cup {"|"} => i > 1 /\ line[i - 1] \in Words
                     /\ line[i] \in Words /\ i > 1 => ~IsPath(i - 1)
    BY <1>4 DEF Good
  <1>5. CASE i = k + 1
    BY <1>1, <1>2, <1>3, <1>5
  <1>6. CASE i = k
    BY <1>1, <1>2, <1>6 DEF BehindWord
  <1>7. CASE i # k /\ i # k + 1
    <2>1. i \in 1 .. k - 1
      BY <1>7
    <2>2. line[i] \in Angles => i + 1 < k /\ line[i + 1] \in Words
      BY <2>1 DEF Good
    <2>3. i + 1 < k => i + 1 < k + 2
      BY <2>1
    <2> QED BY <2>1, <2>2, <2>3 DEF Good
  <1> QED BY <1>5, <1>6, <1>7

\* Predicates of the line, after a step that moves the parser to position k.
LEMMA Moved ==
  ASSUME line' = line, NEW k, token' = k
  PROVE  /\ Good(token)' <=> Good(k)
         /\ BehindWord(token)' <=> BehindWord(k)
         /\ IsPath(token - 1)' <=> IsPath(k - 1)
         /\ BehindInOut(token)' <=> BehindInOut(k)
         /\ BehindArgs(token)' <=> BehindArgs(k)
         /\ TokenType(token)' = TokenType(k)
         /\ Grammatical' <=> Grammatical
         /\ InThenOut' <=> InThenOut
         /\ \A p, angle : PathBefore(p, angle, token)' <=> PathBefore(p, angle, k)
  <1>1. Good(token)' <=> Good(k)
    BY DEF Good, IsPath
  <1>2. BehindWord(token)' <=> BehindWord(k)
    BY DEF BehindWord
  <1>3. IsPath(token - 1)' <=> IsPath(k - 1)
    BY DEF IsPath
  <1>4. BehindInOut(token)' <=> BehindInOut(k)
    BY DEF BehindInOut
  <1>5. TokenType(token)' = TokenType(k)
    BY DEF TokenType
  <1>6. BehindArgs(token)' <=> BehindArgs(k)
    BY DEF BehindArgs, BehindWord, IsPath, TokenType
  <1>7. Grammatical' <=> Grammatical
    BY DEF Grammatical, Positions, IsPath
  <1>8. InThenOut' <=> InThenOut
    BY DEF InThenOut, Positions, CommandOf
  <1>9. \A p, angle : PathBefore(p, angle, token)' <=> PathBefore(p, angle, k)
    BY DEF PathBefore, IsPath
  <1> QED BY <1>1, <1>2, <1>3, <1>4, <1>5, <1>6, <1>7, <1>8, <1>9

\* parse_args copies a word.
LEMMA InvParseArg == ASSUME IInv, ParseArg PROVE IInv'
  <1> USE DEF Building
  <1>1. /\ at = "args" /\ at' = "args" /\ TokenType(token) = "word" /\ ~TooLong(token)
        /\ commands' = [commands EXCEPT ![Len(commands)].command_args =
                          Store(current.command_args, ArgCount(current), token)]
        /\ heap' = heap \cup {token} /\ token' = token + 1
        /\ UNCHANGED <<line, is_background, last_cmd_parse, in_ret, wild>>
    BY DEF ParseArg, current
  <1>2. TypeInv /\ ArgsInv /\ token \in Nat \ {0} /\ Len(line) \in Nat
    BY DEF IInv, TypeInv
  <1>3. token <= Len(line) /\ line[token] \in Words /\ line[token] = "w"
    BY <1>1, <1>2, TokenTypes, TooLongIsLong DEF Words
  <1>4. PICK e : e = Store(current.command_args, ArgCount(current), token)
    OBVIOUS
  <1>5. /\ e \in Seq(Nat)
        /\ current.command_args = <<Null>> => e = <<token>>
        /\ current.command_args # <<Null>> =>
             /\ e = Append(current.command_args, token)
             /\ \A k \in DOMAIN current.command_args : current.command_args[k] # Null
        /\ current.command_args \in Seq(Nat)
    BY <1>1, <1>2, <1>4, ArgsSoFar
  <1>6. /\ Touched(current') /\ current'.command_args = e
        /\ current'.redirect_in_path = current.redirect_in_path
        /\ current'.redirect_out_path = current.redirect_out_path
    BY <1>1, <1>2, <1>4, <1>5, ArgsTouched
  <1>7. TypeInv'
    <2>1. commands' \in Seq(CommandType) /\ commands' # <<>> /\ token' \in Nat \ {0}
      BY <1>1, <1>2, <1>6 DEF Touched
    <2> QED BY <1>1, <2>1 DEF IInv, TypeInv
  <1>8. /\ e # <<>> /\ \A k \in DOMAIN e : e[k] # Null
        /\ token \in Range(e) /\ \A i \in Range(current.command_args) : i # Null => i \in Range(e)
    <2>1. token # Null
      BY <1>2 DEF Null
    <2>2. CASE current.command_args = <<Null>>
      <3>1. e = <<token>>
        BY <1>5, <2>2
      <3> QED BY <2>1, <2>2, <3>1 DEF Range
    <2>3. CASE current.command_args # <<Null>>
      <3>1. PICK a : a = current.command_args
        OBVIOUS
      <3>2. a \in Seq(Nat) /\ e = Append(a, token) /\ \A k \in DOMAIN a : a[k] # Null
        BY <1>5, <2>3, <3>1
      <3>3. /\ Len(a) \in Nat /\ DOMAIN a = 1 .. Len(a) /\ DOMAIN e = 1 .. Len(a) + 1
            /\ e[Len(a) + 1] = token /\ \A k \in 1 .. Len(a) : e[k] = a[k]
        BY <1>2, <3>2
      <3>4. \A k \in DOMAIN e : e[k] # Null
        BY <2>1, <3>2, <3>3
      <3>5. token \in Range(e) /\ \A i \in Range(a) : i \in Range(e)
        BY <3>3 DEF Range
      <3> QED BY <3>1, <3>3, <3>4, <3>5
    <2> QED BY <2>2, <2>3
  <1>9. ArgsInv'
    BY <1>6, <1>8 DEF ArgsInv
  <1>10. GrammarInv'
    <2>1. Good(token) /\ (BehindWord(token) => ~IsPath(token - 1))
      BY <1>1 DEF IInv, GrammarInv
    <2>2. Good(token + 1)
      BY <1>2, <1>3, <2>1, GoodWord
    <2>3. PICK k : k = token + 1
      OBVIOUS
    <2>4. Good(k) /\ BehindWord(k) /\ k - 1 = token
      <3>1. k > 1 /\ k - 1 = token
        BY <1>2, <2>3
      <3> QED BY <1>3, <2>2, <2>3, <3>1 DEF BehindWord
    <2>5. ~IsPath(token)
      <3>1. CASE token = 1
        BY <3>1 DEF IsPath
      <3>2. CASE token > 1
        <4>1. CASE line[token - 1] \in Words
          BY <4>1 DEF IsPath, Words, Angles
        <4>2. CASE line[token - 1] \notin Words
          <5>1. token - 1 \in 1 .. token - 1
            BY <1>2, <3>2
          <5>2. line[token - 1] \in Angles => token - 1 + 1 < token
            BY <2>1, <5>1 DEF Good
          <5> QED BY <1>2, <5>2 DEF IsPath
        <4> QED BY <4>1, <4>2
      <3> QED BY <1>2, <3>1, <3>2
    <2>6. ~IsPath(k - 1) /\ token' = k /\ line' = line
      BY <1>1, <2>3, <2>4, <2>5
    <2>7. Good(token)' /\ BehindWord(token)' /\ ~IsPath(token - 1)'
      BY <2>4, <2>6, Moved
    <2> QED BY <1>1, <2>7 DEF GrammarInv
  <1>11. UsualInv'
    <2>1. current'.command_args # <<Null>>
      <3>1. <<Null>> # <<>> /\ 1 \in DOMAIN <<Null>> /\ <<Null>>[1] = Null
        OBVIOUS
      <3> QED BY <1>6, <1>8, <3>1
    <2> QED BY <1>1, <2>1 DEF UsualInv
  <1>12. PathInv'
    <2>1. ASSUME NEW p, NEW angle, PathBefore(p, angle, token) PROVE PathBefore(p, angle, token)'
      <3>1. p \in 1 .. token' - 1
        BY <1>1, <1>2, <2>1 DEF PathBefore
      <3>2. ASSUME NEW j \in p .. token' - 1 PROVE line[j] # "|"
        <4>1. j \in p .. token - 1 \/ j = token
          BY <1>1, <1>2, <2>1, <3>2 DEF PathBefore
        <4> QED BY <1>3, <2>1, <4>1 DEF PathBefore
      <3> QED BY <1>1, <2>1, <3>1, <3>2 DEF PathBefore, IsPath
    <2> QED BY <1>1, <1>6, <2>1 DEF IInv, PathInv
  <1>13. HeapInv'
    <2>1. token \in Copies(current') /\ \A i \in Copies(current) : i # Null => i \in Copies(current')
      BY <1>6, <1>8 DEF Copies
    <2>2. token # Null /\ token' \in Nat /\ token' >= token
      BY <1>1, <1>2 DEF Null
    <2>3. PICK N : N = {token}
      OBVIOUS
    <2>4. PICK d : d = current'
      OBVIOUS
    <2>5. Touched(d) /\ N \subseteq Copies(d) /\ Null \notin N /\ heap' = heap \cup N
          /\ \A i \in Copies(current) : i # Null => i \in Copies(d)
      BY <1>1, <1>6, <2>1, <2>2, <2>3, <2>4
    <2> QED BY <1>1, <1>2, <2>2, <2>5, HeapGrows DEF IInv
  <1> QED BY <1>7, <1>9, <1>10, <1>11, <1>12, <1>13 DEF IInv

-----------------------------------------------------------------------------
(* The invariant is kept when the parser stops                             *)

LEMMA HeapKept ==
  ASSUME TypeInv, HeapInv, UNCHANGED <<line, commands, heap>>, token' \in Nat, token' >= token,
         at' = "freed" /\ ~wild' => commands = <<>>
  PROVE  HeapInv'
  <1>1. Len(line) \in Nat /\ token \in Nat
    BY DEF TypeInv
  <1>2. \A i \in heap : Replaced(i) => Replaced(i)'
    BY ReplacedStays
  <1> QED BY <1>2 DEF HeapInv, Copies

\* pipeline_build gives up on a line that is not of the usual form.
LEMMA InvFail ==
  ASSUME IInv, at' = "failed", UNCHANGED <<line, commands, last_cmd_parse, in_ret, heap>>,
         token' \in Nat, token' >= token, ~(Grammatical /\ InThenOut)
  PROVE  IInv'
  <1>1. TypeInv /\ HeapInv /\ token' \in Nat \ {0}
    BY DEF IInv, TypeInv
  <1>2. TypeInv' /\ ArgsInv' /\ GrammarInv' /\ PathInv'
    BY <1>1 DEF TypeInv, ArgsInv, GrammarInv, PathInv, Building
  <1>3. HeapInv'
    BY <1>1, HeapKept
  <1>4. ~(Grammatical /\ InThenOut)'
    BY Moved
  <1>5. UsualInv'
    BY <1>4 DEF UsualInv
  <1> QED BY <1>2, <1>3, <1>5 DEF IInv

\* A word that is too long is an error of the line.
LEMMA InvParseArgTooLong == ASSUME IInv, ParseArgTooLong PROVE IInv'
  <1>1. /\ at = "args" /\ at' = "failed" /\ TokenType(token) = "word" /\ TooLong(token)
        /\ UNCHANGED <<line, token, commands, last_cmd_parse, in_ret, heap>>
    BY DEF ParseArgTooLong
  <1>2. TypeInv /\ token \in Nat \ {0} /\ Len(line) \in Nat
    BY DEF IInv, TypeInv
  <1>3. token \in Positions /\ line[token] = "long"
    BY <1>1, <1>2, TokenTypes, TooLongIsLong DEF Positions
  <1>4. ~Grammatical
    BY <1>3 DEF Grammatical
  <1>5. token' \in Nat /\ token' >= token
    BY <1>1, <1>2
  <1> QED BY <1>1, <1>4, <1>5, InvFail

\* A '|' behind no command is an error of the line.
LEMMA InvPipeRefused == ASSUME IInv, PipeRefused PROVE IInv'
  <1>1. /\ at = "pipes" /\ at' = "failed" /\ TokenType(token) = "|" /\ last_cmd_parse # 1
        /\ UNCHANGED <<line, token, commands, last_cmd_parse, in_ret, heap>>
    BY DEF PipeRefused, MayPipe
  <1>2. TypeInv /\ token \in Nat \ {0} /\ Len(line) \in Nat /\ last_cmd_parse = 0
    BY <1>1 DEF IInv, TypeInv
  <1>3. token \in Positions /\ line[token] = "|"
    BY <1>1, <1>2, TokenTypes DEF Positions
  <1>4. ASSUME Grammatical, InThenOut PROVE FALSE
    <2>1. token = 1 \/ line[token - 1] = "|"
      BY <1>1, <1>2, <1>4 DEF IInv, UsualInv
    <2>2. token > 1 /\ line[token - 1] \in Words
      BY <1>3, <1>4 DEF Grammatical
    <2> QED BY <1>2, <2>1, <2>2 DEF Words
  <1>5. token' \in Nat /\ token' >= token
    BY <1>1, <1>2
  <1> QED BY <1>1, <1>4, <1>5, InvFail

\* The prefix is the whole line when the parser has come to its end.
LEMMA GoodToTheEnd ==
  ASSUME TypeInv, Good(token), TokenType(token) = "none" \/ (TokenType(token) = "&" /\ token = Len(line))
  PROVE  Grammatical
  <1>1. Len(line) \in Nat /\ token \in Nat \ {0}
    BY DEF TypeInv
  <1>2. token > Len(line) \/ (token = Len(line) /\ line[token] = "&")
    BY <1>1, TokenTypes
  <1> SUFFICES ASSUME NEW i \in 1 .. Len(line)
               PROVE /\ line[i] # "long"
                     /\ line[i] = "&" => i = Len(line)
                     /\ line[i] \in Angles => i < Len(line) /\ line[i + 1] \in Words
                     /\ line[i] \in Angles \cup {"|"} => i > 1 /\ line[i - 1] \in Words
                     /\ line[i] \in Words /\ i > 1 => ~IsPath(i - 1)
    BY DEF Grammatical, Positions
  <1>3. CASE i = token
    BY <1>1, <1>2, <1>3 DEF Angles, Words
  <1>4. CASE i # token
    <2>1. i \in 1 .. token - 1
      BY <1>1, <1>2, <1>4
    <2>2. line[i] \in Angles => i + 1 < token /\ line[i + 1] \in Words
      BY <2>1 DEF Good
    <2>3. ASSUME i + 1 < token PROVE i < Len(line)
      <3>1. i + 1 \in 1 .. token - 1
        BY <1>1, <2>1, <2>3
      <3>2. i + 1 <= Len(line)
        BY <3>1 DEF Good
      <3> QED BY <1>1, <3>2
    <2> QED BY <2>1, <2>2, <2>3 DEF Good
  <1> QED BY <1>3, <1>4

\* The end of parse_pipes.
LEMMA InvFinish == ASSUME IInv, Finish PROVE IInv'
  <1>1. /\ at = "pipes" /\ TokenType(token) # "|" /\ token' = token + Background(token)
        /\ at' = (IF TokenType(token') = "none" THEN "built" ELSE "failed")
        /\ UNCHANGED <<line, commands, last_cmd_parse, in_ret, heap>>
    <2>1. TokenType(token') = TokenType(token)'
      BY DEF Finish, TokenType
    <2> QED BY <2>1 DEF Finish
  <1>2. TypeInv /\ HeapInv /\ token \in Nat \ {0} /\ Len(line) \in Nat /\ Good(token)
    BY <1>1 DEF IInv, TypeInv, GrammarInv
  <1>3. PICK k : k = token'
    OBVIOUS
  <1>4. /\ TokenType(token) = "&" => k = token + 1
        /\ TokenType(token) # "&" => k = token
    BY <1>1, <1>2, <1>3 DEF Background
  <1>5. k \in Nat \ {0} /\ k >= token
    BY <1>2, <1>4
  <1>6. at' = (IF TokenType(k) = "none" THEN "built" ELSE "failed")
    BY <1>1, <1>3
  <1>7. CASE TokenType(k) = "none"
    <2>1. Grammatical
      <3>1. CASE TokenType(token) = "&"
        <4>1. token <= Len(line) /\ token + 1 > Len(line)
          BY <1>2, <1>4, <1>5, <1>7, <3>1, TokenTypes
        <4>2. token = Len(line)
          BY <1>2, <4>1
        <4> QED BY <1>2, <3>1, <4>2, GoodToTheEnd
      <3>2. CASE TokenType(token) # "&"
        BY <1>2, <1>4, <1>7, <3>2, GoodToTheEnd
      <3> QED BY <3>1, <3>2
    <2>2. Grammatical'
      BY <1>1, <1>3, <2>1, Moved
    <2>3. at' = "built"
      BY <1>6, <1>7
    <2>4. TypeInv' /\ ArgsInv' /\ GrammarInv' /\ UsualInv' /\ PathInv'
      BY <1>1, <1>2, <1>3, <1>5, <2>2, <2>3 DEF TypeInv, ArgsInv, GrammarInv, UsualInv, PathInv, Building
    <2>5. HeapInv'
      BY <1>1, <1>2, <1>3, <1>5, <2>3, HeapKept
    <2> QED BY <2>4, <2>5 DEF IInv
  <1>8. CASE TokenType(k) # "none"
    <2>1. ASSUME Grammatical, InThenOut PROVE FALSE
      <3>1. TokenType(token) = "&"
        BY <1>1, <1>4, <1>8, <2>1 DEF IInv, UsualInv
      <3>2. token \in Positions /\ line[token] = "&"
        BY <1>2, <3>1, TokenTypes DEF Positions
      <3>3. token = Len(line)
        BY <2>1, <3>2 DEF Grammatical
      <3>4. k > Len(line)
        BY <1>2, <1>4, <3>1, <3>3
      <3> QED BY <1>2, <1>5, <1>8, <3>4, TokenTypes
    <2> QED BY <1>1, <1>3, <1>5, <1>6, <1>8, <2>1, InvFail
  <1> QED BY <1>7, <1>8

-----------------------------------------------------------------------------
(* The invariant is kept by parse_args, parse_pipes and pipeline_free      *)

\* parse_args ends.
LEMMA InvParseArgsEnd == ASSUME IInv, ParseArgsEnd PROVE IInv'
  <1> USE DEF Building
  <1>1. /\ at = "args" /\ TokenType(token) # "word"
        /\ commands' = [commands EXCEPT ![Len(commands)].command_args =
                          Store(current.command_args, ArgCount(current), Null)]
        /\ ArgCount(current) = 0 => at' = "pipes" /\ last_cmd_parse' = 0
        /\ ArgCount(current) # 0 => at' = "in" /\ last_cmd_parse' = last_cmd_parse
        /\ UNCHANGED <<line, token, in_ret, heap, wild>>
    BY DEF ParseArgsEnd, Ended
  <1>2. TypeInv /\ ArgsInv /\ token \in Nat \ {0} /\ Len(line) \in Nat /\ Null \in Nat
    BY DEF IInv, TypeInv, Null
  <1>3. PICK e : e = Store(current.command_args, ArgCount(current), Null)
    OBVIOUS
  <1>4. /\ e \in Seq(Nat)
        /\ current.command_args = <<Null>> => ArgCount(current) = 0 /\ e = <<Null>>
        /\ current.command_args # <<Null>> => ArgCount(current) # 0 /\ e = Append(current.command_args, Null)
        /\ current.command_args \in Seq(Nat)
    <2>1. current.command_args # <<Null>> => ArgCount(current) > 0
      BY <1>1, <1>2, ArgsSoFar
    <2>2. current.command_args # <<Null>> => ArgCount(current) # 0
      BY <2>1
    <2> QED BY <1>1, <1>2, <1>3, <2>2, ArgsSoFar
  <1>5. /\ Touched(current') /\ current'.command_args = e
        /\ current'.redirect_in_path = current.redirect_in_path
        /\ current'.redirect_out_path = current.redirect_out_path
    BY <1>1, <1>2, <1>3, <1>4, ArgsTouched
  <1>6. at' \in {"in", "pipes"} /\ last_cmd_parse' \in {0, 1} /\ (at' = "pipes" => last_cmd_parse' = 0)
    BY <1>1 DEF IInv, TypeInv
  <1>7. TypeInv'
    BY <1>1, <1>2, <1>5, <1>6 DEF TypeInv, Touched
  <1>8. ArgsInv'
    BY <1>6 DEF ArgsInv
  <1>9. PICK k : k = token
    OBVIOUS
  <1>10. token' = k /\ line' = line
    BY <1>1, <1>9
  <1>11. Good(k) /\ (at' = "in" => BehindWord(k) /\ ~IsPath(k - 1))
    BY <1>1, <1>4, <1>9 DEF IInv, GrammarInv
  <1>12. GrammarInv'
    BY <1>6, <1>10, <1>11, Moved DEF GrammarInv
  <1>13. UsualInv'
    <2> SUFFICES ASSUME Grammatical', InThenOut'
                 PROVE /\ at' = "in" => BehindArgs(k)
                       /\ at' = "pipes" => /\ TokenType(k) \in {"|", "&", "none"}
                                           /\ k = 1 \/ line[k - 1] = "|"
      BY <1>6, <1>10, Moved DEF UsualInv
    <2>1. Grammatical /\ InThenOut
      BY <1>10, Moved
    <2>2. at' = "in" => BehindArgs(k)
      BY <1>1, <1>9, <1>11 DEF BehindArgs
    <2>3. ASSUME at' = "pipes" PROVE TokenType(k) \in {"|", "&", "none"} /\ (k = 1 \/ line[k - 1] = "|")
      <3>1. k = 1 \/ line[k - 1] = "|"
        BY <1>1, <1>4, <1>9, <2>1, <2>3 DEF IInv, UsualInv
      <3>2. ASSUME TokenType(k) \in {"<", ">"} PROVE FALSE
        <4>1. k \in Positions /\ line[k] \in Angles
          BY <1>2, <1>9, <3>2, TokenTypes DEF Positions, Angles
        <4>2. k > 1 /\ line[k - 1] \in Words
          BY <2>1, <4>1 DEF Grammatical
        <4> QED BY <1>2, <1>9, <3>1, <4>2 DEF Words
      <3>3. TokenType(k) \in {"word", "<", ">", "&", "|", "none"} /\ TokenType(k) # "word"
        BY <1>1, <1>2, <1>9, TokenTypes
      <3> QED BY <3>1, <3>2, <3>3
    <2> QED BY <2>2, <2>3
  <1>14. PathInv'
    BY <1>1, <1>5, <1>9, <1>10, Moved DEF IInv, PathInv
  <1>15. HeapInv'
    <2>1. \A i \in Range(current.command_args) : i # Null => i \in Range(e)
      <3>1. PICK a : a = current.command_args
        OBVIOUS
      <3>2. CASE a = <<Null>>
        BY <1>4, <3>1, <3>2 DEF Range
      <3>3. CASE a # <<Null>>
        <4>1. a \in Seq(Nat) /\ e = Append(a, Null)
          BY <1>4, <3>1, <3>3
        <4>2. DOMAIN a = 1 .. Len(a) /\ DOMAIN e = 1 .. Len(a) + 1 /\ \A n \in 1 .. Len(a) : e[n] = a[n]
          BY <1>2, <4>1
        <4>3. Len(a) \in Nat
          BY <4>1
        <4>4. \A n \in DOMAIN a : n \in DOMAIN e /\ e[n] = a[n]
          BY <4>2, <4>3
        <4> QED BY <3>1, <4>4 DEF Range
      <3> QED BY <3>2, <3>3
    <2>2. PICK d : d = current'
      OBVIOUS
    <2>3. Touched(d) /\ \A i \in Copies(current) : i # Null => i \in Copies(d)
      BY <1>5, <2>1, <2>2 DEF Copies
    <2>4. PICK N : N = {}
      OBVIOUS
    <2>5. heap' = heap \cup N /\ N \subseteq Copies(d) /\ Null \notin N /\ token' \in Nat /\ token' >= token
      BY <1>1, <1>2, <2>4
    <2> QED BY <1>1, <1>2, <1>6, <2>3, <2>5, HeapGrows DEF IInv
  <1> QED BY <1>7, <1>8, <1>12, <1>13, <1>14, <1>15 DEF IInv

\* parse_pipes links the next command.
LEMMA InvPipe == ASSUME IInv, Pipe PROVE IInv'
  <1> USE DEF Building
  <1>1. /\ at = "pipes" /\ at' = "args" /\ TokenType(token) = "|" /\ last_cmd_parse = 1
        /\ token' = token + 1 /\ commands' = Append(commands, NewCommand)
        /\ UNCHANGED <<line, last_cmd_parse, in_ret, heap, wild>>
    BY DEF Pipe, MayPipe
  <1>2. TypeInv /\ HeapInv /\ token \in Nat \ {0} /\ Len(line) \in Nat /\ commands \in Seq(CommandType)
    BY DEF IInv, TypeInv
  <1>3. token <= Len(line) /\ line[token] = "|"
    BY <1>1, <1>2, TokenTypes
  <1>4. /\ commands' \in Seq(CommandType) /\ commands' # <<>> /\ Len(commands') = Len(commands) + 1
        /\ commands'[Len(commands')] = NewCommand
        /\ \A i \in 1 .. Len(commands) : commands'[i] = commands[i]
        /\ Len(commands) \in Nat
    <2>1. PICK s, d : s = commands /\ d = NewCommand
      OBVIOUS
    <2>2. s \in Seq(CommandType) /\ d \in CommandType
      BY <1>2, <2>1, NewCommandType
    <2>3. /\ Append(s, d) \in Seq(CommandType) /\ Len(Append(s, d)) = Len(s) + 1
          /\ Append(s, d)[Len(s) + 1] = d /\ \A i \in 1 .. Len(s) : Append(s, d)[i] = s[i]
          /\ Len(s) \in Nat
      BY <2>2
    <2>4. Append(s, d) # <<>>
      BY <2>3
    <2> QED BY <1>1, <2>1, <2>3, <2>4
  <1>5. current' = NewCommand
    BY <1>4 DEF current
  <1>6. /\ current'.command_args = <<Null>> /\ current'.redirect_in_path = Null
        /\ current'.redirect_out_path = Null
    BY <1>5 DEF NewCommand
  <1>7. TypeInv'
    BY <1>1, <1>2, <1>4 DEF TypeInv
  <1>8. ArgsInv'
    BY <1>6 DEF ArgsInv
  <1>9. PICK k : k = token + 1
    OBVIOUS
  <1>10. token' = k /\ line' = line /\ k > 1 /\ k - 1 = token /\ line[k - 1] = "|"
    BY <1>1, <1>2, <1>3, <1>9
  <1>11. Good(k)
    <2>1. Good(token) /\ BehindWord(token)
      BY <1>1 DEF IInv, GrammarInv
    <2> SUFFICES ASSUME NEW i \in 1 .. token
                 PROVE /\ i <= Len(line) /\ line[i] \notin {"long", "&"}
                       /\ line[i] \in Angles => i + 1 < k /\ line[i + 1] \in Words
                       /\ line[i] \in Angles \cup {"|"} => i > 1 /\ line[i - 1] \in Words
                       /\ line[i] \in Words /\ i > 1 => ~IsPath(i - 1)
      BY <1>10 DEF Good
    <2>2. CASE i = token
      BY <1>3, <2>1, <2>2 DEF BehindWord, Angles, Words
    <2>3. CASE i # token
      <3>1. i \in 1 .. token - 1
        BY <1>2, <2>3
      <3>2. line[i] \in Angles => i + 1 < token /\ line[i + 1] \in Words
        BY <2>1, <3>1 DEF Good
      <3>3. i + 1 < token => i + 1 < k
        BY <1>2, <1>9
      <3> QED BY <2>1, <3>1, <3>2, <3>3 DEF Good
    <2> QED BY <2>2, <2>3
  <1>12. ~BehindWord(k)
    BY <1>10 DEF BehindWord, Words
  <1>13. GrammarInv'
    BY <1>1, <1>6, <1>10, <1>11, <1>12, Moved DEF GrammarInv
  <1>14. UsualInv'
    BY <1>1, <1>10 DEF UsualInv
  <1>15. PathInv'
    BY <1>6 DEF PathInv
  <1>16. HeapInv'
    <2>1. ASSUME NEW i \in heap, Replaced(i) PROVE Replaced(i)'
      <3>1. token' \in Nat /\ token' >= token
        BY <1>1, <1>2
      <3> QED BY <1>1, <1>2, <2>1, <3>1, ReplacedStays
    <2>2. \A i \in heap : (\E c \in 1 .. Len(commands) : i \in Copies(commands[c])) =>
                            \E c \in 1 .. Len(commands') : i \in Copies(commands'[c])
      BY <1>4
    <2>3. \A i \in heap' : Replaced(i)' \/ \E c \in 1 .. Len(commands') : i \in Copies(commands'[c])
      BY <1>1, <1>2, <2>1, <2>2 DEF HeapInv
    <2> QED BY <1>1, <1>2, <2>3 DEF HeapInv, Copies
  <1> QED BY <1>7, <1>8, <1>13, <1>14, <1>15, <1>16 DEF IInv

\* pipeline_free begins and ends.
LEMMA InvFreeFrame ==
  ASSUME IInv, at' \in {"free", "freed"}, UNCHANGED <<line, token, commands, last_cmd_parse, in_ret, heap, wild>>,
         at' = "freed" /\ ~wild => commands = <<>>
  PROVE  IInv'
  <1>1. TypeInv /\ HeapInv /\ token \in Nat
    BY DEF IInv, TypeInv
  <1>2. TypeInv' /\ ArgsInv' /\ GrammarInv' /\ UsualInv' /\ PathInv'
    BY <1>1 DEF TypeInv, ArgsInv, GrammarInv, UsualInv, PathInv, Building
  <1>3. HeapInv'
    <2>1. token' \in Nat /\ token' >= token
      BY <1>1
    <2> QED BY <1>1, <2>1, HeapKept
  <1> QED BY <1>2, <1>3 DEF IInv

\* pipeline_free releases the copies of the first command.
LEMMA InvFreeCommand == ASSUME IInv, FreeCommand PROVE IInv'
  <1>1. /\ at = "free" /\ at' = "free" /\ commands # <<>> /\ heap' = heap \ Copies(Head(commands))
        /\ commands' = Tail(commands) /\ UNCHANGED <<line, token, last_cmd_parse, in_ret>>
    BY DEF FreeCommand
  <1>2. TypeInv /\ HeapInv /\ commands \in Seq(CommandType)
    BY DEF IInv, TypeInv
  <1>3. /\ commands' \in Seq(CommandType) /\ Len(commands') = Len(commands) - 1 /\ Len(commands) \in Nat \ {0}
        /\ Head(commands) = commands[1]
        /\ \A c \in 1 .. Len(commands) : c # 1 => c - 1 \in 1 .. Len(commands') /\ commands'[c - 1] = commands[c]
    <2>1. PICK s, t : s = commands /\ t = Tail(s)
      OBVIOUS
    <2>2. /\ t \in Seq(CommandType) /\ Len(t) = Len(s) - 1 /\ Len(s) \in Nat \ {0} /\ Head(s) = s[1]
          /\ \A c \in 1 .. Len(s) - 1 : t[c] = s[c + 1]
      BY <1>1, <1>2, <2>1
    <2>3. \A c \in 1 .. Len(s) : c # 1 => c - 1 \in 1 .. Len(s) - 1 /\ c - 1 + 1 = c
      BY <2>2
    <2>4. \A c \in 1 .. Len(s) : c # 1 => t[c - 1] = s[c]
      BY <2>2, <2>3
    <2> QED BY <1>1, <2>1, <2>2, <2>3, <2>4
  <1>4. TypeInv' /\ ArgsInv' /\ GrammarInv' /\ UsualInv' /\ PathInv'
    BY <1>1, <1>2, <1>3 DEF TypeInv, ArgsInv, GrammarInv, UsualInv, PathInv, Building
  <1>5. ASSUME NEW i \in heap' PROVE Replaced(i)' \/ \E c \in 1 .. Len(commands') : i \in Copies(commands'[c])
    <2>1. i \in heap /\ i \notin Copies(commands[1])
      BY <1>1, <1>3
    <2>2. CASE Replaced(i)
      BY <1>1, <2>2 DEF Replaced, Positions, IsPath, CommandOf
    <2>3. CASE \E c \in 1 .. Len(commands) : i \in Copies(commands[c])
      <3>1. PICK c \in 1 .. Len(commands) : i \in Copies(commands[c])
        BY <2>3
      <3>2. c - 1 \in 1 .. Len(commands') /\ commands'[c - 1] = commands[c]
        BY <1>3, <2>1, <3>1
      <3> QED BY <3>1, <3>2
    <2> QED BY <1>2, <2>1, <2>2, <2>3 DEF HeapInv
  <1>6. HeapInv'
    BY <1>1, <1>2, <1>5 DEF HeapInv, Copies
  <1> QED BY <1>4, <1>6 DEF IInv

-----------------------------------------------------------------------------
(* The invariant is kept by parse_redirect_in and parse_redirect_out       *)

\* No '|' lies between two positions of one command.
LEMMA SameCommand ==
  ASSUME NEW p \in Nat \ {0}, NEW q \in Nat \ {0}, p <= q, \A j \in p .. q - 1 : line[j] # "|"
  PROVE  CommandOf(p) = CommandOf(q)
  <1>1. {j \in 1 .. p - 1 : line[j] = "|"} = {j \in 1 .. q - 1 : line[j] = "|"}
    OBVIOUS
  <1> QED BY <1>1 DEF CommandOf

\* The parser does not come further than the end of the line.
LEMMA GoodInside ==
  ASSUME TypeInv, NEW k \in Nat \ {0}, Good(k)
  PROVE  k <= Len(line) + 1
  <1>1. Len(line) \in Nat
    BY DEF TypeInv
  <1>2. CASE k = 1
    BY <1>1, <1>2
  <1>3. CASE k > 1
    <2>1. k - 1 \in 1 .. k - 1
      BY <1>3
    <2>2. k - 1 <= Len(line)
      BY <2>1 DEF Good
    <2> QED BY <1>1, <2>2
  <1> QED BY <1>2, <1>3

\* On a line of the usual form, a word or a '<' does not follow a path, and a '>' follows
\* only the path of a '<'.
LEMMA BehindPath ==
  ASSUME TypeInv, Grammatical, InThenOut, NEW k \in Nat, k > 2, k <= Len(line) + 1,
         line[k - 2] \in Angles, line[k - 1] \in Words
  PROVE  TokenType(k) \notin {"word", "<"} /\ (TokenType(k) = ">" => line[k - 2] = "<")
  <1>1. Len(line) \in Nat /\ k \in Nat \ {0} /\ k - 1 > 1
    BY DEF TypeInv
  <1>2. ASSUME TokenType(k) = "word" PROVE FALSE
    <2>1. k \in Positions /\ line[k] \in Words
      BY <1>1, <1>2, TokenTypes DEF Positions
    <2>2. ~IsPath(k - 1)
      BY <2>1 DEF Grammatical
    <2>3. line[k - 1 - 1] \in Angles
      BY <1>1
    <2> QED BY <1>1, <2>2, <2>3 DEF IsPath
  <1>3. ASSUME TokenType(k) \in Angles PROVE line[k - 2] = "<" /\ TokenType(k) = ">"
    <2>1. k \in 1 .. Len(line) /\ line[k] = TokenType(k) /\ line[k] \in Angles
      BY <1>1, <1>3, TokenTypes DEF Angles
    <2>2. k - 2 \in 1 .. Len(line) /\ k - 2 < k /\ k - 2 \in Nat \ {0} /\ k - 2 <= k
      BY <1>1, <2>1
    <2>3. \A j \in k - 2 .. k - 1 : line[j] # "|"
      <3>1. \A j \in k - 2 .. k - 1 : j = k - 2 \/ j = k - 1
        BY <1>1
      <3> QED BY <3>1 DEF Angles, Words
    <2>4. CommandOf(k - 2) = CommandOf(k)
      BY <1>1, <2>2, <2>3, SameCommand
    <2> QED BY <2>1, <2>2, <2>4 DEF InThenOut, Positions
  <1> QED BY <1>2, <1>3 DEF Angles

\* A path stays in front of the parser, in its command, over tokens that are no '|'.
LEMMA PathStays ==
  ASSUME TypeInv, NEW p, NEW angle, PathBefore(p, angle, token), NEW k \in Nat, k >= token,
         \A j \in token .. k - 1 : line[j] # "|"
  PROVE  PathBefore(p, angle, k)
  <1>1. token \in Nat
    BY DEF TypeInv
  <1>2. p \in 1 .. token - 1 /\ p \in 1 .. k - 1
    BY <1>1 DEF PathBefore
  <1>3. ASSUME NEW j \in p .. k - 1 PROVE line[j] # "|"
    <2>1. j \in p .. token - 1 \/ j \in token .. k - 1
      BY <1>1, <1>2, <1>3
    <2> QED BY <2>1 DEF PathBefore
  <1> QED BY <1>2, <1>3 DEF PathBefore

\* The path of a redirection that was just read replaces the one of the same kind.
LEMMA PathReplaced ==
  ASSUME TypeInv, NEW angle \in Angles, token + 1 <= Len(line), line[token] = angle, line[token + 1] \in Words,
         line' = line, token' = token + 2
  PROVE  /\ PathBefore(token + 1, angle, token + 2)
         /\ \A p : PathBefore(p, angle, token) => Replaced(p)'
  <1>1. token \in Nat \ {0} /\ Len(line) \in Nat
    BY DEF TypeInv
  <1>2. PICK q : q = token + 1
    OBVIOUS
  <1>3. q \in Nat /\ q > 1 /\ q - 1 = token /\ q <= Len(line) /\ q \in 1 .. token + 2 - 1 /\ line[q] \in Words
    BY <1>1, <1>2
  <1>4. IsPath(q) /\ line[q - 1] = angle
    BY <1>3 DEF IsPath
  <1>5. PathBefore(q, angle, token + 2)
    <2>1. \A j \in q .. token + 2 - 1 : j = q
      BY <1>1, <1>2
    <2> QED BY <1>3, <1>4, <2>1 DEF PathBefore, Words
  <1>6. ASSUME NEW p, PathBefore(p, angle, token) PROVE Replaced(p)'
    <2>1. /\ p \in 1 .. token - 1 /\ IsPath(p) /\ line[p - 1] = angle
          /\ \A j \in p .. token - 1 : line[j] # "|"
      BY <1>6 DEF PathBefore
    <2>2. p \in Nat \ {0} /\ p < q /\ p <= q /\ q \in Nat \ {0}
      BY <1>1, <1>2, <2>1
    <2>3. \A j \in p .. q - 1 : line[j] # "|"
      <3>1. \A j \in p .. q - 1 : j \in p .. token - 1 \/ j = token
        BY <1>1, <1>2, <2>1
      <3> QED BY <2>1, <3>1 DEF Angles
    <2>4. CommandOf(p) = CommandOf(q)
      BY <2>2, <2>3, SameCommand
    <2>5. q \in 1 .. Len(line) /\ q < token + 2
      BY <1>1, <1>2
    <2>6. /\ q \in Positions' /\ p < q /\ q < token' /\ IsPath(p)' /\ IsPath(q)'
          /\ line'[p - 1] = line'[q - 1]
      BY <1>4, <2>1, <2>2, <2>5 DEF Positions, IsPath
    <2>7. CommandOf(p)' = CommandOf(q)'
      BY <2>4 DEF CommandOf
    <2> QED BY <2>6, <2>7 DEF Replaced
  <1> QED BY <1>2, <1>5, <1>6

\* An angle without a word behind it, or with a word that is too long, is an error of the line.
LEMMA AngleAlone ==
  ASSUME TypeInv, Grammatical, NEW i \in 1 .. Len(line), line[i] \in Angles,
         i + 1 > Len(line) \/ line[i + 1] \notin Words \/ line[i + 1] = "long"
  PROVE  FALSE
  <1>1. Len(line) \in Nat
    BY DEF TypeInv
  <1>2. i < Len(line) /\ line[i + 1] \in Words
    BY DEF Grammatical, Positions
  <1>3. i + 1 \in 1 .. Len(line)
    BY <1>1, <1>2
  <1> QED BY <1>1, <1>2, <1>3 DEF Grammatical, Positions

\* What parse_redirect_in does to the current command, by what it finds.
LEMMA RedirectInDoes ==
  ASSUME TypeInv, RedirectIn, NEW r, r = Redirect(token, "<")
  PROVE  /\ at = "in" /\ line' = line /\ wild' = wild /\ token' \in Nat \ {0} /\ token' >= token
         /\ Touched(current') /\ current'.command_args = current.command_args
         /\ current'.redirect_out_path = current.redirect_out_path
         /\ \/ /\ TokenType(token) # "<" /\ r.ret = 0 /\ token' = token
               /\ heap' = heap /\ current'.redirect_in_path = current.redirect_in_path
            \/ /\ r.ret = 1 /\ token' = token + 2
               /\ heap' = heap \cup {token + 1} /\ current'.redirect_in_path = token + 1
               /\ token + 1 <= Len(line) /\ line[token] = "<"
               /\ line[token + 1] \in Words /\ line[token + 1] # "long"
            \/ /\ r.ret = -1 /\ token' = token + 1
               /\ heap' = heap /\ current'.redirect_in_path = current.redirect_in_path
               /\ token <= Len(line) /\ line[token] = "<"
               /\ token + 1 > Len(line) \/ line[token + 1] \notin Words \/ line[token + 1] = "long"
  <1>1. /\ at = "in" /\ token' = r.token /\ heap' = heap \cup r.path /\ line' = line /\ wild' = wild
        /\ commands' = [commands EXCEPT ![Len(commands)].redirect_in_path = PathAfter(current.redirect_in_path, r.path)]
    BY DEF RedirectIn, current
  <1>2. token \in Nat \ {0} /\ Len(line) \in Nat /\ "<" \in Angles /\ Building
    BY <1>1 DEF TypeInv, Angles, Building
  <1>3. PICK e : e = PathAfter(current.redirect_in_path, r.path)
    OBVIOUS
  <1>4. \/ /\ TokenType(token) # "<" /\ r.ret = 0 /\ r.token = token /\ r.path = {}
        \/ /\ r.ret = 1 /\ r.token = token + 2 /\ r.path = {token + 1}
           /\ token + 1 <= Len(line) /\ line[token] = "<"
           /\ line[token + 1] \in Words /\ line[token + 1] # "long"
        \/ /\ r.ret = -1 /\ r.token = token + 1 /\ r.path = {}
           /\ token <= Len(line) /\ line[token] = "<"
           /\ token + 1 > Len(line) \/ line[token + 1] \notin Words \/ line[token + 1] = "long"
    BY <1>2, RedirectFacts
  <1>5. (r.path = {} => e = current.redirect_in_path) /\ (r.path = {token + 1} => e = token + 1)
    BY <1>3, PathAfterFacts
  <1>6. e \in Nat
    <2>1. current.redirect_in_path \in Nat
      BY <1>2, CurrentType
    <2> QED BY <1>2, <1>4, <1>5, <2>1
  <1>7. /\ Touched(current') /\ current'.command_args = current.command_args
        /\ current'.redirect_in_path = e /\ current'.redirect_out_path = current.redirect_out_path
    BY <1>1, <1>2, <1>3, <1>6, InTouched
  <1>8. token' \in Nat \ {0} /\ token' >= token
    BY <1>1, <1>2, <1>4
  <1>9. r.path = {} => heap' = heap
    BY <1>1
  <1> QED BY <1>1, <1>4, <1>5, <1>7, <1>8, <1>9

\* The paths and the copies stay accounted for.
LEMMA RedirectInPaths ==
  ASSUME IInv, RedirectIn
  PROVE  PathInv' /\ HeapInv'
  <1> USE DEF Building
  <1>1. PICK r, k : r = Redirect(token, "<") /\ k = token'
    OBVIOUS
  <1>2. TypeInv /\ HeapInv /\ PathInv /\ token \in Nat \ {0} /\ Len(line) \in Nat /\ "<" \in Angles
    BY DEF IInv, TypeInv, Angles
  <1>3. /\ at = "in" /\ line' = line /\ wild' = wild /\ k \in Nat \ {0} /\ k >= token
        /\ Touched(current') /\ current'.command_args = current.command_args
        /\ current'.redirect_out_path = current.redirect_out_path
        /\ \/ /\ k \in {token, token + 1} /\ (k = token + 1 => line[token] = "<")
              /\ heap' = heap /\ current'.redirect_in_path = current.redirect_in_path
           \/ /\ k = token + 2 /\ heap' = heap \cup {token + 1} /\ current'.redirect_in_path = token + 1
              /\ token + 1 <= Len(line) /\ line[token] = "<" /\ line[token + 1] \in Words
    <2>1. token # token + 1
      BY <1>2
    <2> QED BY <1>1, <1>2, <2>1, RedirectInDoes
  <1>4. at' \in {"out"}
    BY DEF RedirectIn
  <1>5. \A p, angle : PathBefore(p, angle, token) => PathBefore(p, angle, k)
    <2>1. \A j \in token .. k - 1 : j \in {token, token + 1} /\ (j = token + 1 => k = token + 2) /\ k # token
      BY <1>2, <1>3
    <2>2. \A j \in token .. k - 1 : line[j] # "|"
      BY <1>2, <1>3, <2>1 DEF Words
    <2> QED BY <1>2, <1>3, <2>2, PathStays
  <1>6. k = token + 2 => PathBefore(token + 1, "<", k) /\ \A p : PathBefore(p, "<", token) => Replaced(p)'
    <2>1. ASSUME k = token + 2 PROVE token + 1 <= Len(line) /\ line[token] = "<" /\ line[token + 1] \in Words
      BY <1>2, <1>3, <2>1
    <2> QED BY <1>1, <1>2, <1>3, <2>1, PathReplaced
  <1>7. PathInv'
    <2>1. /\ current.redirect_in_path # Null => PathBefore(current.redirect_in_path, "<", k)
          /\ current.redirect_out_path # Null => PathBefore(current.redirect_out_path, ">", k)
      BY <1>2, <1>3, <1>5 DEF PathInv
    <2>2. current'.redirect_in_path # Null => PathBefore(current'.redirect_in_path, "<", k)
      BY <1>3, <1>6, <2>1
    <2>3. current'.redirect_out_path # Null => PathBefore(current'.redirect_out_path, ">", k)
      BY <1>3, <2>1
    <2> QED BY <1>1, <1>3, <2>2, <2>3, Moved DEF PathInv
  <1>8. HeapInv'
    <2>1. PICK d, N : d = current' /\ N = (IF k = token + 2 THEN {token + 1} ELSE {})
      OBVIOUS
    <2>2. heap' = heap \cup N /\ N \subseteq Copies(d) /\ Null \notin N
      BY <1>2, <1>3, <2>1 DEF Copies, Null
    <2>3. ASSUME NEW i \in Copies(current), i # Null PROVE i \in Copies(d) \/ Replaced(i)'
      <3>1. i \in Range(current.command_args) \/ i = current.redirect_out_path \/ i = current.redirect_in_path
        BY DEF Copies
      <3>2. CASE i \in Range(current.command_args) \/ i = current.redirect_out_path
        BY <1>3, <2>1, <3>2 DEF Copies
      <3>3. CASE i = current.redirect_in_path
        <4>1. CASE k # token + 2
          BY <1>3, <2>1, <3>3, <4>1 DEF Copies
        <4>2. CASE k = token + 2
          <5>1. PathBefore(i, "<", token)
            BY <1>2, <1>3, <2>3, <3>3 DEF PathInv
          <5> QED BY <1>6, <4>2, <5>1
        <4> QED BY <4>1, <4>2
      <3> QED BY <3>1, <3>2, <3>3
    <2>4. Touched(d) /\ at' # "freed" /\ token' \in Nat /\ token' >= token
      BY <1>1, <1>3, <1>4, <2>1
    <2> QED BY <1>2, <1>3, <2>2, <2>3, <2>4, HeapGrows
  <1> QED BY <1>7, <1>8

\* What parse_redirect_out does to the current command, by what it finds.
LEMMA RedirectOutDoes ==
  ASSUME TypeInv, RedirectOut, NEW r, r = Redirect(token, ">")
  PROVE  /\ at = "out" /\ line' = line /\ wild' = wild /\ token' \in Nat \ {0} /\ token' >= token
         /\ Touched(current') /\ current'.command_args = current.command_args
         /\ current'.redirect_in_path = current.redirect_in_path
         /\ \/ /\ TokenType(token) # ">" /\ r.ret = 0 /\ token' = token
               /\ heap' = heap /\ current'.redirect_out_path = current.redirect_out_path
            \/ /\ r.ret = 1 /\ token' = token + 2
               /\ heap' = heap \cup {token + 1} /\ current'.redirect_out_path = token + 1
               /\ token + 1 <= Len(line) /\ line[token] = ">"
               /\ line[token + 1] \in Words /\ line[token + 1] # "long"
            \/ /\ r.ret = -1 /\ token' = token + 1
               /\ heap' = heap /\ current'.redirect_out_path = current.redirect_out_path
               /\ token <= Len(line) /\ line[token] = ">"
               /\ token + 1 > Len(line) \/ line[token + 1] \notin Words \/ line[token + 1] = "long"
  <1>1. /\ at = "out" /\ token' = r.token /\ heap' = heap \cup r.path /\ line' = line /\ wild' = wild
        /\ commands' = [commands EXCEPT ![Len(commands)].redirect_out_path = PathAfter(current.redirect_out_path, r.path)]
    BY DEF RedirectOut, current
  <1>2. token \in Nat \ {0} /\ Len(line) \in Nat /\ ">" \in Angles /\ Building
    BY <1>1 DEF TypeInv, Angles, Building
  <1>3. PICK e : e = PathAfter(current.redirect_out_path, r.path)
    OBVIOUS
  <1>4. \/ /\ TokenType(token) # ">" /\ r.ret = 0 /\ r.token = token /\ r.path = {}
        \/ /\ r.ret = 1 /\ r.token = token + 2 /\ r.path = {token + 1}
           /\ token + 1 <= Len(line) /\ line[token] = ">"
           /\ line[token + 1] \in Words /\ line[token + 1] # "long"
        \/ /\ r.ret = -1 /\ r.token = token + 1 /\ r.path = {}
           /\ token <= Len(line) /\ line[token] = ">"
           /\ token + 1 > Len(line) \/ line[token + 1] \notin Words \/ line[token + 1] = "long"
    BY <1>2, RedirectFacts
  <1>5. (r.path = {} => e = current.redirect_out_path) /\ (r.path = {token + 1} => e = token + 1)
    BY <1>3, PathAfterFacts
  <1>6. e \in Nat
    <2>1. current.redirect_out_path \in Nat
      BY <1>2, CurrentType
    <2> QED BY <1>2, <1>4, <1>5, <2>1
  <1>7. /\ Touched(current') /\ current'.command_args = current.command_args
        /\ current'.redirect_out_path = e /\ current'.redirect_in_path = current.redirect_in_path
    BY <1>1, <1>2, <1>3, <1>6, OutTouched
  <1>8. token' \in Nat \ {0} /\ token' >= token
    BY <1>1, <1>2, <1>4
  <1>9. r.path = {} => heap' = heap
    BY <1>1
  <1> QED BY <1>1, <1>4, <1>5, <1>7, <1>8, <1>9

\* The paths and the copies stay accounted for.
LEMMA RedirectOutPaths ==
  ASSUME IInv, RedirectOut
  PROVE  PathInv' /\ HeapInv'
  <1> USE DEF Building
  <1>1. PICK r, k : r = Redirect(token, ">") /\ k = token'
    OBVIOUS
  <1>2. TypeInv /\ HeapInv /\ PathInv /\ token \in Nat \ {0} /\ Len(line) \in Nat /\ ">" \in Angles
    BY DEF IInv, TypeInv, Angles
  <1>3. /\ at = "out" /\ line' = line /\ wild' = wild /\ k \in Nat \ {0} /\ k >= token
        /\ Touched(current') /\ current'.command_args = current.command_args
        /\ current'.redirect_in_path = current.redirect_in_path
        /\ \/ /\ k \in {token, token + 1} /\ (k = token + 1 => line[token] = ">")
              /\ heap' = heap /\ current'.redirect_out_path = current.redirect_out_path
           \/ /\ k = token + 2 /\ heap' = heap \cup {token + 1} /\ current'.redirect_out_path = token + 1
              /\ token + 1 <= Len(line) /\ line[token] = ">" /\ line[token + 1] \in Words
    <2>1. token # token + 1
      BY <1>2
    <2> QED BY <1>1, <1>2, <2>1, RedirectOutDoes
  <1>4. at' \in {"in", "failed", "pipes"}
    BY DEF RedirectOut
  <1>5. \A p, angle : PathBefore(p, angle, token) => PathBefore(p, angle, k)
    <2>1. \A j \in token .. k - 1 : j \in {token, token + 1} /\ (j = token + 1 => k = token + 2) /\ k # token
      BY <1>2, <1>3
    <2>2. \A j \in token .. k - 1 : line[j] # "|"
      BY <1>2, <1>3, <2>1 DEF Words
    <2> QED BY <1>2, <1>3, <2>2, PathStays
  <1>6. k = token + 2 => PathBefore(token + 1, ">", k) /\ \A p : PathBefore(p, ">", token) => Replaced(p)'
    <2>1. ASSUME k = token + 2 PROVE token + 1 <= Len(line) /\ line[token] = ">" /\ line[token + 1] \in Words
      BY <1>2, <1>3, <2>1
    <2> QED BY <1>1, <1>2, <1>3, <2>1, PathReplaced
  <1>7. PathInv'
    <2>1. /\ current.redirect_out_path # Null => PathBefore(current.redirect_out_path, ">", k)
          /\ current.redirect_in_path # Null => PathBefore(current.redirect_in_path, "<", k)
      BY <1>2, <1>3, <1>5 DEF PathInv
    <2>2. current'.redirect_out_path # Null => PathBefore(current'.redirect_out_path, ">", k)
      BY <1>3, <1>6, <2>1
    <2>3. current'.redirect_in_path # Null => PathBefore(current'.redirect_in_path, "<", k)
      BY <1>3, <2>1
    <2> QED BY <1>1, <1>3, <2>2, <2>3, Moved DEF PathInv
  <1>8. HeapInv'
    <2>1. PICK d, N : d = current' /\ N = (IF k = token + 2 THEN {token + 1} ELSE {})
      OBVIOUS
    <2>2. heap' = heap \cup N /\ N \subseteq Copies(d) /\ Null \notin N
      BY <1>2, <1>3, <2>1 DEF Copies, Null
    <2>3. ASSUME NEW i \in Copies(current), i # Null PROVE i \in Copies(d) \/ Replaced(i)'
      <3>1. i \in Range(current.command_args) \/ i = current.redirect_in_path \/ i = current.redirect_out_path
        BY DEF Copies
      <3>2. CASE i \in Range(current.command_args) \/ i = current.redirect_in_path
        BY <1>3, <2>1, <3>2 DEF Copies
      <3>3. CASE i = current.redirect_out_path
        <4>1. CASE k # token + 2
          BY <1>3, <2>1, <3>3, <4>1 DEF Copies
        <4>2. CASE k = token + 2
          <5>1. PathBefore(i, ">", token)
            BY <1>2, <1>3, <2>3, <3>3 DEF PathInv
          <5> QED BY <1>6, <4>2, <5>1
        <4> QED BY <4>1, <4>2
      <3> QED BY <3>1, <3>2, <3>3
    <2>4. Touched(d) /\ at' # "freed" /\ token' \in Nat /\ token' >= token
      BY <1>1, <1>3, <1>4, <2>1
    <2> QED BY <1>2, <1>3, <2>2, <2>3, <2>4, HeapGrows
  <1> QED BY <1>7, <1>8

\* parse_redirect_in, whatever it finds.
LEMMA InvRedirectIn == ASSUME IInv, RedirectIn PROVE IInv'
  <1> USE DEF Building
  <1>1. PICK r : r = Redirect(token, "<")
    OBVIOUS
  <1>2. /\ at = "in" /\ at' = "out" /\ token' = r.token /\ in_ret' = r.ret
        /\ line' = line /\ last_cmd_parse' = last_cmd_parse
    BY <1>1 DEF RedirectIn
  <1>3. TypeInv /\ token \in Nat \ {0} /\ Len(line) \in Nat /\ "<" \in Angles
    BY DEF IInv, TypeInv, Angles
  <1>4. PICK k : k = token'
    OBVIOUS
  <1>5. Good(token) /\ BehindWord(token)
    BY <1>2 DEF IInv, GrammarInv
  <1>6. \/ TokenType(token) # "<" /\ in_ret' = 0 /\ k = token
        \/ /\ in_ret' = 1 /\ k = token + 2
           /\ token + 1 <= Len(line) /\ line[token] = "<" /\ line[token + 1] \in Words /\ line[token + 1] # "long"
        \/ /\ in_ret' = -1 /\ token <= Len(line) /\ line[token] = "<"
           /\ token + 1 > Len(line) \/ line[token + 1] \notin Words \/ line[token + 1] = "long"
    BY <1>1, <1>2, <1>3, <1>4, RedirectFacts
  <1>7. TypeInv' /\ ArgsInv' /\ PathInv' /\ HeapInv'
    <2>1. in_ret' \in {-1, 0, 1}
      BY <1>6
    <2>2. PathInv' /\ HeapInv' /\ commands' \in Seq(CommandType) /\ commands' # <<>> /\ token' \in Nat \ {0}
      BY <1>1, <1>3, RedirectInDoes, RedirectInPaths DEF Touched
    <2> QED BY <1>2, <1>3, <2>1, <2>2 DEF TypeInv, ArgsInv
  <1>8. in_ret' # -1 => Good(k) /\ BehindWord(k)
    BY <1>3, <1>5, <1>6, GoodRedirect
  <1>9. GrammarInv'
    BY <1>2, <1>4, <1>8, Moved DEF GrammarInv
  <1>10. UsualInv'
    <2> SUFFICES ASSUME Grammatical', InThenOut'
                 PROVE \/ in_ret' = 0 /\ TokenType(k) # "<" /\ (BehindArgs(k) \/ BehindInOut(k))
                       \/ in_ret' = 1 /\ k > 2 /\ line[k - 2] = "<" /\ line[k - 1] \in Words
      BY <1>2, <1>4, Moved DEF UsualInv
    <2>1. Grammatical /\ InThenOut
      BY <1>2, <1>4, Moved
    <2>2. in_ret' # -1
      <3>1. token <= Len(line) => token \in 1 .. Len(line)
        BY <1>3
      <3> QED BY <1>3, <1>6, <2>1, <3>1, AngleAlone
    <2>3. BehindArgs(token) \/ BehindInOut(token)
      BY <1>2, <2>1 DEF IInv, UsualInv
    <2>4. k = token + 2 => k > 2 /\ k - 2 = token /\ k - 1 = token + 1
      BY <1>3
    <2> QED BY <1>6, <2>2, <2>3, <2>4
  <1> QED BY <1>7, <1>9, <1>10 DEF IInv

\* parse_redirect_out, whatever it finds, and the loop around both.
LEMMA InvRedirectOut == ASSUME IInv, RedirectOut PROVE IInv'
  <1> USE DEF Building
  <1>1. PICK r : r = Redirect(token, ">")
    OBVIOUS
  <1>2. /\ at = "out" /\ token' = r.token /\ line' = line /\ in_ret' = in_ret
        /\ \/ in_ret > 0 /\ r.ret > 0 /\ at' = "in" /\ last_cmd_parse' = last_cmd_parse
           \/ -1 \in {in_ret, r.ret} /\ at' = "failed" /\ last_cmd_parse' = last_cmd_parse
           \/ /\ ~(in_ret > 0 /\ r.ret > 0) /\ -1 \notin {in_ret, r.ret}
              /\ at' = "pipes" /\ last_cmd_parse' = 1
    BY <1>1 DEF RedirectOut
  <1>3. TypeInv /\ token \in Nat \ {0} /\ Len(line) \in Nat /\ ">" \in Angles /\ in_ret \in {-1, 0, 1}
    BY DEF IInv, TypeInv, Angles
  <1>4. PICK k : k = token'
    OBVIOUS
  <1>5. \/ TokenType(token) # ">" /\ r.ret = 0 /\ k = token
        \/ /\ r.ret = 1 /\ k = token + 2
           /\ token + 1 <= Len(line) /\ line[token] = ">" /\ line[token + 1] \in Words /\ line[token + 1] # "long"
        \/ /\ r.ret = -1 /\ token <= Len(line) /\ line[token] = ">"
           /\ token + 1 > Len(line) \/ line[token + 1] \notin Words \/ line[token + 1] = "long"
    BY <1>1, <1>2, <1>3, <1>4, RedirectFacts
  <1>6. /\ at' = "in" => in_ret = 1 /\ r.ret = 1
        /\ at' = "failed" => in_ret = -1 \/ r.ret = -1
        /\ at' = "pipes" => in_ret \in {0, 1} /\ r.ret \in {0, 1} /\ ~(in_ret = 1 /\ r.ret = 1) /\ last_cmd_parse' = 1
        /\ at' \in {"in", "failed", "pipes"}
    <2>1. r.ret \in {-1, 0, 1}
      BY <1>5
    <2> QED BY <1>2, <1>3, <2>1
  <1>7. TypeInv' /\ ArgsInv' /\ PathInv' /\ HeapInv'
    <2>1. PathInv' /\ HeapInv' /\ commands' \in Seq(CommandType) /\ commands' # <<>> /\ token' \in Nat \ {0}
      BY <1>1, <1>3, RedirectOutDoes, RedirectOutPaths DEF Touched
    <2>2. last_cmd_parse' \in {0, 1}
      BY <1>2, <1>3 DEF TypeInv
    <2> QED BY <1>2, <1>3, <1>6, <2>1, <2>2 DEF TypeInv, ArgsInv
  <1>8. at' # "failed" => Good(k) /\ BehindWord(k)
    <2>1. in_ret # -1 => Good(token) /\ BehindWord(token)
      BY <1>2 DEF IInv, GrammarInv
    <2>2. at' # "failed" => in_ret # -1 /\ r.ret # -1
      BY <1>6
    <2> QED BY <1>3, <1>5, <2>1, <2>2, GoodRedirect
  <1>9. GrammarInv'
    BY <1>4, <1>2, <1>6, <1>8, Moved DEF GrammarInv
  <1>10. UsualInv'
    <2> SUFFICES ASSUME Grammatical', InThenOut'
                 PROVE /\ at' # "failed"
                       /\ at' = "in" => BehindArgs(k) \/ BehindInOut(k)
                       /\ at' = "pipes" => TokenType(k) \in {"|", "&", "none"}
      BY <1>2, <1>4, <1>6, Moved DEF UsualInv
    <2>1. Grammatical /\ InThenOut
      BY <1>2, <1>4, Moved
    <2>2. \/ in_ret = 0 /\ TokenType(token) # "<" /\ (BehindArgs(token) \/ BehindInOut(token))
          \/ in_ret = 1 /\ token > 2 /\ line[token - 2] = "<" /\ line[token - 1] \in Words
      BY <1>2, <2>1 DEF IInv, UsualInv
    <2>3. at' # "failed"
      <3>1. token <= Len(line) => token \in 1 .. Len(line)
        BY <1>3
      <3>2. r.ret # -1
        BY <1>3, <1>5, <2>1, <3>1, AngleAlone
      <3> QED BY <1>6, <2>2, <3>2
    <2>4. ASSUME at' = "in" PROVE BehindInOut(k)
      <3>1. k = token + 2 /\ line[token] = ">" /\ line[token + 1] \in Words
        BY <1>5, <1>6, <2>4
      <3>2. token > 2 /\ line[token - 2] = "<" /\ line[token - 1] \in Words
        BY <1>6, <2>2, <2>4
      <3>3. k > 4 /\ k - 4 = token - 2 /\ k - 3 = token - 1 /\ k - 2 = token /\ k - 1 = token + 1
        BY <1>3, <3>1, <3>2
      <3> QED BY <3>1, <3>2, <3>3 DEF BehindInOut
    <2>5. ASSUME at' = "pipes" PROVE TokenType(k) \in {"|", "&", "none"}
      <3>1. k \in Nat \ {0} /\ TokenType(k) \in {"word", "<", ">", "&", "|", "none"}
        <4>1. k \in Nat \ {0}
          BY <1>3, <1>5, <1>6, <2>5
        <4> QED BY <1>3, <4>1, TokenTypes
      <3>2. Good(k) /\ k <= Len(line) + 1
        BY <1>3, <1>8, <2>5, <3>1, GoodInside
      <3>3. CASE r.ret = 1
        <4>1. k = token + 2 /\ line[token] = ">" /\ line[token + 1] \in Words
          BY <1>5, <3>3
        <4>2. k > 2 /\ k - 2 = token /\ k - 1 = token + 1
          BY <1>3, <4>1
        <4>3. TokenType(k) \notin {"word", "<"} /\ (TokenType(k) = ">" => line[k - 2] = "<")
          BY <1>3, <2>1, <3>1, <3>2, <4>1, <4>2, BehindPath DEF Angles
        <4> QED BY <3>1, <4>1, <4>2, <4>3
      <3>4. CASE r.ret = 0
        <4>1. k = token /\ TokenType(k) # ">"
          BY <1>5, <3>4
        <4>2. CASE in_ret = 1
          <5>1. k > 2 /\ line[k - 2] \in Angles /\ line[k - 1] \in Words
            BY <2>2, <4>1, <4>2 DEF Angles
          <5>2. TokenType(k) \notin {"word", "<"}
            BY <1>3, <2>1, <3>1, <3>2, <5>1, BehindPath
          <5> QED BY <3>1, <4>1, <5>2
        <4>3. CASE in_ret = 0 /\ BehindArgs(token)
          BY <2>2, <3>1, <4>1, <4>3 DEF BehindArgs
        <4>4. CASE in_ret = 0 /\ BehindInOut(token)
          <5>1. k > 4 /\ line[k - 2] \in Angles /\ line[k - 1] \in Words
            BY <4>1, <4>4 DEF Angles, BehindInOut
          <5>2. k > 2
            BY <3>1, <5>1
          <5>3. TokenType(k) \notin {"word", "<"}
            BY <1>3, <2>1, <3>1, <3>2, <5>1, <5>2, BehindPath
          <5> QED BY <3>1, <4>1, <5>3
        <4> QED BY <2>2, <4>2, <4>3, <4>4
      <3> QED BY <1>6, <2>5, <3>3, <3>4
    <2> QED BY <2>3, <2>4, <2>5
  <1> QED BY <1>7, <1>9, <1>10 DEF IInv

-----------------------------------------------------------------------------
(* The theorems                                                            *)

\* pipeline_build begins with one empty command, in front of the line.
LEMMA InitIInv == Init => IInv
  <1> SUFFICES ASSUME Init PROVE IInv
    OBVIOUS
  <1>1. /\ token = 1 /\ commands = <<NewCommand>> /\ last_cmd_parse = 0 /\ in_ret = 0 /\ at = "args"
        /\ heap = {}
    BY DEF Init
  <1>2. line \in Seq(Tokens)
    <2>1. PICK n \in 0 .. MAX_LINE_LENGTH - 1 : line \in [1 .. n -> Tokens]
      BY DEF Init
    <2>2. n \in Nat
      BY <2>1, LengthAssumption
    <2> QED BY <2>1, <2>2
  <1>3. commands \in Seq(CommandType) /\ commands # <<>> /\ Len(commands) = 1 /\ commands[1] = NewCommand
    BY <1>1, NewCommandType
  <1>4. /\ current.command_args = <<Null>> /\ current.redirect_in_path = Null
        /\ current.redirect_out_path = Null
    BY <1>3 DEF current, NewCommand
  <1>5. TypeInv
    BY <1>1, <1>2, <1>3 DEF TypeInv
  <1>6. ArgsInv /\ PathInv
    BY <1>4 DEF ArgsInv, PathInv
  <1>7. Good(token) /\ ~BehindWord(token)
    BY <1>1 DEF Good, BehindWord
  <1>8. GrammarInv
    BY <1>1, <1>4, <1>7 DEF GrammarInv
  <1>9. UsualInv
    BY <1>1 DEF UsualInv
  <1>10. HeapInv
    BY <1>1 DEF HeapInv
  <1> QED BY <1>5, <1>6, <1>8, <1>9, <1>10 DEF IInv

LEMMA InvUnchanged == ASSUME IInv, UNCHANGED vars PROVE IInv'
  <1>1. UNCHANGED <<line, token, commands, last_cmd_parse, in_ret, at, heap, wild>>
    BY DEF vars
  <1>2. PICK k : k = token
    OBVIOUS
  <1>3. token' = k /\ line' = line
    BY <1>1, <1>2
  <1>4. current' = current
    BY <1>1 DEF current
  <1>5. TypeInv' /\ ArgsInv'
    BY <1>1, <1>4 DEF IInv, TypeInv, ArgsInv, Building
  <1>6. GrammarInv'
    BY <1>1, <1>2, <1>3, <1>4, Moved DEF IInv, GrammarInv
  <1>7. UsualInv'
    BY <1>1, <1>2, <1>3, <1>4, Moved DEF IInv, UsualInv
  <1>8. PathInv'
    BY <1>1, <1>2, <1>3, <1>4, Moved DEF IInv, PathInv, Building
  <1>9. HeapInv'
    <2>1. TypeInv /\ HeapInv /\ token' \in Nat /\ token' >= token
      BY <1>1 DEF IInv, TypeInv
    <2> QED BY <1>1, <2>1, HeapKept DEF HeapInv
  <1> QED BY <1>5, <1>6, <1>7, <1>8, <1>9 DEF IInv

LEMMA NextIInv == IInv /\ [Next]_vars => IInv'
  <1> SUFFICES ASSUME IInv, [Next]_vars PROVE IInv'
    OBVIOUS
  <1>1. CASE ParseArg
    BY <1>1, InvParseArg
  <1>2. CASE ParseArgTooLong
    BY <1>2, InvParseArgTooLong
  <1>3. CASE ParseArgsEnd
    BY <1>3, InvParseArgsEnd
  <1>4. CASE RedirectIn
    BY <1>4, InvRedirectIn
  <1>5. CASE RedirectOut
    BY <1>5, InvRedirectOut
  <1>6. CASE Pipe
    BY <1>6, InvPipe
  <1>7. CASE PipeRefused
    BY <1>7, InvPipeRefused
  <1>8. CASE Finish
    BY <1>8, InvFinish
  <1>9. CASE PipelineFree
    <2>1. at' = "free" /\ UNCHANGED <<line, token, commands, last_cmd_parse, in_ret, heap, wild>>
      BY <1>9 DEF PipelineFree
    <2> QED BY <2>1, InvFreeFrame
  <1>10. CASE FreeCommand
    BY <1>10, InvFreeCommand
  <1>11. CASE FreeEnd
    <2>1. /\ at' = "freed" /\ UNCHANGED <<line, token, commands, last_cmd_parse, in_ret, heap, wild>>
          /\ ~wild => commands = <<>>
      BY <1>11 DEF FreeEnd
    <2> QED BY <2>1, InvFreeFrame
  <1>12. CASE UNCHANGED vars
    BY <1>12, InvUnchanged
  <1>13. CASE Returned
    BY <1>12, <1>13 DEF Returned
  <1> QED BY <1>1, <1>2, <1>3, <1>4, <1>5, <1>6, <1>7, <1>8, <1>9, <1>10, <1>11, <1>12, <1>13 DEF Next

LEMMA AlwaysIInv == Spec => []IInv
  BY InitIInv, NextIInv, PTL DEF Spec

\* pipeline_build accepts only lines of the grammar that the comments of the parse
\* functions give, for every line and every limit on lines and words.
THEOREM AcceptsOnlyGrammar == Spec => []AcceptedIsGrammatical
  <1>1. IInv => AcceptedIsGrammatical
    BY DEF IInv, GrammarInv, AcceptedIsGrammatical
  <1> QED BY <1>1, AlwaysIInv, PTL

\* pipeline_build fails on no line of the grammar whose commands redirect their input
\* first and their output second, each at most once.
THEOREM AcceptsUsualLines == Spec => []UsualLineAccepted
  <1>1. IInv => UsualLineAccepted
    BY DEF IInv, UsualInv, UsualLineAccepted
  <1> QED BY <1>1, AlwaysIInv, PTL

\* pipeline_free releases every copy strndup made, after success as after any failure, but
\* for the paths that parse_redirect_in and parse_redirect_out overwrote.
THEOREM FreeLeavesReplacedPaths == Spec => []FreeReleasesAll
  <1>1. IInv => FreeReleasesAll
    <2> SUFFICES ASSUME IInv, at = "freed", ~wild, NEW i \in heap PROVE Replaced(i)
      BY DEF FreeReleasesAll, Replaced
    <2>1. commands = <<>>
      BY DEF IInv, HeapInv
    <2>2. 1 .. Len(commands) = {}
      BY <2>1
    <2> QED BY <2>2 DEF IInv, HeapInv
  <1> QED BY <1>1, AlwaysIInv, PTL

-----------------------------------------------------------------------------
(* Room in command_args, and its NULL                                      *)

\* parse_args stopped at a word that is too long, behind an argument.
StoppedAtLong ==
  /\ token > 1 /\ token <= Len(line)
  /\ line[token] = "long" /\ line[token - 1] = "w" /\ ~IsPath(token - 1)

\* The arguments of the current command are the words right in front of the parser, and a
\* line has room for no more words than command_args has entries; every other command, and
\* the current one too once parse_args is done with it, has its NULL.
RoomInv ==
  /\ Chars(line) < MAX_LINE_LENGTH
  /\ at = "args" /\ current.command_args # <<Null>> =>
       /\ Len(current.command_args) < token
       /\ \A i \in token - Len(current.command_args) .. token - 1 : line[i] \in Words
  /\ \A c \in 1 .. Len(commands) : Len(commands[c].command_args) <= MaxArgv
  /\ \A c \in 1 .. Len(commands) :
       c < Len(commands) \/ at \in {"in", "out", "pipes", "built"} =>
         Null \in Range(commands[c].command_args)
  /\ at \in {"failed", "free", "freed"} =>
       \A c \in 1 .. Len(commands) : Null \notin Range(commands[c].command_args) => StoppedAtLong
  /\ wild => at \in {"free", "freed"} /\ StoppedAtLong

-----------------------------------------------------------------------------
(* A line has no room for more words than command_args has entries         *)

\* n words in a row, with the blanks between them, fill 2n - 1 characters.
LEMMA RunFits ==
  ASSUME TypeInv, Chars(line) < MAX_LINE_LENGTH, NEW n \in Nat \ {0}, NEW k \in Nat, n < k, k <= Len(line) + 1,
         \A i \in k - n .. k - 1 : line[i] \in Words
  PROVE  n + 1 <= MaxArgv
  <1>1. Len(line) \in Nat
    BY DEF TypeInv
  <1>2. PICK longs, blanks : /\ longs = {i \in 1 .. Len(line) : line[i] = "long"}
                             /\ blanks = {i \in 1 .. Len(line) - 1 : {line[i], line[i + 1]} \subseteq Words}
    OBVIOUS
  <1>3. Len(line) + MAX_WORD_LENGTH * Cardinality(longs) + Cardinality(blanks) < MAX_LINE_LENGTH
    BY <1>2 DEF Chars
  <1>4. IsFiniteSet(longs) /\ IsFiniteSet(blanks)
    <2>1. IsFiniteSet(1 .. Len(line)) /\ IsFiniteSet(1 .. Len(line) - 1)
      BY <1>1, FS_Interval
    <2> QED BY <1>2, <2>1, FS_Subset
  <1>5. Cardinality(longs) \in Nat /\ Cardinality(blanks) \in Nat
    BY <1>4, FS_CardinalityType
  <1>6. Cardinality(blanks) >= n - 1
    <2>1. PICK a, b : a = k - n /\ b = k - 2
      OBVIOUS
    <2>2. a \in Int /\ b \in Int /\ b - a + 1 = n - 1 /\ a <= b + 1
      BY <1>1, <2>1
    <2>3. a .. b \subseteq blanks
      <3> SUFFICES ASSUME NEW i \in a .. b PROVE i \in blanks
        OBVIOUS
      <3>1. i \in 1 .. Len(line) - 1 /\ i \in k - n .. k - 1 /\ i + 1 \in k - n .. k - 1
        BY <1>1, <2>1
      <3> QED BY <1>2, <3>1
    <2>4. Cardinality(a .. b) = n - 1
      <3>1. CASE a > b
        <4>1. a .. b = {} /\ n - 1 = 0
          BY <2>2, <3>1
        <4> QED BY <4>1, FS_EmptySet
      <3>2. CASE ~(a > b)
        BY <2>2, <3>2, FS_Interval
      <3> QED BY <3>1, <3>2
    <2>5. Cardinality(a .. b) <= Cardinality(blanks)
      BY <1>4, <2>3, FS_Subset
    <2> QED BY <1>5, <2>4, <2>5
  <1>7. MAX_WORD_LENGTH * Cardinality(longs) >= 0 /\ MAX_WORD_LENGTH * Cardinality(longs) \in Nat
    BY <1>5, LengthAssumption
  <1>8. Len(line) >= n
    BY <1>1
  <1>9. 2 * n <= MAX_LINE_LENGTH
    <2>1. PICK m, b : m = MAX_WORD_LENGTH * Cardinality(longs) /\ b = Cardinality(blanks)
      OBVIOUS
    <2>2. m \in Nat /\ b \in Nat /\ b >= n - 1 /\ Len(line) + m + b < MAX_LINE_LENGTH
      BY <1>3, <1>5, <1>6, <1>7, <2>1
    <2> QED BY <1>1, <1>8, <2>2, LengthAssumption
  <1>10. n <= MAX_LINE_LENGTH \div 2
    BY <1>9, LengthAssumption
  <1>11. MAX_LINE_LENGTH \div 2 \in Int
    BY LengthAssumption
  <1> QED BY <1>10, <1>11 DEF MaxArgv

\* What RoomInv says of one command.
Roomy(c) == Len(c.command_args) <= MaxArgv
Closed(c) == Null \in Range(c.command_args)

LEMMA NewIsRoomy == Roomy(NewCommand) /\ Closed(NewCommand)
  <1>1. MAX_LINE_LENGTH \div 2 \in Int /\ MAX_LINE_LENGTH \div 2 >= 0
    BY LengthAssumption
  <1>2. NewCommand.command_args = <<Null>>
    BY DEF NewCommand
  <1>3. Len(<<Null>>) = 1 /\ 1 \in DOMAIN <<Null>> /\ <<Null>>[1] = Null
    OBVIOUS
  <1>4. Roomy(NewCommand)
    BY <1>1, <1>2, <1>3 DEF Roomy, MaxArgv
  <1>5. Closed(NewCommand)
    BY <1>2, <1>3 DEF Closed, Range
  <1> QED BY <1>4, <1>5

LEMMA InitRoomInv == Init => RoomInv
  <1> SUFFICES ASSUME Init PROVE RoomInv
    OBVIOUS
  <1>1. Chars(line) < MAX_LINE_LENGTH /\ at = "args" /\ wild = FALSE
    BY DEF Init
  <1>2. Len(commands) = 1 /\ commands[1] = NewCommand
    BY DEF Init
  <1>3. current.command_args = <<Null>>
    BY <1>2 DEF current, NewCommand
  <1> QED BY <1>1, <1>2, <1>3, NewIsRoomy DEF RoomInv, Roomy, Closed

\* A step that moves along the line without touching the arguments.
LEMMA RoomKept ==
  ASSUME RoomInv, TypeInv, at \in {"in", "out", "pipes"}, at' \in {"in", "out", "pipes", "failed", "built"},
         line' = line, wild' = wild, Len(commands') = Len(commands),
         \A c \in 1 .. Len(commands) : commands'[c].command_args = commands[c].command_args
  PROVE  RoomInv'
  <1>1. ~wild
    BY DEF RoomInv
  <1>2. \A c \in 1 .. Len(commands') :
          Len(commands'[c].command_args) <= MaxArgv /\ Null \in Range(commands'[c].command_args)
    BY DEF RoomInv
  <1>3. Chars(line') < MAX_LINE_LENGTH
    BY DEF RoomInv
  <1>4. Chars(line)' < MAX_LINE_LENGTH
    BY <1>3 DEF Chars
  <1> QED BY <1>1, <1>2, <1>4 DEF RoomInv, Range

\* parse_args: the arguments are the words right in front of the parser.
LEMMA RoomParseArg == ASSUME IInv, RoomInv, ParseArg PROVE RoomInv'
  <1> USE DEF Building
  <1>1. /\ at = "args" /\ at' = "args" /\ TokenType(token) = "word" /\ token' = token + 1
        /\ commands' = [commands EXCEPT ![Len(commands)].command_args =
                          Store(current.command_args, ArgCount(current), token)]
        /\ line' = line /\ wild' = wild
    BY DEF ParseArg, current
  <1>2. TypeInv /\ ArgsInv /\ token \in Nat \ {0} /\ Len(line) \in Nat /\ ~wild /\ Chars(line) < MAX_LINE_LENGTH
    BY <1>1 DEF IInv, TypeInv, RoomInv
  <1>3. token <= Len(line) /\ line[token] \in Words
    BY <1>1, <1>2, TokenTypes
  <1>4. PICK a, e : a = current.command_args /\ e = Store(current.command_args, ArgCount(current), token)
    OBVIOUS
  <1>5. /\ e \in Seq(Nat) /\ a \in Seq(Nat) /\ a # <<>>
        /\ a = <<Null>> => e = <<token>>
        /\ a # <<Null>> => e = Append(a, token)
    BY <1>1, <1>2, <1>4, ArgsSoFar
  <1>6. Touched(current') /\ current'.command_args = e
    BY <1>1, <1>2, <1>4, <1>5, ArgsTouched
  <1>7. Len(e) \in Nat \ {0} /\ Len(e) < token + 1 /\ \A i \in token + 1 - Len(e) .. token + 1 - 1 : line[i] \in Words
    <2>1. CASE a = <<Null>>
      <3>1. Len(e) = 1
        BY <1>5, <2>1
      <3>2. \A i \in token + 1 - Len(e) .. token + 1 - 1 : i = token
        BY <1>2, <3>1
      <3> QED BY <1>2, <1>3, <3>1, <3>2
    <2>2. CASE a # <<Null>>
      <3>1. Len(a) < token /\ \A i \in token - Len(a) .. token - 1 : line[i] \in Words
        BY <1>1, <1>4, <2>2 DEF RoomInv
      <3>2. Len(e) = Len(a) + 1 /\ Len(a) \in Nat
        BY <1>2, <1>5, <2>2
      <3>3. \A i \in token + 1 - Len(e) .. token + 1 - 1 : i \in token - Len(a) .. token - 1 \/ i = token
        BY <1>2, <3>2
      <3> QED BY <1>2, <1>3, <3>1, <3>2, <3>3
    <2> QED BY <2>1, <2>2
  <1>8. Len(e) <= MaxArgv
    <2>1. PICK k, n : k = token + 1 /\ n = Len(e)
      OBVIOUS
    <2>2. k \in Nat /\ k <= Len(line) + 1 /\ n \in Nat \ {0} /\ n < k /\ \A i \in k - n .. k - 1 : line[i] \in Words
      BY <1>2, <1>3, <1>7, <2>1
    <2>3. n + 1 <= MaxArgv
      BY <1>2, <2>2, RunFits
    <2>4. MaxArgv \in Int
      BY LengthAssumption DEF MaxArgv
    <2> QED BY <2>1, <2>2, <2>3, <2>4
  <1>9. ASSUME NEW c \in 1 .. Len(commands') PROVE /\ Roomy(commands'[c])
                                                   /\ c < Len(commands') => Closed(commands'[c])
    <2>1. CASE c = Len(commands')
      BY <1>6, <1>8, <2>1 DEF Touched, Roomy
    <2>2. CASE c # Len(commands')
      BY <1>6, <2>2 DEF Touched, Roomy, Closed, RoomInv
    <2> QED BY <1>9, <2>1, <2>2 DEF Touched
  <1>10. Chars(line)' < MAX_LINE_LENGTH
    BY <1>1, <1>2 DEF Chars
  <1>11. /\ Len(current'.command_args) < token'
         /\ \A i \in token' - Len(current'.command_args) .. token' - 1 : line'[i] \in Words
    <2>1. PICK k, d : k = token' /\ d = current'.command_args
      OBVIOUS
    <2>2. k = token + 1 /\ d = e
      BY <1>1, <1>6, <2>1
    <2>3. Len(d) < k /\ \A i \in k - Len(d) .. k - 1 : line[i] \in Words
      BY <1>2, <1>7, <2>2
    <2> QED BY <1>1, <2>1, <2>3
  <1> QED BY <1>1, <1>2, <1>9, <1>10, <1>11 DEF RoomInv, Roomy, Closed, Range

\* parse_args gives up, and the NULL is missing only behind an argument.
LEMMA RoomParseArgTooLong == ASSUME IInv, RoomInv, ParseArgTooLong PROVE RoomInv'
  <1>1. /\ at = "args" /\ at' = "failed" /\ TokenType(token) = "word" /\ TooLong(token)
        /\ UNCHANGED <<line, token, commands, wild>>
    BY DEF ParseArgTooLong
  <1>2. TypeInv /\ GrammarInv /\ token \in Nat \ {0} /\ Len(line) \in Nat /\ ~wild
    BY <1>1 DEF IInv, TypeInv, RoomInv
  <1>3. token <= Len(line) /\ line[token] = "long"
    BY <1>1, <1>2, TokenTypes, TooLongIsLong
  <1>4. ASSUME NEW c \in 1 .. Len(commands), ~Closed(commands[c]) PROVE StoppedAtLong
    <2>1. c = Len(commands)
      BY <1>4 DEF RoomInv, Closed, TypeInv
    <2>2. current.command_args # <<Null>>
      <3>1. 1 \in DOMAIN <<Null>> /\ <<Null>>[1] = Null
        OBVIOUS
      <3>2. Null \in Range(<<Null>>)
        BY <3>1 DEF Range
      <3> QED BY <1>4, <2>1, <3>2 DEF Closed, current
    <2>3. token > 1 /\ line[token - 1] \in Words /\ ~IsPath(token - 1) /\ Good(token)
      BY <1>1, <1>2, <2>2 DEF GrammarInv, BehindWord
    <2>4. token - 1 \in 1 .. token - 1
      BY <1>2, <2>3
    <2>5. line[token - 1] # "long"
      BY <2>3, <2>4 DEF Good
    <2> QED BY <1>3, <2>3, <2>5 DEF StoppedAtLong, Words
  <1>5. \A c \in 1 .. Len(commands) : c < Len(commands) => Null \in Range(commands[c].command_args)
    BY DEF RoomInv
  <1> QED BY <1>1, <1>2, <1>4, <1>5 DEF RoomInv, Closed, StoppedAtLong, IsPath, Chars, Range

\* parse_args stores the NULL.
LEMMA RoomParseArgsEnd == ASSUME IInv, RoomInv, ParseArgsEnd PROVE RoomInv'
  <1> USE DEF Building
  <1>1. /\ at = "args" /\ at' \in {"in", "pipes"}
        /\ commands' = [commands EXCEPT ![Len(commands)].command_args =
                          Store(current.command_args, ArgCount(current), Null)]
        /\ UNCHANGED <<line, token, wild>>
    BY DEF ParseArgsEnd, Ended
  <1>2. /\ TypeInv /\ ArgsInv /\ token \in Nat \ {0} /\ Len(line) \in Nat /\ ~wild /\ Null \in Nat
        /\ Chars(line) < MAX_LINE_LENGTH
    BY <1>1 DEF IInv, TypeInv, RoomInv, Null
  <1>3. PICK a, e : a = current.command_args /\ e = Store(current.command_args, ArgCount(current), Null)
    OBVIOUS
  <1>4. /\ e \in Seq(Nat) /\ a \in Seq(Nat) /\ a # <<>>
        /\ a = <<Null>> => e = <<Null>>
        /\ a # <<Null>> => e = Append(a, Null)
    BY <1>1, <1>2, <1>3, ArgsSoFar
  <1>5. Touched(current') /\ current'.command_args = e
    BY <1>1, <1>2, <1>3, <1>4, ArgsTouched
  <1>6. Len(e) <= MaxArgv
    <2>1. CASE a = <<Null>>
      BY <1>4, <2>1, NewIsRoomy DEF Roomy, NewCommand
    <2>2. CASE a # <<Null>>
      <3>1. Len(a) < token /\ \A i \in token - Len(a) .. token - 1 : line[i] \in Words
        BY <1>1, <1>3, <2>2 DEF RoomInv
      <3>2. Good(token)
        BY <1>1 DEF IInv, GrammarInv
      <3>3. PICK k, n : k = token /\ n = Len(a)
        OBVIOUS
      <3>4. k \in Nat /\ k <= Len(line) + 1 /\ n \in Nat \ {0} /\ n < k /\ \A i \in k - n .. k - 1 : line[i] \in Words
        BY <1>2, <1>4, <3>1, <3>2, <3>3, GoodInside
      <3>5. n + 1 <= MaxArgv
        BY <1>2, <3>4, RunFits
      <3>6. Len(e) = Len(a) + 1
        BY <1>2, <1>4, <2>2
      <3> QED BY <3>3, <3>4, <3>5, <3>6
    <2> QED BY <2>1, <2>2
  <1>7. Null \in Range(e)
    <2>1. Len(e) \in DOMAIN e /\ e[Len(e)] = Null
      <3>1. CASE a = <<Null>>
        <4>1. Len(<<Null>>) = 1 /\ 1 \in DOMAIN <<Null>> /\ <<Null>>[1] = Null
          OBVIOUS
        <4> QED BY <1>4, <3>1, <4>1
      <3>2. CASE a # <<Null>>
        <4>1. e = Append(a, Null) /\ Len(a) \in Nat
          BY <1>4, <3>2
        <4>2. Len(e) = Len(a) + 1 /\ e[Len(a) + 1] = Null /\ DOMAIN e = 1 .. Len(a) + 1
          BY <1>2, <1>4, <4>1
        <4> QED BY <4>1, <4>2
      <3> QED BY <3>1, <3>2
    <2> QED BY <2>1 DEF Range
  <1>8. ASSUME NEW c \in 1 .. Len(commands') PROVE Roomy(commands'[c]) /\ Closed(commands'[c])
    <2>1. CASE c = Len(commands')
      BY <1>5, <1>6, <1>7, <2>1 DEF Touched, Roomy, Closed
    <2>2. CASE c # Len(commands')
      <3>1. c \in 1 .. Len(commands) /\ c < Len(commands) /\ commands'[c] = commands[c]
        BY <1>2, <1>5, <2>2 DEF Touched, TypeInv
      <3> QED BY <3>1 DEF Roomy, Closed, RoomInv
    <2> QED BY <2>1, <2>2
  <1>9. Chars(line)' < MAX_LINE_LENGTH
    BY <1>1, <1>2 DEF Chars
  <1> QED BY <1>1, <1>2, <1>8, <1>9 DEF RoomInv, Roomy, Closed, Range

\* parse_pipes leaves a command that has its NULL.
LEMMA RoomPipe == ASSUME IInv, RoomInv, Pipe PROVE RoomInv'
  <1>1. /\ at = "pipes" /\ at' = "args" /\ commands' = Append(commands, NewCommand) /\ UNCHANGED <<line, wild>>
    BY DEF Pipe
  <1>2. commands \in Seq(CommandType) /\ ~wild /\ Chars(line) < MAX_LINE_LENGTH
    BY <1>1 DEF IInv, TypeInv, RoomInv
  <1>3. /\ Len(commands') = Len(commands) + 1 /\ commands'[Len(commands')] = NewCommand /\ Len(commands) \in Nat
        /\ \A i \in 1 .. Len(commands) : commands'[i] = commands[i]
    <2>1. PICK s, d : s = commands /\ d = NewCommand
      OBVIOUS
    <2>2. s \in Seq(CommandType) /\ d \in CommandType
      BY <1>2, <2>1, NewCommandType
    <2>3. /\ Len(Append(s, d)) = Len(s) + 1 /\ Append(s, d)[Len(s) + 1] = d /\ Len(s) \in Nat
          /\ \A i \in 1 .. Len(s) : Append(s, d)[i] = s[i]
      BY <2>2
    <2> QED BY <1>1, <2>1, <2>3
  <1>4. current'.command_args = <<Null>>
    BY <1>3 DEF current, NewCommand
  <1>5. ASSUME NEW c \in 1 .. Len(commands') PROVE Roomy(commands'[c]) /\ Closed(commands'[c])
    <2>1. CASE c = Len(commands')
      BY <1>3, <2>1, NewIsRoomy
    <2>2. CASE c # Len(commands')
      <3>1. c \in 1 .. Len(commands) /\ commands'[c] = commands[c]
        BY <1>3, <2>2
      <3> QED BY <1>1, <3>1 DEF Roomy, Closed, RoomInv
    <2> QED BY <2>1, <2>2
  <1>6. Chars(line)' < MAX_LINE_LENGTH
    BY <1>1, <1>2 DEF Chars
  <1> QED BY <1>1, <1>2, <1>4, <1>5, <1>6 DEF RoomInv, Roomy, Closed, Range

\* pipeline_free meets an entry that was not written only behind a word that was too long.
LEMMA RoomFree ==
  ASSUME IInv, RoomInv, PipelineFree \/ FreeCommand \/ FreeEnd
  PROVE  RoomInv'
  <1>1. /\ at' \in {"free", "freed"} /\ UNCHANGED <<line, token>>
        /\ at \in {"built", "failed", "free"}
    BY DEF PipelineFree, FreeCommand, FreeEnd
  <1>2. /\ \A c \in 1 .. Len(commands) : Roomy(commands[c]) /\ (~Closed(commands[c]) => StoppedAtLong)
        /\ wild => StoppedAtLong
    BY <1>1 DEF RoomInv, Roomy, Closed
  <1>3. /\ \A c \in 1 .. Len(commands') : \E b \in 1 .. Len(commands) : commands'[c] = commands[b]
        /\ wild' => wild \/ \E b \in 1 .. Len(commands) : ~Closed(commands[b])
    <2>1. CASE PipelineFree \/ FreeEnd
      BY <2>1 DEF PipelineFree, FreeEnd
    <2>2. CASE FreeCommand
      <3>1. PICK s, t : s = commands /\ t = Tail(s)
        OBVIOUS
      <3>2. s \in Seq(CommandType) /\ s # <<>> /\ commands' = t
        BY <2>2, <3>1 DEF FreeCommand, IInv, TypeInv
      <3>3. /\ Len(t) = Len(s) - 1 /\ Len(s) \in Nat \ {0} /\ Head(s) = s[1]
            /\ \A c \in 1 .. Len(s) - 1 : t[c] = s[c + 1]
        BY <3>1, <3>2
      <3>4. \A c \in 1 .. Len(t) : c + 1 \in 1 .. Len(s) /\ t[c] = s[c + 1]
        BY <3>3
      <3>5. wild' => ~Closed(s[1])
        BY <2>2, <3>1, <3>3 DEF FreeCommand, Closed
      <3>6. 1 \in 1 .. Len(s)
        BY <3>3
      <3> QED BY <3>1, <3>2, <3>4, <3>5, <3>6
    <2> QED BY <2>1, <2>2
  <1>4. \A c \in 1 .. Len(commands') : Roomy(commands'[c]) /\ (~Closed(commands'[c]) => StoppedAtLong)
    BY <1>2, <1>3
  <1>5. wild' => StoppedAtLong
    BY <1>2, <1>3
  <1>6. \A c \in 1 .. Len(commands') : c < Len(commands') => Closed(commands'[c])
    <2>1. CASE PipelineFree \/ FreeEnd
      BY <2>1 DEF PipelineFree, FreeEnd, RoomInv, Closed
    <2>2. CASE FreeCommand
      <3>1. PICK s, t : s = commands /\ t = Tail(s)
        OBVIOUS
      <3>2. s \in Seq(CommandType) /\ s # <<>> /\ commands' = t
        BY <2>2, <3>1 DEF FreeCommand, IInv, TypeInv
      <3>3. /\ Len(t) = Len(s) - 1 /\ Len(s) \in Nat \ {0}
            /\ \A c \in 1 .. Len(s) - 1 : t[c] = s[c + 1]
        BY <3>1, <3>2
      <3>4. \A c \in 1 .. Len(t) : c + 1 \in 1 .. Len(s) /\ t[c] = s[c + 1] /\ (c < Len(t) => c + 1 < Len(s))
        BY <3>3
      <3>5. \A c \in 1 .. Len(s) : c < Len(s) => Closed(s[c])
        BY <3>1 DEF RoomInv, Closed
      <3> QED BY <3>2, <3>4, <3>5
    <2> QED BY <2>1, <2>2
  <1>7. Chars(line)' < MAX_LINE_LENGTH
    BY <1>1 DEF Chars, RoomInv
  <1>8. StoppedAtLong => StoppedAtLong'
    BY <1>1 DEF StoppedAtLong, IsPath
  <1> QED BY <1>1, <1>4, <1>5, <1>6, <1>7, <1>8 DEF RoomInv, Roomy, Closed, Range

\* Redirections keep the arguments.
LEMMA TouchedArgs ==
  ASSUME TypeInv, Building, Touched(current'), current'.command_args = current.command_args
  PROVE  /\ Len(commands') = Len(commands)
         /\ \A c \in 1 .. Len(commands) : commands'[c].command_args = commands[c].command_args
  <1>1. commands'[Len(commands)].command_args = commands[Len(commands)].command_args
    BY DEF Touched, current
  <1> QED BY <1>1 DEF Touched

LEMMA NextRoomInv == IInv /\ RoomInv /\ [Next]_vars => RoomInv'
  <1> SUFFICES ASSUME IInv, RoomInv, [Next]_vars PROVE RoomInv'
    OBVIOUS
  <1>1. TypeInv
    BY DEF IInv
  <1>2. CASE ParseArg
    BY <1>2, RoomParseArg
  <1>3. CASE ParseArgTooLong
    BY <1>3, RoomParseArgTooLong
  <1>4. CASE ParseArgsEnd
    BY <1>4, RoomParseArgsEnd
  <1>5. CASE RedirectIn
    <2>1. /\ at = "in" /\ at' = "out" /\ line' = line /\ wild' = wild
      BY <1>5 DEF RedirectIn
    <2>2. PICK r : r = Redirect(token, "<")
      OBVIOUS
    <2>3. Touched(current') /\ current'.command_args = current.command_args
      BY <1>1, <1>5, <2>2, RedirectInDoes
    <2> QED BY <1>1, <2>1, <2>3, TouchedArgs, RoomKept DEF Building
  <1>6. CASE RedirectOut
    <2>1. /\ at = "out" /\ at' \in {"in", "failed", "pipes"} /\ line' = line /\ wild' = wild
      BY <1>6 DEF RedirectOut
    <2>2. PICK r : r = Redirect(token, ">")
      OBVIOUS
    <2>3. Touched(current') /\ current'.command_args = current.command_args
      BY <1>1, <1>6, <2>2, RedirectOutDoes
    <2> QED BY <1>1, <2>1, <2>3, TouchedArgs, RoomKept DEF Building
  <1>7. CASE Pipe
    BY <1>7, RoomPipe
  <1>8. CASE PipeRefused \/ Finish
    <2>1. at = "pipes" /\ at' \in {"failed", "built"} /\ UNCHANGED <<line, commands, wild>>
      BY <1>8 DEF PipeRefused, Finish
    <2> QED BY <1>1, <2>1, RoomKept
  <1>9. CASE PipelineFree \/ FreeCommand \/ FreeEnd
    BY <1>9, RoomFree
  <1>10. CASE UNCHANGED vars
    BY <1>10 DEF vars, RoomInv, current, StoppedAtLong, IsPath, Chars, Range
  <1>11. CASE Returned
    BY <1>10, <1>11 DEF Returned
  <1> QED BY <1>2, <1>3, <1>4, <1>5, <1>6, <1>7, <1>8, <1>9, <1>10, <1>11 DEF Next

\* parse_args stores inside command_args, for every limit on lines and words, and
\* pipeline_free follows an uninitialised pointer only after a word that was too long
\* behind an argument.
THEOREM ArgumentsFit == Spec => []ArgsStayInside
  <1>1. IInv /\ RoomInv => ArgsStayInside
    BY DEF RoomInv, ArgsStayInside, StoppedAtLong
  <1> QED BY <1>1, AlwaysIInv, InitRoomInv, NextRoomInv, PTL DEF Spec

-----------------------------------------------------------------------------
(* The pipeline says what the line says                                    *)

ArgsBefore(c, k) == {i \in ArgsOf(c) : i < k}
PathsBefore(c, angle, k) == {i \in PathsOf(c, angle) : i < k}

\* p is the last of the paths of S, or NULL if there is none.
Newest(p, S) == p \in S \cup {Null} /\ \A q \in S : q <= p

\* The arguments of a command that were read, without the NULL behind them.
ArgsRead(c) ==
  IF at = "args" /\ c = Len(commands) /\ commands[c].command_args # <<Null>>
  THEN commands[c].command_args ELSE Front(commands[c].command_args)

\* The parser has met no error.
NoError == at \in {"args", "in", "pipes", "built"} \/ (at = "out" /\ in_ret # -1)

\* The command cmd with the arguments args says what the tokens in front of position k say
\* of the c-th command.
Says(cmd, args, c, k) ==
  /\ Lists(args, ArgsBefore(c, k))
  /\ Newest(cmd.redirect_in_path, PathsBefore(c, "<", k))
  /\ Newest(cmd.redirect_out_path, PathsBefore(c, ">", k))

EndsInNull(cmd) == cmd.command_args # <<>> /\ Last(cmd.command_args) = Null

\* The commands say what the tokens in front of the parser say.
FaithInv ==
  /\ NoError =>
       /\ Len(commands) = CommandOf(token)
       /\ \A c \in 1 .. Len(commands) :
            /\ Says(commands[c], ArgsRead(c), c, token)
            /\ c < Len(commands) \/ at # "args" => EndsInNull(commands[c])
  /\ at = "built" => token = Len(line) + 1 /\ is_background = (\E i \in Positions : line[i] = "&")

\* The number of the command grows behind a '|' only.
LEMMA CommandOfNext ==
  ASSUME NEW k \in Nat \ {0}
  PROVE  /\ CommandOf(k) \in Nat
         /\ line[k] # "|" => CommandOf(k + 1) = CommandOf(k)
         /\ line[k] = "|" => CommandOf(k + 1) = CommandOf(k) + 1
         /\ \A i \in 1 .. k : CommandOf(i) <= CommandOf(k)
  <1>1. PICK S, T : S = {j \in 1 .. k - 1 : line[j] = "|"} /\ T = {j \in 1 .. k + 1 - 1 : line[j] = "|"}
    OBVIOUS
  <1>2. CommandOf(k) = 1 + Cardinality(S) /\ CommandOf(k + 1) = 1 + Cardinality(T)
    BY <1>1 DEF CommandOf
  <1>3. IsFiniteSet(S)
    <2>1. IsFiniteSet(1 .. k - 1)
      BY FS_Interval
    <2> QED BY <1>1, <2>1, FS_Subset
  <1>4. Cardinality(S) \in Nat
    BY <1>3, FS_CardinalityType
  <1>5. ASSUME NEW i \in 1 .. k PROVE CommandOf(i) <= CommandOf(k)
    <2>1. PICK R : R = {j \in 1 .. i - 1 : line[j] = "|"}
      OBVIOUS
    <2>2. R \subseteq S
      BY <1>1, <2>1
    <2>3. Cardinality(R) <= Cardinality(S) /\ IsFiniteSet(R)
      BY <1>3, <2>2, FS_Subset
    <2>4. Cardinality(R) \in Nat
      BY <2>3, FS_CardinalityType
    <2>5. CommandOf(i) = 1 + Cardinality(R)
      BY <2>1 DEF CommandOf
    <2> QED BY <1>2, <1>4, <2>3, <2>4, <2>5
  <1>6. CommandOf(k) \in Nat
    BY <1>2, <1>4
  <1>7. CASE line[k] = "|"
    <2>1. T = S \cup {k} /\ k \notin S
      BY <1>1, <1>7
    <2>2. Cardinality(T) = Cardinality(S) + 1
      BY <1>3, <2>1, FS_AddElement
    <2>3. CommandOf(k + 1) = CommandOf(k) + 1
      BY <1>2, <1>4, <2>2
    <2> QED BY <1>7, <1>5, <1>6, <2>3
  <1>8. CASE line[k] # "|"
    <2>1. T = S
      BY <1>1, <1>8
    <2>2. CommandOf(k + 1) = CommandOf(k)
      BY <1>2, <2>1
    <2> QED BY <1>5, <1>6, <1>8, <2>2
  <1> QED BY <1>7, <1>8

\* What one more token adds to the arguments and the paths of the commands.
LEMMA BeforeNext ==
  ASSUME NEW k \in Positions, NEW c, NEW angle
  PROVE  /\ ArgsBefore(c, k + 1) =
              IF line[k] \in Words /\ ~IsPath(k) /\ CommandOf(k) = c
              THEN ArgsBefore(c, k) \cup {k} ELSE ArgsBefore(c, k)
         /\ PathsBefore(c, angle, k + 1) =
              IF IsPath(k) /\ line[k - 1] = angle /\ CommandOf(k) = c
              THEN PathsBefore(c, angle, k) \cup {k} ELSE PathsBefore(c, angle, k)
  <1>1. k \in Int /\ \A i \in Positions : i \in Int /\ (i < k + 1 <=> i < k \/ i = k) /\ ~(k < k)
    BY DEF Positions
  <1>2. \A i : i \in ArgsBefore(c, k + 1) <=> i \in ArgsBefore(c, k) \/ (i = k /\ k \in ArgsOf(c))
    BY <1>1 DEF ArgsBefore, ArgsOf
  <1>3. \A i : i \in PathsBefore(c, angle, k + 1) <=>
                 i \in PathsBefore(c, angle, k) \/ (i = k /\ k \in PathsOf(c, angle))
    BY <1>1 DEF PathsBefore, PathsOf
  <1>4. k \in ArgsOf(c) <=> line[k] \in Words /\ ~IsPath(k) /\ CommandOf(k) = c
    BY DEF ArgsOf
  <1>5. k \in PathsOf(c, angle) <=> IsPath(k) /\ line[k - 1] = angle /\ CommandOf(k) = c
    BY DEF PathsOf
  <1>6. ArgsBefore(c, k + 1) = IF k \in ArgsOf(c) THEN ArgsBefore(c, k) \cup {k} ELSE ArgsBefore(c, k)
    BY <1>2
  <1>7. PathsBefore(c, angle, k + 1) =
          IF k \in PathsOf(c, angle) THEN PathsBefore(c, angle, k) \cup {k} ELSE PathsBefore(c, angle, k)
    BY <1>3
  <1> QED BY <1>4, <1>5, <1>6, <1>7

\* A token that is no word, or a token of another command, adds nothing.
LEMMA SaysNext ==
  ASSUME NEW k \in Positions, NEW cmd, NEW args, NEW c, Says(cmd, args, c, k),
         line[k] \notin Words \/ CommandOf(k) # c
  PROVE  Says(cmd, args, c, k + 1)
  <1>1. ~(line[k] \in Words /\ CommandOf(k) = c) /\ (IsPath(k) => line[k] \in Words)
    BY DEF IsPath
  <1>2. \A angle : PathsBefore(c, angle, k + 1) = PathsBefore(c, angle, k)
    BY <1>1, BeforeNext
  <1>3. ArgsBefore(c, k + 1) = ArgsBefore(c, k)
    BY <1>1, BeforeNext
  <1> QED BY <1>2, <1>3 DEF Says

\* A longer list.
LEMMA ListsAppend ==
  ASSUME NEW s \in Seq(Nat), NEW S, Lists(s, S), NEW x \in Nat, \A i \in S : i < x
  PROVE  Lists(Append(s, x), S \cup {x})
  <1>1. PICK t, n : t = Append(s, x) /\ n = Len(s)
    OBVIOUS
  <1>2. n \in Nat /\ DOMAIN s = 1 .. n /\ DOMAIN t = 1 .. n + 1 /\ t[n + 1] = x /\ \A i \in 1 .. n : t[i] = s[i]
    BY <1>1
  <1>3. \A i \in 1 .. n : i \in 1 .. n + 1
    BY <1>2
  <1>4. n + 1 \in 1 .. n + 1 /\ \A i \in 1 .. n + 1 : i \in 1 .. n \/ i = n + 1
    BY <1>2
  <1>5. Range(t) = Range(s) \cup {x}
    BY <1>2, <1>3, <1>4 DEF Range
  <1>6. ASSUME NEW i \in DOMAIN t, NEW j \in DOMAIN t, i < j PROVE t[i] < t[j]
    <2>1. i \in 1 .. n
      BY <1>2, <1>6
    <2>2. CASE j \in 1 .. n
      BY <1>2, <1>6, <2>1, <2>2 DEF Lists
    <2>3. CASE j = n + 1
      <3>1. s[i] \in S
        BY <1>2, <2>1 DEF Lists, Range
      <3> QED BY <1>2, <2>1, <2>3, <3>1
    <2> QED BY <1>2, <1>4, <1>6, <2>2, <2>3
  <1> QED BY <1>1, <1>5, <1>6 DEF Lists

\* A later path.
LEMMA NewestNext ==
  ASSUME NEW k \in Nat, NEW S, \A i \in S : i < k /\ i \in Nat
  PROVE  Newest(k, S \cup {k})
  BY DEF Newest

\* The invariant after a step to position k.
LEMMA FaithStep ==
  ASSUME line' = line, NEW k, token' = k,
         at' = "built" => k = Len(line) + 1 /\ is_background' = (\E i \in Positions : line[i] = "&"),
         NoError' =>
           /\ Len(commands') = CommandOf(k)
           /\ \A c \in 1 .. Len(commands') :
                /\ Says(commands'[c], ArgsRead(c)', c, k)
                /\ c < Len(commands') \/ at' # "args" => EndsInNull(commands'[c])
  PROVE  FaithInv'
  <1>1. CommandOf(token)' = CommandOf(k)
    BY DEF CommandOf
  <1>2. \A cmd, args, c : Says(cmd, args, c, token)' <=> Says(cmd, args, c, k)
    BY DEF Says, ArgsBefore, PathsBefore, ArgsOf, PathsOf, Positions, IsPath, CommandOf
  <1>3. \A c : EndsInNull(commands[c])' <=> EndsInNull(commands'[c])
    BY DEF EndsInNull, Last
  <1>4. (\E i \in Positions : line[i] = "&")' <=> \E i \in Positions : line[i] = "&"
    BY DEF Positions
  <1> QED BY <1>1, <1>2, <1>3, <1>4 DEF FaithInv

\* No path begins right behind the tokens that were read.
LEMMA NoPathHere ==
  ASSUME TypeInv, NEW k \in Nat \ {0}, Good(k)
  PROVE  ~IsPath(k)
  <1>1. CASE k = 1
    BY <1>1 DEF IsPath
  <1>2. CASE k > 1
    <2>1. k - 1 \in 1 .. k - 1
      BY <1>2
    <2>2. line[k - 1] \in Angles => k - 1 + 1 < k
      BY <2>1 DEF Good
    <2> QED BY <2>2 DEF IsPath
  <1> QED BY <1>1, <1>2

\* The commands that are not being parsed.
LEMMA OtherRead ==
  ASSUME TypeInv, Building, Touched(current'), NEW c \in 1 .. Len(commands), c # Len(commands)
  PROVE  /\ commands'[c] = commands[c] /\ ArgsRead(c)' = ArgsRead(c) /\ c < Len(commands)
  <1>1. commands'[c] = commands[c] /\ Len(commands') = Len(commands)
    BY DEF Touched
  <1>2. ArgsRead(c) = Front(commands[c].command_args)
    BY DEF ArgsRead
  <1>3. ArgsRead(c)' = Front(commands'[c].command_args)
    BY <1>1 DEF ArgsRead, Front
  <1>4. c < Len(commands)
    BY CurrentType
  <1> QED BY <1>1, <1>2, <1>3, <1>4

\* parse_args copies a word.
LEMMA FaithParseArg == ASSUME IInv, FaithInv, ParseArg PROVE FaithInv'
  <1> USE DEF Building
  <1>1. /\ at = "args" /\ at' = "args" /\ TokenType(token) = "word" /\ token' = token + 1
        /\ commands' = [commands EXCEPT ![Len(commands)].command_args =
                          Store(current.command_args, ArgCount(current), token)]
        /\ line' = line
    BY DEF ParseArg, current
  <1>2. TypeInv /\ ArgsInv /\ token \in Nat \ {0} /\ Len(line) \in Nat /\ Good(token)
    BY <1>1 DEF IInv, TypeInv, GrammarInv
  <1>3. token \in Positions /\ line[token] \in Words /\ line[token] # "|" /\ ~IsPath(token)
    BY <1>1, <1>2, TokenTypes, NoPathHere DEF Positions, Words
  <1>4. PICK a, e : a = current.command_args /\ e = Store(current.command_args, ArgCount(current), token)
    OBVIOUS
  <1>5. /\ e \in Seq(Nat) /\ a \in Seq(Nat) /\ a # <<>>
        /\ a = <<Null>> => e = <<token>>
        /\ a # <<Null>> => e = Append(a, token) /\ \A i \in DOMAIN a : a[i] # Null
    BY <1>1, <1>2, <1>4, ArgsSoFar
  <1>6. /\ Touched(current') /\ current'.command_args = e
        /\ current'.redirect_in_path = current.redirect_in_path
        /\ current'.redirect_out_path = current.redirect_out_path
    BY <1>1, <1>2, <1>4, <1>5, ArgsTouched
  <1>7. /\ Len(commands) = CommandOf(token)
        /\ \A c \in 1 .. Len(commands) : /\ Says(commands[c], ArgsRead(c), c, token)
                                         /\ c < Len(commands) => EndsInNull(commands[c])
    BY <1>1 DEF FaithInv, NoError
  <1>8. PICK n, k, s : n = Len(commands) /\ k = token + 1 /\ s = ArgsRead(n)
    OBVIOUS
  <1>9. n \in Nat \ {0} /\ n \in 1 .. n /\ Len(commands') = n /\ n = CommandOf(k) /\ n = CommandOf(token)
    <2>1. n \in Nat \ {0} /\ Len(commands') = n
      BY <1>1, <1>2, <1>6, <1>8, CurrentType DEF Touched
    <2> QED BY <1>2, <1>3, <1>7, <1>8, <2>1, CommandOfNext
  <1>10. s \in Seq(Nat) /\ e = Append(s, token)
    <2>1. CASE a = <<Null>>
      <3>1. s = Front(<<Null>>)
        BY <1>4, <1>8, <2>1 DEF ArgsRead, current
      <3>2. Front(<<Null>>) = <<>>
        BY DEF Front
      <3>3. Append(<<>>, token) = <<token>> /\ <<>> \in Seq(Nat)
        OBVIOUS
      <3> QED BY <1>5, <2>1, <3>1, <3>2, <3>3
    <2>2. CASE a # <<Null>>
      <3>1. s = a
        BY <1>1, <1>4, <1>8, <2>2 DEF ArgsRead, current
      <3> QED BY <1>5, <2>2, <3>1
    <2> QED BY <2>1, <2>2
  <1>11. ArgsRead(n)' = e
    <2>1. e # <<Null>>
      <3>1. Len(e) \in DOMAIN e /\ e[Len(e)] = token /\ token # Null
        <4>1. PICK m : m = Len(s)
          OBVIOUS
        <4>2. m \in Nat /\ Len(e) = m + 1 /\ e[m + 1] = token /\ DOMAIN e = 1 .. m + 1
          BY <1>2, <1>10, <4>1
        <4> QED BY <1>2, <4>2 DEF Null
      <3>2. Len(<<Null>>) = 1 /\ <<Null>>[1] = Null
        OBVIOUS
      <3> QED BY <3>1, <3>2
    <2>2. commands'[Len(commands')].command_args = e
      BY <1>6 DEF current
    <2> QED BY <1>1, <1>9, <2>1, <2>2 DEF ArgsRead
  <1>12. Says(current', e, n, k)
    <2>1. Says(current, s, n, token)
      BY <1>7, <1>8, <1>9 DEF current
    <2>2. ArgsBefore(n, k) = ArgsBefore(n, token) \cup {token}
      BY <1>3, <1>8, <1>9, BeforeNext
    <2>3. \A angle : PathsBefore(n, angle, k) = PathsBefore(n, angle, token)
      BY <1>3, <1>8, BeforeNext
    <2>4. \A i \in ArgsBefore(n, token) : i < token
      BY DEF ArgsBefore
    <2>5. Lists(e, ArgsBefore(n, k))
      BY <1>2, <1>10, <2>1, <2>2, <2>4, ListsAppend DEF Says
    <2> QED BY <1>6, <2>1, <2>3, <2>5 DEF Says
  <1>13. ASSUME NEW c \in 1 .. Len(commands')
         PROVE  Says(commands'[c], ArgsRead(c)', c, k) /\ (c < Len(commands') => EndsInNull(commands'[c]))
    <2>1. CASE c = n
      BY <1>6, <1>9, <1>11, <1>12, <2>1 DEF current
    <2>2. CASE c # n
      <3>1. c \in 1 .. Len(commands) /\ c # Len(commands)
        BY <1>8, <1>9, <2>2
      <3>2. commands'[c] = commands[c] /\ ArgsRead(c)' = ArgsRead(c) /\ c < Len(commands)
        BY <1>1, <1>2, <1>6, <3>1, OtherRead
      <3>3. CommandOf(token) # c
        BY <1>9, <2>2
      <3>4. Says(commands[c], ArgsRead(c), c, token)
        BY <1>7, <3>1
      <3>5. PICK cmd, args : cmd = commands[c] /\ args = ArgsRead(c)
        OBVIOUS
      <3>6. Says(cmd, args, c, token + 1)
        BY <1>3, <3>3, <3>4, <3>5, SaysNext
      <3> QED BY <1>7, <1>8, <3>1, <3>2, <3>5, <3>6
    <2> QED BY <2>1, <2>2
  <1> QED BY <1>1, <1>8, <1>9, <1>13, FaithStep

\* parse_args stores the NULL.
LEMMA FaithParseArgsEnd == ASSUME IInv, FaithInv, ParseArgsEnd PROVE FaithInv'
  <1> USE DEF Building
  <1>1. /\ at = "args" /\ at' \in {"in", "pipes"} /\ line' = line /\ token' = token
        /\ commands' = [commands EXCEPT ![Len(commands)].command_args =
                          Store(current.command_args, ArgCount(current), Null)]
    BY DEF ParseArgsEnd, Ended
  <1>2. TypeInv /\ ArgsInv /\ Null \in Nat
    BY DEF IInv, Null
  <1>3. PICK a, e : a = current.command_args /\ e = Store(current.command_args, ArgCount(current), Null)
    OBVIOUS
  <1>4. /\ e \in Seq(Nat) /\ a \in Seq(Nat) /\ a # <<>>
        /\ a = <<Null>> => e = <<Null>>
        /\ a # <<Null>> => e = Append(a, Null)
    BY <1>1, <1>2, <1>3, ArgsSoFar
  <1>5. /\ Touched(current') /\ current'.command_args = e
        /\ current'.redirect_in_path = current.redirect_in_path
        /\ current'.redirect_out_path = current.redirect_out_path
    BY <1>1, <1>2, <1>3, <1>4, ArgsTouched
  <1>6. /\ Len(commands) = CommandOf(token)
        /\ \A c \in 1 .. Len(commands) : /\ Says(commands[c], ArgsRead(c), c, token)
                                         /\ c < Len(commands) => EndsInNull(commands[c])
    BY <1>1 DEF FaithInv, NoError
  <1>7. PICK n, k, s : n = Len(commands) /\ k = token /\ s = ArgsRead(n)
    OBVIOUS
  <1>8. n \in Nat \ {0} /\ n \in 1 .. n /\ Len(commands') = n
    BY <1>1, <1>2, <1>5, <1>7, CurrentType DEF Touched
  <1>9. Front(e) = s /\ e # <<>> /\ Last(e) = Null
    <2>1. CASE a = <<Null>>
      <3>1. s = Front(<<Null>>)
        BY <1>3, <1>7, <2>1 DEF ArgsRead, current
      <3>2. <<Null>> # <<>> /\ <<Null>>[Len(<<Null>>)] = Null
        OBVIOUS
      <3> QED BY <1>4, <2>1, <3>1, <3>2 DEF Last
    <2>2. CASE a # <<Null>>
      <3>1. s = a /\ e = Append(a, Null)
        BY <1>1, <1>3, <1>4, <1>7, <2>2 DEF ArgsRead, current
      <3>2. Len(e) = Len(a) + 1 /\ e[Len(a) + 1] = Null /\ Len(a) \in Nat
        BY <1>2, <1>4, <3>1
      <3>3. SubSeq(e, 1, Len(a)) = a
        BY <1>2, <1>4, <3>1
      <3>4. Len(e) - 1 = Len(a)
        BY <3>2
      <3>5. e # <<>>
        BY <3>2
      <3> QED BY <3>1, <3>2, <3>3, <3>4, <3>5 DEF Front, Last
    <2> QED BY <2>1, <2>2
  <1>10. commands'[n] = current'
    BY <1>8 DEF current
  <1>11. ArgsRead(n)' = s /\ EndsInNull(commands'[n])
    <2>1. ArgsRead(n)' = Front(commands'[n].command_args)
      BY <1>1 DEF ArgsRead, Front
    <2> QED BY <1>5, <1>9, <1>10, <2>1 DEF EndsInNull
  <1>12. ASSUME NEW c \in 1 .. Len(commands')
         PROVE  Says(commands'[c], ArgsRead(c)', c, k) /\ EndsInNull(commands'[c])
    <2>1. CASE c = n
      <3>1. Says(current, s, n, k)
        BY <1>6, <1>7, <1>8 DEF current
      <3>2. Says(current', s, n, k)
        BY <1>5, <3>1 DEF Says
      <3> QED BY <1>10, <1>11, <2>1, <3>2
    <2>2. CASE c # n
      <3>1. c \in 1 .. Len(commands) /\ c # Len(commands)
        BY <1>7, <1>8, <2>2
      <3>2. commands'[c] = commands[c] /\ ArgsRead(c)' = ArgsRead(c) /\ c < Len(commands)
        BY <1>1, <1>2, <1>5, <3>1, OtherRead
      <3> QED BY <1>6, <1>7, <3>1, <3>2
    <2> QED BY <2>1, <2>2
  <1>13. Len(commands') = CommandOf(k) /\ token' = k /\ at' # "built"
    BY <1>1, <1>6, <1>7, <1>8
  <1> QED BY <1>1, <1>12, <1>13, FaithStep

\* A redirection that was read, or none.
LEMMA FaithAngle ==
  ASSUME IInv, FaithInv, NoError, at \in {"in", "out"}, at' \in {"in", "out", "pipes"}, line' = line,
         NEW k, token' = k, Touched(current'), current'.command_args = current.command_args,
         NEW angle \in Angles,
         \/ /\ k = token
            /\ current'.redirect_in_path = current.redirect_in_path
            /\ current'.redirect_out_path = current.redirect_out_path
         \/ /\ k = token + 2 /\ token + 1 <= Len(line) /\ line[token] = angle /\ line[token + 1] \in Words
            /\ current'.redirect_in_path = (IF angle = "<" THEN token + 1 ELSE current.redirect_in_path)
            /\ current'.redirect_out_path = (IF angle = ">" THEN token + 1 ELSE current.redirect_out_path)
  PROVE  FaithInv'
  <1> USE DEF Building
  <1>1. TypeInv /\ token \in Nat \ {0} /\ Len(line) \in Nat
    BY DEF IInv, TypeInv
  <1>2. /\ Len(commands) = CommandOf(token)
        /\ \A c \in 1 .. Len(commands) : Says(commands[c], ArgsRead(c), c, token) /\ EndsInNull(commands[c])
    BY DEF FaithInv
  <1>3. PICK n : n = Len(commands)
    OBVIOUS
  <1>4. n \in Nat \ {0} /\ n \in 1 .. n /\ Len(commands') = n /\ commands'[n] = current' /\ commands[n] = current
    BY <1>1, <1>3, CurrentType DEF Touched, current
  <1>5. ArgsRead(n)' = ArgsRead(n) /\ EndsInNull(commands'[n])
    <2>1. ArgsRead(n)' = Front(commands'[n].command_args) /\ ArgsRead(n) = Front(commands[n].command_args)
      BY DEF ArgsRead, Front
    <2> QED BY <1>2, <1>3, <1>4, <2>1 DEF EndsInNull
  <1>6. \A c \in 1 .. n : c # n => commands'[c] = commands[c] /\ ArgsRead(c)' = ArgsRead(c)
    BY <1>1, <1>3, OtherRead
  <1>7. \A c \in 1 .. n : EndsInNull(commands'[c])
    BY <1>2, <1>3, <1>5, <1>6
  <1>8. CASE k = token
    <2>1. ASSUME NEW c \in 1 .. n PROVE Says(commands'[c], ArgsRead(c)', c, k)
      <3>1. CASE c = n
        <4>1. Says(current, ArgsRead(n), n, k)
          BY <1>2, <1>3, <1>4, <1>8
        <4>2. /\ current'.redirect_in_path = current.redirect_in_path
              /\ current'.redirect_out_path = current.redirect_out_path
          BY <1>1, <1>8
        <4>3. Says(current', ArgsRead(n), n, k)
          BY <4>1, <4>2 DEF Says
        <4> QED BY <1>4, <1>5, <3>1, <4>3
      <3>2. CASE c # n
        BY <1>2, <1>3, <1>6, <1>8, <3>2
      <3> QED BY <3>1, <3>2
    <2>2. Len(commands') = CommandOf(k) /\ at' # "built"
      BY <1>2, <1>3, <1>4, <1>8
    <2> QED BY <1>4, <1>7, <2>1, <2>2, FaithStep
  <1>9. CASE k # token
    <2>1. PICK q : q = token + 1
      OBVIOUS
    <2>2. /\ k = q + 1 /\ q \in Positions /\ token \in Positions /\ q - 1 = token /\ q > 1 /\ q \in Nat \ {0}
          /\ line[token] = angle /\ line[q] \in Words
          /\ current'.redirect_in_path = (IF angle = "<" THEN q ELSE current.redirect_in_path)
          /\ current'.redirect_out_path = (IF angle = ">" THEN q ELSE current.redirect_out_path)
      BY <1>1, <1>9, <2>1 DEF Positions
    <2>3. line[token] \notin Words /\ line[token] # "|" /\ line[q] # "|" /\ IsPath(q) /\ line[q - 1] = angle
      BY <2>2 DEF Angles, Words, IsPath
    <2>4. CommandOf(q) = n /\ CommandOf(k) = n
      BY <1>1, <1>2, <1>3, <2>1, <2>2, <2>3, CommandOfNext
    <2>5. ASSUME NEW c \in 1 .. n PROVE Says(commands[c], ArgsRead(c), c, q)
      <3>1. PICK cmd, args : cmd = commands[c] /\ args = ArgsRead(c)
        OBVIOUS
      <3>2. Says(cmd, args, c, token)
        BY <1>2, <1>3, <3>1
      <3>3. Says(cmd, args, c, token + 1)
        BY <2>2, <2>3, <3>2, SaysNext
      <3> QED BY <2>1, <3>1, <3>3
    <2>6. Says(current', ArgsRead(n), n, k)
      <3>1. Says(current, ArgsRead(n), n, q)
        BY <1>4, <2>5
      <3>2. ArgsBefore(n, k) = ArgsBefore(n, q)
        BY <2>2, <2>3, BeforeNext
      <3>3. ASSUME NEW g
            PROVE  PathsBefore(n, g, k) = IF g = angle THEN PathsBefore(n, g, q) \cup {q} ELSE PathsBefore(n, g, q)
        <4>1. PathsBefore(n, g, q + 1) = IF IsPath(q) /\ line[q - 1] = g /\ CommandOf(q) = n
                                         THEN PathsBefore(n, g, q) \cup {q} ELSE PathsBefore(n, g, q)
          BY <2>2, BeforeNext
        <4> QED BY <2>2, <2>3, <2>4, <4>1
      <3>4. \A i \in PathsBefore(n, angle, q) : i < q /\ i \in Nat
        BY <1>1 DEF PathsBefore, PathsOf, Positions
      <3>5. Newest(q, PathsBefore(n, angle, k))
        BY <2>2, <3>3, <3>4, NewestNext
      <3>6. Newest(current'.redirect_in_path, PathsBefore(n, "<", k))
        BY <2>2, <3>1, <3>3, <3>5 DEF Says
      <3>7. Newest(current'.redirect_out_path, PathsBefore(n, ">", k))
        BY <2>2, <3>1, <3>3, <3>5 DEF Says
      <3> QED BY <3>1, <3>2, <3>6, <3>7 DEF Says
    <2>7. ASSUME NEW c \in 1 .. n PROVE Says(commands'[c], ArgsRead(c)', c, k)
      <3>1. CASE c = n
        BY <1>4, <1>5, <2>6, <3>1
      <3>2. CASE c # n
        <4>1. PICK cmd, args : cmd = commands[c] /\ args = ArgsRead(c)
          OBVIOUS
        <4>2. Says(cmd, args, c, q)
          BY <2>5, <4>1
        <4>3. Says(cmd, args, c, q + 1)
          BY <2>2, <2>4, <3>2, <4>2, SaysNext
        <4> QED BY <1>6, <2>2, <3>2, <4>1, <4>3
      <3> QED BY <3>1, <3>2
    <2>8. Len(commands') = CommandOf(k) /\ at' # "built"
      BY <1>4, <2>4
    <2> QED BY <1>4, <1>7, <2>7, <2>8, FaithStep
  <1> QED BY <1>8, <1>9

LEMMA FaithRedirectIn == ASSUME IInv, FaithInv, RedirectIn PROVE FaithInv'
  <1>1. PICK r, k : r = Redirect(token, "<") /\ k = token'
    OBVIOUS
  <1>2. TypeInv /\ token \in Nat \ {0} /\ at = "in" /\ at' = "out" /\ in_ret' = r.ret /\ NoError /\ "<" \in Angles
    BY <1>1 DEF RedirectIn, IInv, TypeInv, NoError, Angles
  <1>3. CASE r.ret = -1
    BY <1>2, <1>3 DEF FaithInv, NoError
  <1>4. CASE r.ret # -1
    <2>1. /\ line' = line /\ Touched(current') /\ current'.command_args = current.command_args
          /\ current'.redirect_out_path = current.redirect_out_path
          /\ \/ k = token /\ current'.redirect_in_path = current.redirect_in_path
             \/ /\ k = token + 2 /\ current'.redirect_in_path = token + 1
                /\ token + 1 <= Len(line) /\ line[token] = "<" /\ line[token + 1] \in Words
      BY <1>1, <1>2, <1>4, RedirectInDoes
    <2> QED BY <1>1, <1>2, <2>1, FaithAngle
  <1> QED BY <1>3, <1>4

LEMMA FaithRedirectOut == ASSUME IInv, FaithInv, RedirectOut PROVE FaithInv'
  <1>1. PICK r, k : r = Redirect(token, ">") /\ k = token'
    OBVIOUS
  <1>2. /\ TypeInv /\ token \in Nat \ {0} /\ at = "out" /\ at' \in {"in", "failed", "pipes"} /\ ">" \in Angles
        /\ at' # "failed" => in_ret # -1 /\ r.ret # -1
    BY <1>1 DEF RedirectOut, IInv, TypeInv, Angles
  <1>3. CASE at' = "failed"
    BY <1>3 DEF FaithInv, NoError
  <1>4. CASE at' # "failed"
    <2>1. /\ line' = line /\ Touched(current') /\ current'.command_args = current.command_args
          /\ current'.redirect_in_path = current.redirect_in_path
          /\ \/ k = token /\ current'.redirect_out_path = current.redirect_out_path
             \/ /\ k = token + 2 /\ current'.redirect_out_path = token + 1
                /\ token + 1 <= Len(line) /\ line[token] = ">" /\ line[token + 1] \in Words
      BY <1>1, <1>2, <1>4, RedirectOutDoes
    <2>2. NoError /\ at' \in {"in", "out", "pipes"}
      BY <1>2, <1>4 DEF NoError
    <2> QED BY <1>1, <1>2, <2>1, <2>2, FaithAngle
  <1> QED BY <1>3, <1>4

\* A new command says nothing.
LEMMA NewSays ==
  ASSUME NEW c, NEW k, ArgsBefore(c, k) = {}, \A angle : PathsBefore(c, angle, k) = {}
  PROVE  Says(NewCommand, Front(NewCommand.command_args), c, k)
  <1>1. NewCommand.command_args = <<Null>> /\ NewCommand.redirect_in_path = Null /\ NewCommand.redirect_out_path = Null
    BY DEF NewCommand
  <1>2. Front(<<Null>>) = <<>>
    BY DEF Front
  <1>3. DOMAIN <<>> = {}
    OBVIOUS
  <1>4. Lists(<<>>, {})
    BY <1>3 DEF Lists, Range
  <1>5. Newest(Null, {})
    BY DEF Newest
  <1> QED BY <1>1, <1>2, <1>4, <1>5 DEF Says

\* parse_pipes links the next command.
LEMMA FaithPipe == ASSUME IInv, FaithInv, Pipe PROVE FaithInv'
  <1>1. /\ at = "pipes" /\ at' = "args" /\ TokenType(token) = "|" /\ token' = token + 1
        /\ commands' = Append(commands, NewCommand) /\ line' = line
    BY DEF Pipe
  <1>2. TypeInv /\ token \in Nat \ {0} /\ Len(line) \in Nat /\ commands \in Seq(CommandType)
    BY DEF IInv, TypeInv
  <1>3. token \in Positions /\ line[token] = "|" /\ line[token] \notin Words
    BY <1>1, <1>2, TokenTypes DEF Positions
  <1>4. PICK n, k : n = Len(commands) /\ k = token + 1
    OBVIOUS
  <1>5. /\ Len(commands') = n + 1 /\ commands'[n + 1] = NewCommand /\ n \in Nat
        /\ \A c \in 1 .. n : commands'[c] = commands[c]
    <2>1. PICK s, d : s = commands /\ d = NewCommand
      OBVIOUS
    <2>2. s \in Seq(CommandType) /\ d \in CommandType
      BY <1>2, <2>1, NewCommandType
    <2>3. /\ Len(Append(s, d)) = Len(s) + 1 /\ Append(s, d)[Len(s) + 1] = d /\ Len(s) \in Nat
          /\ \A i \in 1 .. Len(s) : Append(s, d)[i] = s[i]
      BY <2>2
    <2> QED BY <1>1, <1>4, <2>1, <2>3
  <1>6. /\ n = CommandOf(token)
        /\ \A c \in 1 .. n : Says(commands[c], ArgsRead(c), c, token) /\ EndsInNull(commands[c])
    BY <1>1, <1>4 DEF FaithInv, NoError
  <1>7. CommandOf(k) = n + 1
    BY <1>2, <1>3, <1>4, <1>6, CommandOfNext
  <1>8. ASSUME NEW c \in 1 .. n PROVE Says(commands'[c], ArgsRead(c)', c, k)
    <2>1. c # n + 1
      BY <1>5
    <2>2. ArgsRead(c)' = Front(commands[c].command_args) /\ ArgsRead(c) = Front(commands[c].command_args)
      BY <1>1, <1>5, <2>1 DEF ArgsRead, Front
    <2>3. PICK cmd, args : cmd = commands[c] /\ args = ArgsRead(c)
      OBVIOUS
    <2>4. Says(cmd, args, c, token)
      BY <1>6, <2>3
    <2>5. Says(cmd, args, c, token + 1)
      BY <1>3, <2>4, SaysNext
    <2> QED BY <1>4, <1>5, <2>2, <2>3, <2>5
  <1>9. Says(commands'[n + 1], ArgsRead(n + 1)', n + 1, k)
    <2>1. PICK c : c = n + 1
      OBVIOUS
    <2>2. \A i \in Positions : i < k => CommandOf(i) # c
      <3> SUFFICES ASSUME NEW i \in Positions, i < k PROVE CommandOf(i) # c
        OBVIOUS
      <3>1. i \in 1 .. token /\ i \in Nat \ {0}
        BY <1>2, <1>4 DEF Positions
      <3>2. CommandOf(i) <= CommandOf(token) /\ CommandOf(i) \in Nat
        BY <1>2, <3>1, CommandOfNext
      <3> QED BY <1>5, <1>6, <2>1, <3>2
    <2>3. ArgsBefore(c, k) = {} /\ \A angle : PathsBefore(c, angle, k) = {}
      BY <2>2 DEF ArgsBefore, PathsBefore, ArgsOf, PathsOf
    <2>4. ArgsRead(c)' = Front(NewCommand.command_args)
      BY <1>1, <1>5, <2>1 DEF ArgsRead, NewCommand, Front
    <2>5. Says(NewCommand, Front(NewCommand.command_args), c, k)
      BY <2>3, NewSays
    <2> QED BY <1>5, <2>1, <2>4, <2>5
  <1>10. ASSUME NEW c \in 1 .. Len(commands')
         PROVE  Says(commands'[c], ArgsRead(c)', c, k) /\ (c < Len(commands') => EndsInNull(commands'[c]))
    <2>1. CASE c = n + 1
      BY <1>5, <1>9, <2>1
    <2>2. CASE c # n + 1
      <3>1. c \in 1 .. n
        BY <1>5, <2>2
      <3> QED BY <1>5, <1>6, <1>8, <3>1
    <2> QED BY <2>1, <2>2
  <1> QED BY <1>1, <1>4, <1>5, <1>7, <1>10, FaithStep

\* The end of the line.
LEMMA FaithFinish == ASSUME IInv, FaithInv, Finish PROVE FaithInv'
  <1>1. /\ at = "pipes" /\ token' = token + Background(token) /\ line' = line /\ commands' = commands
        /\ is_background' = (Background(token) = 1)
        /\ at' = (IF TokenType(token') = "none" THEN "built" ELSE "failed")
    <2>1. TokenType(token') = TokenType(token)'
      BY DEF Finish, TokenType
    <2> QED BY <2>1 DEF Finish
  <1>2. TypeInv /\ token \in Nat \ {0} /\ Len(line) \in Nat /\ Good(token)
    BY <1>1 DEF IInv, TypeInv, GrammarInv
  <1>3. CASE at' = "failed"
    BY <1>3 DEF FaithInv, NoError
  <1>4. CASE at' # "failed"
    <2>1. PICK k : k = token'
      OBVIOUS
    <2>2. at' = "built" /\ TokenType(k) = "none"
      BY <1>1, <1>4, <2>1
    <2>3. /\ TokenType(token) = "&" => k = token + 1 /\ is_background' = TRUE
          /\ TokenType(token) # "&" => k = token /\ is_background' = FALSE
      <3>1. /\ TokenType(token) = "&" => k = token + 1 /\ Background(token) = 1
            /\ TokenType(token) # "&" => k = token /\ ~(Background(token) = 1)
        BY <1>1, <1>2, <2>1 DEF Background
      <3>2. (Background(token) = 1) => is_background' = TRUE
        BY <1>1, Zenon
      <3>3. ~(Background(token) = 1) => is_background' = FALSE
        BY <1>1, Zenon
      <3> QED BY <3>1, <3>2, <3>3
    <2>4. k \in Nat \ {0} /\ k > Len(line)
      <3>1. k \in Nat \ {0}
        BY <1>2, <2>3
      <3> QED BY <1>2, <2>2, <3>1, TokenTypes
    <2>5. /\ Len(commands) = CommandOf(token)
          /\ \A c \in 1 .. Len(commands) : Says(commands[c], ArgsRead(c), c, token) /\ EndsInNull(commands[c])
      BY <1>1 DEF FaithInv, NoError
    <2>6. \A c : ArgsRead(c)' = ArgsRead(c)
      BY <1>1, <2>2 DEF ArgsRead, Front
    <2>7. CASE TokenType(token) = "&"
      <3>1. token \in Positions /\ line[token] = "&" /\ line[token] \notin Words
        BY <1>2, <2>7, TokenTypes DEF Positions
      <3>2. k = Len(line) + 1
        BY <1>2, <2>3, <2>4, <2>7, <3>1 DEF Positions
      <3>3. CommandOf(k) = CommandOf(token)
        BY <1>2, <2>3, <2>7, <3>1, CommandOfNext
      <3>4. ASSUME NEW c \in 1 .. Len(commands) PROVE Says(commands[c], ArgsRead(c), c, k)
        <4>1. PICK cmd, args : cmd = commands[c] /\ args = ArgsRead(c)
          OBVIOUS
        <4>2. Says(cmd, args, c, token)
          BY <2>5, <4>1
        <4>3. Says(cmd, args, c, token + 1)
          BY <3>1, <4>2, SaysNext
        <4> QED BY <2>3, <2>7, <4>1, <4>3
      <3>5. is_background' = (\E i \in Positions : line[i] = "&")
        BY <2>3, <2>7, <3>1
      <3> QED BY <1>1, <2>1, <2>5, <2>6, <3>2, <3>3, <3>4, <3>5, FaithStep
    <2>8. CASE TokenType(token) # "&"
      <3>1. k = token /\ is_background' = FALSE
        BY <2>3, <2>8
      <3>2. k = Len(line) + 1
        BY <1>2, <2>4, <3>1, GoodInside
      <3>3. \A i \in Positions : line[i] # "&"
        <4>1. \A i \in Positions : i \in 1 .. token - 1
          BY <1>2, <3>1, <3>2 DEF Positions
        <4> QED BY <1>2, <4>1 DEF Good
      <3>4. is_background' = (\E i \in Positions : line[i] = "&")
        BY <3>1, <3>3
      <3>5. /\ Len(commands') = CommandOf(k)
            /\ \A c \in 1 .. Len(commands') : Says(commands'[c], ArgsRead(c)', c, k) /\ EndsInNull(commands'[c])
        BY <1>1, <2>5, <2>6, <3>1
      <3> QED BY <1>1, <2>1, <3>2, <3>4, <3>5, FaithStep
    <2> QED BY <2>7, <2>8
  <1> QED BY <1>3, <1>4

LEMMA InitFaithInv == Init => FaithInv
  <1> SUFFICES ASSUME Init PROVE FaithInv
    OBVIOUS
  <1>1. token = 1 /\ at = "args" /\ Len(commands) = 1 /\ commands[1] = NewCommand
    BY DEF Init
  <1>2. CommandOf(1) = 1
    <2>1. {j \in 1 .. 1 - 1 : line[j] = "|"} = {}
      OBVIOUS
    <2> QED BY <2>1, FS_EmptySet DEF CommandOf
  <1>3. ArgsBefore(1, 1) = {} /\ \A angle : PathsBefore(1, angle, 1) = {}
    <2>1. \A i \in Positions : ~(i < 1)
      BY DEF Positions
    <2> QED BY <2>1 DEF ArgsBefore, PathsBefore, ArgsOf, PathsOf
  <1>4. ArgsRead(1) = Front(NewCommand.command_args)
    BY <1>1 DEF ArgsRead, NewCommand
  <1>5. Says(NewCommand, Front(NewCommand.command_args), 1, 1)
    BY <1>3, NewSays
  <1>6. \A c \in 1 .. Len(commands) : c = 1 /\ ~(c < Len(commands))
    BY <1>1
  <1> QED BY <1>1, <1>2, <1>4, <1>5, <1>6 DEF FaithInv

LEMMA NextFaithInv == IInv /\ FaithInv /\ [Next]_vars => FaithInv'
  <1> SUFFICES ASSUME IInv, FaithInv, [Next]_vars PROVE FaithInv'
    OBVIOUS
  <1>1. CASE ParseArg
    BY <1>1, FaithParseArg
  <1>2. CASE ParseArgsEnd
    BY <1>2, FaithParseArgsEnd
  <1>3. CASE RedirectIn
    BY <1>3, FaithRedirectIn
  <1>4. CASE RedirectOut
    BY <1>4, FaithRedirectOut
  <1>5. CASE Pipe
    BY <1>5, FaithPipe
  <1>6. CASE Finish
    BY <1>6, FaithFinish
  <1>7. CASE ParseArgTooLong \/ PipeRefused \/ PipelineFree \/ FreeCommand \/ FreeEnd
    <2>1. at' \in {"failed", "free", "freed"}
      BY <1>7 DEF ParseArgTooLong, PipeRefused, PipelineFree, FreeCommand, FreeEnd
    <2> QED BY <2>1 DEF FaithInv, NoError
  <1>8. CASE UNCHANGED vars
    <2>1. PICK k : k = token
      OBVIOUS
    <2>2. /\ line' = line /\ token' = k /\ commands' = commands /\ at' = at /\ is_background' = is_background
          /\ in_ret' = in_ret
      BY <1>8, <2>1 DEF vars
    <2>3. (\A c : ArgsRead(c)' = ArgsRead(c)) /\ (NoError' <=> NoError)
      BY <2>2 DEF ArgsRead, Front, NoError
    <2>4. NoError => /\ Len(commands) = CommandOf(k)
                     /\ \A c \in 1 .. Len(commands) : /\ Says(commands[c], ArgsRead(c), c, k)
                                                      /\ c < Len(commands) \/ at # "args" => EndsInNull(commands[c])
      BY <2>1 DEF FaithInv
    <2>5. at = "built" => k = Len(line) + 1 /\ is_background = (\E i \in Positions : line[i] = "&")
      BY <2>1 DEF FaithInv
    <2> QED BY <2>2, <2>3, <2>4, <2>5, FaithStep
  <1>9. CASE Returned
    BY <1>8, <1>9 DEF Returned
  <1> QED BY <1>1, <1>2, <1>3, <1>4, <1>5, <1>6, <1>7, <1>8, <1>9 DEF Next

LEMMA NewestIsMax ==
  ASSUME NEW S, \A i \in S : i \in Nat, NEW p, Newest(p, S)
  PROVE  p = Max(S \cup {Null})
  <1>1. PICK T : T = S \cup {Null}
    OBVIOUS
  <1>2. p \in T /\ (\A i \in T : i \in Nat) /\ \A q \in T : p >= q
    BY <1>1 DEF Newest, Null
  <1>3. PICK m : m = Max(T)
    OBVIOUS
  <1>4. \E x \in T : \A y \in T : x >= y
    BY <1>2
  <1>5. m \in T /\ \A y \in T : m >= y
    BY <1>3, <1>4, Zenon DEF Max
  <1>6. m = p
    BY <1>2, <1>5
  <1> QED BY <1>1, <1>3, <1>6

\* The pipeline that pipeline_build returns says what the line says, for every line and
\* every limit: the commands, their arguments in order, the redirections that count and
\* the background mark.
THEOREM PipelineIsFaithful == Spec => []FaithfulPipeline
  <1>1. IInv /\ FaithInv => FaithfulPipeline
    <2> SUFFICES ASSUME IInv, FaithInv, at = "built"
                 PROVE /\ is_background = (\E i \in Positions : line[i] = "&")
                       /\ Len(commands) = 1 + Cardinality({i \in Positions : line[i] = "|"})
                       /\ \A c \in 1 .. Len(commands) :
                            /\ Last(commands[c].command_args) = Null
                            /\ Lists(Front(commands[c].command_args), ArgsOf(c))
                            /\ commands[c].redirect_in_path = Max(PathsOf(c, "<") \cup {Null})
                            /\ commands[c].redirect_out_path = Max(PathsOf(c, ">") \cup {Null})
      BY DEF FaithfulPipeline
    <2>1. Len(line) \in Nat
      BY DEF IInv, TypeInv
    <2>2. /\ token = Len(line) + 1 /\ is_background = (\E i \in Positions : line[i] = "&")
          /\ Len(commands) = CommandOf(token)
          /\ \A c \in 1 .. Len(commands) : Says(commands[c], ArgsRead(c), c, token) /\ EndsInNull(commands[c])
      BY DEF FaithInv, NoError
    <2>3. Len(commands) = 1 + Cardinality({i \in Positions : line[i] = "|"})
      <3>1. token - 1 = Len(line)
        BY <2>1, <2>2
      <3> QED BY <2>2, <3>1 DEF CommandOf, Positions
    <2>4. \A i \in Positions : i < token /\ i \in Nat
      BY <2>1, <2>2 DEF Positions
    <2>5. \A c, angle : ArgsBefore(c, token) = ArgsOf(c) /\ PathsBefore(c, angle, token) = PathsOf(c, angle)
      BY <2>4 DEF ArgsBefore, PathsBefore, ArgsOf, PathsOf
    <2>6. ASSUME NEW c \in 1 .. Len(commands)
          PROVE /\ Last(commands[c].command_args) = Null
                /\ Lists(Front(commands[c].command_args), ArgsOf(c))
                /\ commands[c].redirect_in_path = Max(PathsOf(c, "<") \cup {Null})
                /\ commands[c].redirect_out_path = Max(PathsOf(c, ">") \cup {Null})
      <3>1. Says(commands[c], ArgsRead(c), c, token) /\ EndsInNull(commands[c])
        BY <2>2
      <3>2. ArgsRead(c) = Front(commands[c].command_args)
        BY DEF ArgsRead
      <3>3. \A angle : \A i \in PathsOf(c, angle) : i \in Nat
        BY <2>4 DEF PathsOf
      <3>4. /\ Newest(commands[c].redirect_in_path, PathsOf(c, "<"))
            /\ Newest(commands[c].redirect_out_path, PathsOf(c, ">"))
        BY <2>5, <3>1 DEF Says
      <3>5. commands[c].redirect_in_path = Max(PathsOf(c, "<") \cup {Null})
        BY <3>3, <3>4, NewestIsMax
      <3>6. commands[c].redirect_out_path = Max(PathsOf(c, ">") \cup {Null})
        BY <3>3, <3>4, NewestIsMax
      <3> QED BY <2>5, <3>1, <3>2, <3>5, <3>6 DEF Says, EndsInNull
    <2> QED BY <2>2, <2>3, <2>6
  <1> QED BY <1>1, AlwaysIInv, InitFaithInv, NextFaithInv, PTL DEF Spec
=============================================================================
