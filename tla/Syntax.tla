------------------------------- MODULE Syntax -------------------------------
(***************************************************************************)
(* From a line to the commands it runs: tokenize, expand_tokens,           *)
(* merge_consecutive_tokens and check_format_command, which                *)
(* process_command_line calls, and parse_tokens.  One step is one turn of  *)
(* one of their loops.  A character stands for its class: "a" and other    *)
(* letters for what is neither blank, quote, operator nor "$" (no digits). *)
(***************************************************************************)
EXTENDS Integers, SequencesExt

CONSTANTS
  Lines,         \* the lines a user may type: sequences of characters
  Env,           \* from names of variables to their values
  Status,        \* the status of the last command, in decimal
  CommandWords   \* the words that check_format_command makes commands

End == "end"   \* the NUL that ends the input

\* A line and the values of variables are C strings; check_format_command
\* compares with names, none of them empty.
ASSUME SyntaxAssumption ==
  /\ Lines \subseteq Seq(STRING \ {End})
  /\ Status \in Seq(STRING) /\ \A name \in DOMAIN Env : Env[name] \in Seq(STRING)
  /\ <<>> \notin CommandWords

VARIABLES
  line,          \* the input
  phase,         \* the loop at work, or how it ended
  pos,           \* i: the next character of the input
  tokens,        \* the list of tokens, as expand_tokens and its successors walk it
  cur,           \* current: the place in the list
  dangling,      \* the caller's pointer to the list is to a token freed since
  commands       \* the list of commands

vars == <<line, phase, pos, tokens, cur, dangling, commands>>

Blanks    == {" "}
Quotes    == {"'", "\""}
Redirects == {"<", ">"}
Operators == Redirects \cup {"|", "&"}

TokenType == {"word", "pipe", "in", "out", "append", "heredoc", "and", "amp",
              "single", "double", "command"}
TextType  == {"word", "single", "double"}
FileType  == {"in", "out", "append"}

Token(value, type, consecutive) ==
  [value |-> value, type |-> type, consecutive |-> consecutive]

Command == [args : Seq(Seq(STRING)), redirects : Seq([file : Seq(STRING), type : FileType]),
            delimiter : Seq(Seq(STRING)), expand : BOOLEAN]

\* delimiter is empty or holds one text; infile, outfile and append are those
\* of the last redirections.
NewCommand == [args |-> <<>>, redirects |-> <<>>, delimiter |-> <<>>, expand |-> TRUE]

Init ==
  /\ line \in Lines
  /\ phase = "tokenize" /\ pos = 1
  /\ tokens = <<>> /\ cur = 1 /\ dangling = FALSE
  /\ commands = <<>>

-----------------------------------------------------------------------------
(* tokenize                                                                *)

At(i) == IF i \in DOMAIN line THEN line[i] ELSE End

\* The first place from i on that holds a character of Stops or the end.
StopAt(i, Stops) ==
  CHOOSE j \in i .. Len(line) + 1 :
    /\ At(j) \in Stops \cup {End}
    /\ \A k \in i .. j - 1 : At(k) \notin Stops

PastBlanks(i) == CHOOSE j \in i .. Len(line) + 1 :
                   At(j) \notin Blanks /\ \A k \in i .. j - 1 : At(k) \in Blanks

\* Two equal quotes vanish, unless a blank follows.
PastEmptyQuotes(i) ==
  IF At(i) \in Quotes /\ At(i) = At(i + 1) /\ At(i + 2) \notin Blanks THEN i + 2 ELSE i

Start == PastEmptyQuotes(PastBlanks(pos))

\* An operator: one character, or two equal ones.  A file name may follow
\* <, >, << and >> at once; it is not joined to what comes next.
Doubled(i) == At(i) # "|" /\ At(i + 1) = At(i)

OperatorType(i) ==
  CASE At(i) = "|" -> "pipe"
    [] At(i) = "<" -> IF Doubled(i) THEN "heredoc" ELSE "in"
    [] At(i) = ">" -> IF Doubled(i) THEN "append" ELSE "out"
    [] At(i) = "&" -> IF Doubled(i) THEN "and" ELSE "amp"

FileEnd(i) == StopAt(i, Blanks \cup Quotes \cup Redirects \cup {"|"})

Operator ==
  LET start == Start
      past  == IF Doubled(start) THEN start + 2 ELSE start + 1
      next  == IF At(start) \in Redirects THEN FileEnd(past) ELSE past
      value == SubSeq(line, start, past - 1)
      file  == SubSeq(line, past, next - 1)
  IN /\ At(start) \in Operators
     /\ pos' = next
     /\ tokens' = tokens \o << Token(value, OperatorType(start), FALSE) >>
                         \o (IF file = <<>> THEN <<>> ELSE << Token(file, "word", FALSE) >>)
     /\ UNCHANGED phase

\* What follows a word at once is joined to it, except two quotes and a blank.
JoinsWord(i) ==
  /\ At(i) \notin Blanks \cup Operators \cup {End}
  /\ ~(At(i) \in Quotes /\ At(i + 1) \in Quotes /\ At(i + 2) \in Blanks)

Word ==
  LET start == Start
      next  == StopAt(start, Blanks \cup Operators \cup Quotes)
  IN /\ At(start) \notin Operators \cup Quotes
     /\ pos' = next
     /\ tokens' = IF next = start THEN tokens
                  ELSE Append(tokens, Token(SubSeq(line, start, next - 1), "word",
                                            JoinsWord(next)))
     /\ UNCHANGED phase

\* Fault: only a quote is joined to a closing quote.
FaultJoinsQuoted(i) == At(i) \in Quotes

\* Whatever follows a closing quote at once is joined to it, operators included.
JoinsQuoted(i) == At(i) \notin Blanks \cup {End}

\* extract_quoted: the text from i, after the quote, and the place past it.
ClosedAt(i) == StopAt(i, {At(i - 1)})

\* Fault: the character after the closing quote is skipped as a blank would be.
FaultPastQuoted(i) == IF At(i) = At(i - 1) THEN i + 2 ELSE ClosedAt(i) + 2

QuotedText(i) == IF At(i) = At(i - 1) /\ At(i + 1) \in Blanks THEN <<" ">>
                 ELSE SubSeq(line, i, ClosedAt(i) - 1)
PastQuoted(i) == IF At(i) = At(i - 1) /\ At(i + 1) \in Blanks THEN i + 2 ELSE ClosedAt(i) + 1

Quoted ==
  LET i == Start + 1
      type == IF At(i - 1) = "'" THEN "single" ELSE "double"
  IN /\ At(i - 1) \in Quotes
     /\ At(ClosedAt(i)) # End
     /\ pos' = PastQuoted(i)
     /\ tokens' = Append(tokens, Token(QuotedText(i), type, JoinsQuoted(PastQuoted(i))))
     /\ UNCHANGED phase

\* A quote that is not closed: the tokens are freed and the line is dropped.
Unclosed ==
  LET i == Start + 1
  IN /\ At(i - 1) \in Quotes
     /\ At(ClosedAt(i)) = End
     /\ phase' = "unclosed" /\ tokens' = <<>>
     /\ UNCHANGED pos

Tokenize ==
  /\ phase = "tokenize" /\ pos <= Len(line)
  /\ Operator \/ Word \/ Quoted \/ Unclosed
  /\ UNCHANGED <<line, cur, dangling, commands>>

Tokenized ==
  /\ phase = "tokenize" /\ pos > Len(line)
  /\ phase' = IF tokens = <<>> THEN "blank" ELSE "expand"
  /\ UNCHANGED <<line, pos, tokens, cur, dangling, commands>>

-----------------------------------------------------------------------------
(* expand_tokens                                                           *)

Dollar == <<"$">>
Letter(c) == c \notin Blanks \cup Quotes \cup Operators \cup {"$", "?"}

\* The first place from i on that is not in a name.
NameEnd(v, i) == CHOOSE j \in i .. Len(v) + 1 :
                   /\ j = Len(v) + 1 \/ ~Letter(v[j])
                   /\ \A k \in i .. j - 1 : Letter(v[k])

\* Fault: a $ before a blank is not passed.
FaultVarEnd(v, i) ==
  IF i < Len(v) /\ v[i + 1] \in Blanks THEN i ELSE NameEnd(v, i + 1)

\* find_var_end: the place past the name that starts with the $ at i.
VarEnd(v, i) ==
  IF i < Len(v) /\ v[i + 1] = "\"" THEN i
  ELSE IF i < Len(v) /\ v[i + 1] \in {"?", "'"} THEN i + 2
  ELSE NameEnd(v, i + 1)

\* expand_variable.
VarValue(name) ==
  IF name \in {<<>>, Dollar} THEN name
  ELSE IF name = <<"$", "?">> THEN Status
  ELSE IF Tail(name) \in DOMAIN Env THEN Env[Tail(name)] ELSE <<>>

\* expand_var_instr goes round for ever if a name is empty.
Endless(v) == \E i \in DOMAIN v : v[i] = "$" /\ VarEnd(v, i) = i

Expanded(v) ==
  LET from[i \in 1 .. Len(v) + 1] ==
        IF i > Len(v) THEN <<>>
        ELSE IF v[i] # "$" THEN <<v[i]>> \o from[i + 1]
        ELSE VarValue(SubSeq(v, i, VarEnd(v, i) - 1)) \o from[VarEnd(v, i)]
  IN from[1]

\* Fault: an empty word goes as well.
FaultDropsDollar(ts, i) ==
  /\ ts[i].value \in {<<>>, Dollar} /\ i < Len(ts)
  /\ ts[i + 1].type \in {"single", "double"} \/ ts[i].consecutive

\* A $ that is a token by itself goes if it is joined to what follows, or if a
\* quoted token follows.
DropsDollar(ts, i) ==
  /\ ts[i].value = Dollar
  /\ \/ i < Len(ts) /\ (ts[i + 1].type \in {"single", "double"} \/ ts[i].consecutive)
     \/ i = Len(ts) /\ ts[i].consecutive /\ ts[i].type = "word"

AtToken(p) == phase = p /\ cur <= Len(tokens)

\* free_single_token: the head of the list is freed under the caller, and a
\* list of one token is then searched although nothing is left of it.
DropDollar ==
  /\ AtToken("expand") /\ DropsDollar(tokens, cur)
  /\ tokens' = RemoveAt(tokens, cur)
  /\ dangling' = (dangling \/ cur = 1)
  /\ phase' = IF tokens' = <<>> THEN "undefined" ELSE phase
  /\ UNCHANGED <<line, pos, cur, commands>>

ExpandToken ==
  /\ AtToken("expand") /\ ~DropsDollar(tokens, cur)
  /\ IF tokens[cur].type \notin {"word", "double"} THEN UNCHANGED tokens
     ELSE /\ ~Endless(tokens[cur].value)
          /\ tokens' = [tokens EXCEPT ![cur].value = Expanded(@)]
  /\ cur' = cur + 1
  /\ UNCHANGED <<line, phase, pos, dangling, commands>>

\* The caller goes on from the head it had: what it reads there, once that is
\* freed, is beyond the model.
ExpansionDone ==
  /\ phase = "expand" /\ cur > Len(tokens)
  /\ phase' = IF dangling THEN "undefined" ELSE "merge"
  /\ cur' = 1
  /\ UNCHANGED <<line, pos, tokens, dangling, commands>>

-----------------------------------------------------------------------------
(* merge_consecutive_tokens, check_format_command                          *)

Merges(t) == t.consecutive /\ t.value # Dollar

Merged(t, u) == [t EXCEPT !.value = @ \o u.value, !.consecutive = u.consecutive]

MergeToken ==
  /\ phase = "merge" /\ cur < Len(tokens)
  /\ IF Merges(tokens[cur])
     THEN /\ tokens' = SubSeq(tokens, 1, cur - 1) \o << Merged(tokens[cur], tokens[cur + 1]) >>
                         \o SubSeq(tokens, cur + 2, Len(tokens))
          /\ UNCHANGED cur
     ELSE cur' = cur + 1 /\ UNCHANGED tokens
  /\ UNCHANGED <<line, phase, pos, dangling, commands>>

\* Fault: the type is read from the value again.
FaultClassified(t) == IF t.value = <<">">> THEN [t EXCEPT !.type = "out"] ELSE t

Classified(t) ==
  IF t.type = "word" /\ t.value \in CommandWords THEN [t EXCEPT !.type = "command"] ELSE t

CheckFormatCommand ==
  /\ phase = "merge" /\ cur >= Len(tokens)
  /\ tokens' = [i \in DOMAIN tokens |-> Classified(tokens[i])]
  /\ phase' = "validate" /\ cur' = 1
  /\ UNCHANGED <<line, pos, dangling, commands>>

-----------------------------------------------------------------------------
(* parse_tokens                                                            *)

TypeAt(i) == IF i \in DOMAIN tokens THEN tokens[i].type ELSE End

\* Faults: | | passes; a redirection without a file passes.
FaultBadPipe(i)     == TypeAt(i) = "pipe" /\ TypeAt(i + 1) = End
FaultBadRedirect(i) == /\ TypeAt(i) \in FileType \cup {"heredoc"}
                       /\ TypeAt(i + 1) \notin TextType \cup {End}

BadPipe(i)     == TypeAt(i) = "pipe" /\ TypeAt(i + 1) \in {End, "pipe"}
BadRedirect(i) == TypeAt(i) \in FileType \cup {"heredoc"} /\ TypeAt(i + 1) \notin TextType
BadAnd(i)      == TypeAt(i) \in {"and", "amp"} /\ TypeAt(i + 1) \in {End, "and", "pipe"}

Valid == /\ TypeAt(1) # "pipe"
         /\ \A i \in DOMAIN tokens : ~(BadPipe(i) \/ BadRedirect(i) \/ BadAnd(i))

\* parse_tokens goes on with a list it accepts, and with no command yet.
ValidateTokens ==
  /\ phase = "validate"
  /\ IF Valid THEN phase' = "parse" /\ commands' = <<NewCommand>>
              ELSE phase' = "refused" /\ UNCHANGED commands
  /\ UNCHANGED <<line, pos, tokens, cur, dangling>>

ThisToken    == tokens[cur]
ThisCommand  == Last(commands)
WithCommand(c) == commands' = Append(Front(commands), c)

ParseMoves(n) == cur' = cur + n /\ UNCHANGED <<line, phase, pos, tokens, dangling>>

\* Fault: a word before a redirection is left out unless it is the first.
FaultParseWord ==
  /\ AtToken("parse") /\ ThisToken.type \in TextType \cup {"command"}
  /\ IF ThisToken.value = <<>> \/ (ThisCommand.args # <<>> /\ TypeAt(cur + 1) \in FileType)
     THEN UNCHANGED commands
     ELSE WithCommand([ThisCommand EXCEPT !.args = Append(@, ThisToken.value)])
  /\ ParseMoves(1)

\* process_token_word leaves out an empty word.
ParseWord ==
  /\ AtToken("parse") /\ ThisToken.type \in TextType \cup {"command"}
  /\ IF ThisToken.value = <<>> THEN UNCHANGED commands
     ELSE WithCommand([ThisCommand EXCEPT !.args = Append(@, ThisToken.value)])
  /\ ParseMoves(1)

AddRedir(c, file, type) ==
  [c EXCEPT !.redirects = Append(@, [file |-> file, type |-> type])]

\* process_redirection and process_heredoc take the next token with them.
ParseRedirect ==
  /\ AtToken("parse") /\ ThisToken.type \in FileType
  /\ IF TypeAt(cur + 1) \notin TextType THEN UNCHANGED commands
     ELSE WithCommand(AddRedir(ThisCommand, tokens[cur + 1].value, ThisToken.type))
  /\ ParseMoves(2)

ParseHeredoc ==
  /\ AtToken("parse") /\ ThisToken.type = "heredoc"
  /\ IF TypeAt(cur + 1) \notin TextType THEN UNCHANGED commands
     ELSE WithCommand([ThisCommand EXCEPT !.delimiter = << tokens[cur + 1].value >>,
                                          !.expand = TypeAt(cur + 1) = "word"])
  /\ ParseMoves(2)

ParsePipe ==
  /\ AtToken("parse") /\ ThisToken.type = "pipe"
  /\ commands' = IF cur < Len(tokens) THEN Append(commands, NewCommand) ELSE commands
  /\ ParseMoves(1)

\* && and & have no case in parse_tokens: the words around them become one command.
ParseAnd ==
  /\ AtToken("parse") /\ ThisToken.type \in {"and", "amp"}
  /\ ParseMoves(1) /\ UNCHANGED commands

Parsed ==
  /\ phase = "parse" /\ cur = Len(tokens) + 1
  /\ phase' = "parsed"
  /\ UNCHANGED <<line, pos, tokens, cur, dangling, commands>>

-----------------------------------------------------------------------------
Next ==
  \/ Tokenize \/ Tokenized
  \/ DropDollar \/ ExpandToken \/ ExpansionDone
  \/ MergeToken \/ CheckFormatCommand
  \/ ValidateTokens
  \/ ParseWord \/ ParseRedirect \/ ParseHeredoc \/ ParsePipe \/ ParseAnd \/ Parsed

\* One thread runs these loops, and nothing in them waits.
Spec == Init /\ [][Next]_vars /\ WF_vars(Next)

=============================================================================
