-------------------------- MODULE SyntaxProperties --------------------------
EXTENDS Syntax

Text == Seq(STRING)

\* Type invariant: tokens and commands keep their shape, and the places at
\* which the loops work are places.
TypeOK ==
  /\ line \in Text
  /\ phase \in {"tokenize", "expand", "merge", "validate", "parse",
                "blank", "unclosed", "refused", "parsed", "undefined"}
  /\ pos \in 1 .. Len(line) + 1
  /\ tokens \in Seq([value : Text, type : TokenType, consecutive : BOOLEAN])
  /\ cur \in Nat \ {0} /\ dangling \in BOOLEAN
  /\ commands \in Seq(Command)

-----------------------------------------------------------------------------
(* The shell's reading of a line, by the rules of quoting of sh.           *)

NoQuote == "no quote"

\* The quote that is open before character i of the line, if any.
OpenQuote ==
  LET before[i \in 1 .. Len(line) + 1] ==
        IF i = 1 THEN NoQuote
        ELSE LET q == before[i - 1]  c == line[i - 1]
             IN IF q = NoQuote /\ c \in Quotes THEN c ELSE IF c = q THEN NoQuote ELSE q
  IN before

Unquoted(chars) == {i \in DOMAIN line : OpenQuote[i] = NoQuote /\ line[i] \in chars}

Closes(i) == OpenQuote[i] # NoQuote /\ line[i] = OpenQuote[i]

\* The lexemes of a line: at most one word is open, and an operator that the
\* next character may double is kept in mind.
Lexeme(kind, text) == [kind |-> kind, text |-> text]

Nothing == [open |-> FALSE, text |-> <<>>, double |-> End, lexemes |-> <<>>]

Ended(s) ==
  [s EXCEPT !.open = FALSE, !.text = <<>>, !.double = End,
            !.lexemes = IF s.open THEN Append(@, Lexeme("word", s.text)) ELSE @]

Single(c) == CASE c = "|" -> "pipe" [] c = "<" -> "in" [] OTHER -> "out"
Double(c) == IF c = "<" THEN "heredoc" ELSE "append"

ReadOperator(s, c) ==
  IF c = s.double
  THEN [Ended(s) EXCEPT !.lexemes = Append(Front(@), Lexeme(Double(c), <<>>))]
  ELSE [Ended(s) EXCEPT !.lexemes = Append(@, Lexeme(Single(c), <<>>)),
                        !.double = IF c = "|" THEN End ELSE c]

Opened(s) == [s EXCEPT !.open = TRUE, !.double = End]

Read(s, i) ==
  LET c == line[i]
      inside == OpenQuote[i] # NoQuote
  IN CASE inside /\ Closes(i)      -> s
       [] inside /\ ~Closes(i)     -> [s EXCEPT !.text = Append(@, c)]
       [] ~inside /\ c \in Quotes    -> Opened(s)
       [] ~inside /\ c \in Blanks    -> Ended(s)
       [] ~inside /\ c \in Operators -> ReadOperator(s, c)
       [] OTHER                    -> [Opened(s) EXCEPT !.text = Append(@, c)]

\* What has been read after so many characters.
Reading ==
  LET after[i \in 0 .. Len(line)] == IF i = 0 THEN Nothing ELSE Read(after[i - 1], i)
  IN after

Lexemes == Ended(Reading[Len(line)]).lexemes

KindAt(ls, i) == IF i \in DOMAIN ls THEN ls[i].kind ELSE End

WellFormed(ls) ==
  /\ KindAt(ls, 1) # "pipe"
  /\ \A i \in DOMAIN ls :
       /\ ls[i].kind = "pipe" => KindAt(ls, i + 1) \notin {"pipe", End}
       /\ ls[i].kind \notin {"pipe", "word"} => KindAt(ls, i + 1) = "word"

WithLast(cs, c) == Append(Front(cs), c)

\* The commands with those of the first i - 1 lexemes and the next; a word
\* after a redirection is its file, and every << of a command is a heredoc.
Add(ls, cs, i) ==
  LET kind == ls[i].kind
      c    == Last(cs)
  IN CASE kind = "pipe" -> Append(cs, NewCommand)
       [] kind \in FileType -> WithLast(cs, AddRedir(c, ls[i + 1].text, kind))
       [] kind = "heredoc" -> WithLast(cs, [c EXCEPT !.delimiter = Append(@, ls[i + 1].text)])
       [] kind = "word" /\ KindAt(ls, i - 1) \in FileType \cup {"heredoc"} -> cs
       [] OTHER -> WithLast(cs, [c EXCEPT !.args = Append(@, ls[i].text)])

Grouping(ls) ==
  LET after[i \in 0 .. Len(ls)] == IF i = 0 THEN <<NewCommand>> ELSE Add(ls, after[i - 1], i)
  IN after

Grouped(ls) == Grouping(ls)[Len(ls)]

\* The lines that the code reads otherwise than sh.
EmptyQuotes     == \E i \in Unquoted(Quotes) : At(i + 1) = line[i]
QuotedOperator  == \E i \in DOMAIN line : Closes(i) /\ At(i + 1) \in Operators
GluedFile       == \E i \in Unquoted(Redirects) :
                     /\ At(i + 1) \notin Operators
                     /\ FileEnd(i + 1) > i + 1 /\ At(FileEnd(i + 1)) \in Quotes
QuotesAndBlank  == \E i \in Unquoted(Quotes) : /\ i > 1 /\ ~Closes(i - 1)
                                               /\ line[i - 1] \notin Blanks \cup Operators
                                               /\ At(i + 1) \in Quotes /\ At(i + 2) \in Blanks
CommandWordFile == LET ls == Lexemes
                   IN \E i \in DOMAIN ls : /\ ls[i].text \in CommandWords
                                            /\ KindAt(ls, i - 1) \in FileType \cup {"heredoc"}
SecondHeredoc   == LET ls == Lexemes
                   IN \E i \in DOMAIN ls : \E h \in 1 .. i - 1 :
                        /\ ls[h].kind = "heredoc" /\ ls[i].kind = "heredoc"
                        /\ \A m \in h .. i : ls[m].kind # "pipe"
Beyond          == \E i \in DOMAIN line : line[i] \in {"$", "&"}

Plain == ~(Beyond \/ EmptyQuotes \/ QuotedOperator \/ GluedFile \/ QuotesAndBlank
             \/ CommandWordFile \/ SecondHeredoc)

\* A heredoc knows how its delimiter was written; sh's commands do not.
Plainly(cs) == [i \in DOMAIN cs |-> [cs[i] EXCEPT !.expand = TRUE]]

\* Apart from the cases above, tokenize, merge_consecutive_tokens and
\* parse_tokens together read every line as sh does: the same lines are blank,
\* unclosed or refused, and the others give the same words, files and
\* delimiters in the same commands.
PlainLinesRead ==
  phase \in {"blank", "unclosed", "refused", "parsed"} /\ Plain =>
    LET ls       == Lexemes
        unclosed == OpenQuote[Len(line) + 1] # NoQuote
    IN /\ phase = "unclosed" <=> unclosed
       /\ phase = "blank"    <=> ~unclosed /\ ls = <<>>
       /\ phase = "refused"  <=> ~unclosed /\ ls # <<>> /\ ~WellFormed(ls)
       /\ phase = "parsed"    => Plainly(commands) = Grouped(ls)

\* The redirections and heredocs of all commands, by command and place in it.
Redirected ==
  UNION {{i} \X (1 .. Len(commands[i].redirects) + Len(commands[i].delimiter)) :
           i \in DOMAIN commands}

\* No operator is made up: on any line, whatever its quotes and the values of
\* its variables hold, the commands and redirections are no more than the
\* unquoted operators of the line.
OperatorsAreTyped ==
  phase = "parsed" =>
    /\ Len(commands) - 1 <= Cardinality(Unquoted({"|"}))
    /\ Cardinality(Redirected) <= Cardinality(Unquoted(Redirects))

\* The places of a character in a text, in several texts, and in the words, the
\* files and the delimiters of commands.
Marks(x, v)      == {i \in DOMAIN v : v[i] = x}
Places(x, texts) == UNION {{j} \X Marks(x, texts[j]) : j \in DOMAIN texts}

Parts    == {"args", "files", "delimiter"}
Texts(c) == [args |-> c.args, files |-> [j \in DOMAIN c.redirects |-> c.redirects[j].file],
             delimiter |-> c.delimiter]

Held(x, cs) ==
  UNION {{<<i, part>>} \X Places(x, Texts(cs[i])[part]) : i \in DOMAIN cs, part \in Parts}

Seen == ToSet(line) \cup
        UNION {ToSet(FlattenSeq(Texts(commands[i])[part])) : i \in DOMAIN commands, part \in Parts}

\* Nothing is lost and nothing is made up: every letter stands in the words,
\* files and delimiters of the commands as often as in a line without variables,
\* whatever was merged, dropped or left unjoined on the way.  (Of several << in
\* one command, the last counts.)
NothingLost ==
  phase = "parsed" /\ (\A i \in DOMAIN line : line[i] # "$")
                   /\ Cardinality(Unquoted({"<"})) < 4 =>
    \A x \in Seen : Letter(x) => Cardinality(Held(x, commands)) = Cardinality(Marks(x, line))

\* A command without words and redirections, which a pipeline cannot run,
\* comes only of an empty word: validate_tokens lets none pass that the
\* operators alone make.
EmptyCommandsQuoted ==
  phase = "parsed" /\ (\E i \in DOMAIN commands : commands[i] = NewCommand) =>
    \E i \in DOMAIN tokens : tokens[i].type \in TextType /\ tokens[i].value = <<>>

\* parse_tokens never follows the end of its list, although it takes the token
\* after a redirection without a test: validate_tokens has seen to it.
ParserStaysInList == phase = "parse" => cur <= Len(tokens) + 1

\* expand_tokens frees the head of the list under its caller only for a $ that
\* the line begins with, quoted or not.
HeadStays ==
  dangling => LET i == StopAt(1, {"$"})
              IN At(i) = "$" /\ \A k \in 1 .. i - 1 : line[k] \in Blanks \cup Quotes

\* Every line is dealt with: no loop over characters, variables or tokens goes
\* round for ever.
EveryLineEnds ==
  <>(phase \in {"blank", "unclosed", "refused", "parsed", "undefined"})

=============================================================================
