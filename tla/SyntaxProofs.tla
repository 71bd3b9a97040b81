---------------------------- MODULE SyntaxProofs ----------------------------
(***************************************************************************)
(* Proofs about the lists of tokens and commands, for every set of lines,  *)
(* every environment and every set of command words.  Where the characters *)
(* of a value play no part, V stands for any set of values.                *)
(***************************************************************************)
EXTENDS SyntaxProperties, SequenceTheorems, FiniteSetTheorems, FunctionTheorems, TLAPS

\* The tokens of the lexer and the expander, none of them a command, and those
\* parse_tokens is given.
RawOf(V)   == [value : V, type : TokenType \ {"command"}, consecutive : BOOLEAN]
ReadyOf(V) == {t \in [value : V, type : TokenType, consecutive : BOOLEAN] :
                 t.type = "command" => t.value \in CommandWords}

\* The list of tokens is a list, and not empty from the expansion on.
TokensInv ==
  /\ cur \in Nat \ {0}
  /\ phase \in {"tokenize", "expand", "merge"} => \E V : tokens \in Seq(RawOf(V))
  /\ phase \in {"validate", "parse", "parsed"} => \E V : tokens \in Seq(ReadyOf(V))
  /\ phase \in {"expand", "merge", "validate", "parse", "parsed"} => Len(tokens) >= 1

-----------------------------------------------------------------------------
(* Lists of tokens *)

LEMMA RawToken ==
  ASSUME NEW v, NEW type \in TokenType \ {"command"}, NEW c \in BOOLEAN
  PROVE  Token(v, type, c) \in RawOf({v})
BY DEF Token, RawOf

LEMMA RawGrows ==
  ASSUME NEW V, NEW W, NEW s \in Seq(RawOf(V))
  PROVE  s \in Seq(RawOf(V \cup W))
<1>1. RawOf(V) \subseteq RawOf(V \cup W)
  BY DEF RawOf
<1> QED
  BY <1>1, SeqMonotonic

LEMMA OneToken ==
  ASSUME NEW v, NEW type \in TokenType \ {"command"}, NEW c \in BOOLEAN
  PROVE  << Token(v, type, c) >> \in Seq(RawOf({v})) /\ Len(<< Token(v, type, c) >>) = 1
<1> DEFINE t == Token(v, type, c)
<1>1. t \in RawOf({v})
  BY RawToken
<1> HIDE DEF t
<1>2. << t >> \in Seq(RawOf({v})) /\ Len(<< t >>) = 1
  BY <1>1
<1> QED
  BY <1>2 DEF t

LEMMA RawJoined ==
  ASSUME NEW V, NEW W, NEW s \in Seq(RawOf(V)), NEW t \in Seq(RawOf(W))
  PROVE  s \o t \in Seq(RawOf(V \cup W)) /\ Len(s \o t) = Len(s) + Len(t)
<1>1. s \in Seq(RawOf(V \cup W))
  BY RawGrows
<1>2. W \cup V = V \cup W
  OBVIOUS
<1>3. t \in Seq(RawOf(V \cup W))
  BY RawGrows, <1>2
<1> QED
  BY <1>1, <1>3, ConcatProperties

LEMMA RawAppended ==
  ASSUME NEW V, NEW s \in Seq(RawOf(V)),
         NEW v, NEW type \in TokenType \ {"command"}, NEW c \in BOOLEAN
  PROVE  Append(s, Token(v, type, c)) \in Seq(RawOf(V \cup {v}))
<1> DEFINE t == Token(v, type, c)
<1>1. s \in Seq(RawOf(V \cup {v}))
  BY RawGrows
<1>2. t \in RawOf(V \cup {v})
  BY DEF Token, RawOf
<1> HIDE DEF t
<1>3. Append(s, t) \in Seq(RawOf(V \cup {v}))
  BY <1>1, <1>2, AppendProperties
<1> QED
  BY <1>3 DEF t

LEMMA RawPart ==
  ASSUME NEW V, NEW s \in Seq(RawOf(V)), NEW m \in Nat \ {0}, NEW n \in Int, n <= Len(s)
  PROVE  /\ SubSeq(s, m, n) \in Seq(RawOf(V))
         /\ Len(SubSeq(s, m, n)) = IF m <= n THEN n - m + 1 ELSE 0
<1>1. \A i \in m .. n : s[i] \in RawOf(V)
  BY ElementOfSeq, LenProperties
<1> QED
  BY <1>1, SubSeqProperties

Changed(s, i, v) == [s EXCEPT ![i].value = v]

LEMMA RawChanged ==
  ASSUME NEW V, NEW s \in Seq(RawOf(V)), NEW i \in 1 .. Len(s), NEW v
  PROVE  /\ Changed(s, i, v) \in Seq(RawOf(V \cup {v}))
         /\ Len(Changed(s, i, v)) = Len(s)
<1> DEFINE e == [s[i] EXCEPT !.value = v]
<1>1. s \in Seq(RawOf(V \cup {v}))
  BY RawGrows
<1>2. s[i] \in RawOf(V)
  BY ElementOfSeq
<1>3. e \in RawOf(V \cup {v})
  BY <1>2 DEF RawOf
<1>4. Changed(s, i, v) = [s EXCEPT ![i] = e]
  BY DEF Changed
<1> HIDE DEF e
<1> QED
  BY <1>1, <1>3, <1>4, ExceptSeq

LEMMA RawClassified ==
  ASSUME NEW V, NEW s \in Seq(RawOf(V))
  PROVE  /\ [i \in DOMAIN s |-> Classified(s[i])] \in Seq(ReadyOf(V))
         /\ Len([i \in DOMAIN s |-> Classified(s[i])]) = Len(s)
<1> DEFINE f == [i \in DOMAIN s |-> Classified(s[i])]
<1>1. DOMAIN s = 1 .. Len(s) /\ Len(s) \in Nat
  BY LenProperties
<1>2. \A i \in 1 .. Len(s) : Classified(s[i]) \in ReadyOf(V)
  <2> TAKE i \in 1 .. Len(s)
  <2>1. s[i] \in RawOf(V)
    BY ElementOfSeq
  <2>2. CASE s[i].type = "word" /\ s[i].value \in CommandWords
    <3>1. Classified(s[i]) = [s[i] EXCEPT !.type = "command"]
      BY <2>2 DEF Classified
    <3>2. "command" \in TokenType
      BY DEF TokenType
    <3> QED
      BY <2>1, <2>2, <3>1, <3>2 DEF RawOf, ReadyOf
  <2>3. CASE ~(s[i].type = "word" /\ s[i].value \in CommandWords)
    <3>1. Classified(s[i]) = s[i]
      BY <2>3 DEF Classified
    <3> QED
      BY <2>1, <3>1 DEF RawOf, ReadyOf
  <2> QED
    BY <2>2, <2>3
<1>3. f \in [1 .. Len(s) -> ReadyOf(V)]
  BY <1>1, <1>2
<1>4. f \in Seq(ReadyOf(V))
  BY <1>1, <1>3, SeqDef
<1>5. Len(f) \in Nat /\ DOMAIN f = 1 .. Len(f)
  BY <1>4, LenProperties
<1>6. 1 .. Len(f) = 1 .. Len(s)
  BY <1>1, <1>5
<1>7. Len(f) = Len(s)
  <2>1. Len(s) >= 1 => Len(s) \in 1 .. Len(f)
    BY <1>1, <1>6
  <2>2. Len(f) >= 1 => Len(f) \in 1 .. Len(s)
    BY <1>5, <1>6
  <2> QED
    BY <1>1, <1>5, <2>1, <2>2
<1> QED
  BY <1>4, <1>7

-----------------------------------------------------------------------------
(* Steps *)

LEMMA TokenizeKeepsTokens ==
  ASSUME TokensInv, Tokenize
  PROVE  TokensInv'
<1>1. phase = "tokenize" /\ cur' = cur
  BY DEF Tokenize
<1>2. PICK V : tokens \in Seq(RawOf(V))
  BY <1>1 DEF TokensInv
<1>3. CASE Operator
  <2> DEFINE start == Start
             past  == IF Doubled(start) THEN start + 2 ELSE start + 1
             next  == IF At(start) \in Redirects THEN FileEnd(past) ELSE past
             value == SubSeq(line, start, past - 1)
             file  == SubSeq(line, past, next - 1)
             op    == << Token(value, OperatorType(start), FALSE) >>
             rest  == IF file = <<>> THEN <<>> ELSE << Token(file, "word", FALSE) >>
  <2>1. /\ At(start) \in Operators
        /\ tokens' = tokens \o op \o rest
        /\ phase' = phase
    BY <1>3 DEF Operator
  <2>2. OperatorType(start) \in TokenType \ {"command"}
    BY <2>1 DEF OperatorType, TokenType, Operators, Redirects
  <2>3. op \in Seq(RawOf({value}))
    BY <2>2, OneToken
  <2>4. rest \in Seq(RawOf({file}))
    <3>1. "word" \in TokenType \ {"command"} /\ FALSE \in BOOLEAN
      BY DEF TokenType
    <3>2. << Token(file, "word", FALSE) >> \in Seq(RawOf({file}))
      BY <3>1, OneToken
    <3>3. <<>> \in Seq(RawOf({file}))
      BY EmptySeq
    <3> HIDE DEF file
    <3> QED
      BY <3>2, <3>3
  <2> HIDE DEF op, rest, value, file, next, past, start
  <2>5. tokens' \in Seq(RawOf((V \cup {value}) \cup {file}))
    BY <1>2, <2>1, <2>3, <2>4, RawJoined
  <2> QED
    BY <1>1, <2>1, <2>5 DEF TokensInv
<1>4. CASE Word
  <2> DEFINE start == Start
             next  == StopAt(start, Blanks \cup Operators \cup Quotes)
             value == SubSeq(line, start, next - 1)
  <2>1. /\ tokens' = IF next = start THEN tokens
                     ELSE Append(tokens, Token(value, "word", JoinsWord(next)))
        /\ phase' = phase
    BY <1>4 DEF Word
  <2>2. JoinsWord(next) \in BOOLEAN /\ "word" \in TokenType \ {"command"}
    BY DEF JoinsWord, TokenType
  <2> HIDE DEF value, next, start
  <2>3. Append(tokens, Token(value, "word", JoinsWord(next))) \in Seq(RawOf(V \cup {value}))
    BY <1>2, <2>2, RawAppended
  <2> QED
    BY <1>1, <1>2, <2>1, <2>3 DEF TokensInv
<1>5. CASE Quoted
  <2> DEFINE i == Start + 1
             type == IF At(i - 1) = "'" THEN "single" ELSE "double"
             value == QuotedText(i)
             joins == JoinsQuoted(PastQuoted(i))
  <2>1. tokens' = Append(tokens, Token(value, type, joins)) /\ phase' = phase
    BY <1>5 DEF Quoted
  <2>2. joins \in BOOLEAN /\ type \in TokenType \ {"command"}
    BY DEF JoinsQuoted, TokenType
  <2> HIDE DEF value, joins, type, i
  <2>3. tokens' \in Seq(RawOf(V \cup {value}))
    BY <1>2, <2>1, <2>2, RawAppended
  <2> QED
    BY <1>1, <2>1, <2>3 DEF TokensInv
<1>6. CASE Unclosed
  <2>1. phase' = "unclosed"
    BY <1>6 DEF Unclosed
  <2> QED
    BY <1>1, <2>1 DEF TokensInv
<1> QED
  BY <1>3, <1>4, <1>5, <1>6 DEF Tokenize

LEMMA ExpandKeepsTokens ==
  ASSUME TokensInv, Tokenized \/ DropDollar \/ ExpandToken \/ ExpansionDone
  PROVE  TokensInv'
<1>1. PICK V : tokens \in Seq(RawOf(V))
  BY DEF TokensInv, Tokenized, DropDollar, ExpandToken, ExpansionDone, AtToken
<1>2. cur \in Nat \ {0} /\ Len(tokens) \in Nat
  BY <1>1, LenProperties DEF TokensInv
<1>3. CASE Tokenized
  <2>1. CASE tokens = <<>>
    BY <1>2, <1>3, <2>1 DEF Tokenized, TokensInv
  <2>2. CASE tokens # <<>>
    <3>1. Len(tokens) >= 1
      BY <1>1, <1>2, <2>2, EmptySeq
    <3> QED
      BY <1>1, <1>2, <1>3, <2>2, <3>1 DEF Tokenized, TokensInv
  <2> QED
    BY <2>1, <2>2
<1>4. CASE DropDollar
  <2> DEFINE s == SubSeq(tokens, 1, cur - 1)  t == SubSeq(tokens, cur + 1, Len(tokens))
  <2>1. /\ phase = "expand" /\ cur <= Len(tokens) /\ cur' = cur
        /\ tokens' = s \o t
        /\ phase' = IF tokens' = <<>> THEN "undefined" ELSE phase
    BY <1>4 DEF DropDollar, AtToken, RemoveAt
  <2>2. s \in Seq(RawOf(V)) /\ t \in Seq(RawOf(V))
    BY <1>1, <1>2, <2>1, RawPart
  <2> HIDE DEF s, t
  <2>3. tokens' \in Seq(RawOf(V))
    BY <2>1, <2>2, ConcatProperties
  <2>4. CASE tokens' = <<>>
    BY <1>2, <2>1, <2>4 DEF TokensInv
  <2>5. CASE tokens' # <<>>
    <3>1. Len(tokens') >= 1
      BY <2>3, <2>5, EmptySeq
    <3> QED
      BY <1>2, <2>1, <2>3, <2>5, <3>1 DEF TokensInv
  <2> QED
    BY <2>4, <2>5
<1>5. CASE ExpandToken
  <2>1. /\ phase = "expand" /\ phase' = "expand" /\ cur \in 1 .. Len(tokens) /\ cur' = cur + 1
        /\ tokens' = tokens \/ tokens' = Changed(tokens, cur, Expanded(tokens[cur].value))
    BY <1>2, <1>5 DEF ExpandToken, AtToken, Changed
  <2>2. Len(tokens) >= 1
    BY <2>1 DEF TokensInv
  <2>3. \E W : tokens' \in Seq(RawOf(W)) /\ Len(tokens') = Len(tokens)
    <3> DEFINE v == Expanded(tokens[cur].value)
    <3> HIDE DEF v
    <3>1. /\ Changed(tokens, cur, v) \in Seq(RawOf(V \cup {v}))
          /\ Len(Changed(tokens, cur, v)) = Len(tokens)
      BY <1>1, <2>1, RawChanged, Zenon
    <3> QED
      BY <1>1, <2>1, <3>1 DEF v
  <2> QED
    BY <1>2, <2>1, <2>2, <2>3 DEF TokensInv
<1>6. CASE ExpansionDone
  BY <1>1, <1>6 DEF ExpansionDone, TokensInv
<1> QED
  BY <1>3, <1>4, <1>5, <1>6

LEMMA MergeKeepsTokens ==
  ASSUME TokensInv, MergeToken \/ CheckFormatCommand
  PROVE  TokensInv'
<1>1. phase = "merge" /\ Len(tokens) >= 1
  BY DEF TokensInv, MergeToken, CheckFormatCommand
<1>2. PICK V : tokens \in Seq(RawOf(V))
  BY <1>1 DEF TokensInv
<1>3. cur \in Nat \ {0} /\ Len(tokens) \in Nat
  BY <1>2, LenProperties DEF TokensInv
<1>4. CASE MergeToken /\ Merges(tokens[cur])
  <2> DEFINE s == SubSeq(tokens, 1, cur - 1)
             t == Merged(tokens[cur], tokens[cur + 1])
             u == SubSeq(tokens, cur + 2, Len(tokens))
             o == << t >>
  <2>1. /\ cur < Len(tokens) /\ tokens' = (s \o o) \o u
        /\ cur' = cur /\ phase' = phase
    BY <1>4 DEF MergeToken
  <2>2. s \in Seq(RawOf(V)) /\ u \in Seq(RawOf(V))
    BY <1>2, <1>3, <2>1, RawPart
  <2>3. tokens[cur] \in RawOf(V) /\ tokens[cur + 1] \in RawOf(V)
    <3>1. cur \in 1 .. Len(tokens) /\ cur + 1 \in 1 .. Len(tokens)
      BY <1>3, <2>1
    <3> QED
      BY <1>2, <3>1, ElementOfSeq
  <2>4. PICK W : t \in RawOf(W)
    <3> DEFINE v == tokens[cur].value \o tokens[cur + 1].value
    <3>1. t = [tokens[cur] EXCEPT !.value = v, !.consecutive = tokens[cur + 1].consecutive]
      BY DEF Merged
    <3> HIDE DEF v, t
    <3>2. t \in RawOf({v})
      BY <2>3, <3>1 DEF RawOf
    <3> QED
      BY <3>2
  <2> HIDE DEF s, t, u
  <2>5. o \in Seq(RawOf(W)) /\ Len(o) = 1
    BY <2>4
  <2> HIDE DEF o
  <2>6. s \o o \in Seq(RawOf(V \cup W)) /\ Len(s \o o) = Len(s) + Len(o)
    <3>1. s \in Seq(RawOf(V)) /\ o \in Seq(RawOf(W))
      BY <2>2, <2>5
    <3> QED
      BY ONLY <3>1, RawJoined
  <2>7. /\ (s \o o) \o u \in Seq(RawOf((V \cup W) \cup V))
        /\ Len((s \o o) \o u) = Len(s \o o) + Len(u)
    BY <2>2, <2>6, RawJoined
  <2>8. Len(s) \in Nat /\ Len(u) \in Nat
    BY <2>2, LenProperties
  <2>9. Len(tokens') >= 1
    BY <2>1, <2>5, <2>6, <2>7, <2>8
  <2> QED
    BY <1>1, <1>3, <2>1, <2>7, <2>9 DEF TokensInv
<1>5. CASE MergeToken /\ ~Merges(tokens[cur])
  BY <1>1, <1>2, <1>3, <1>5 DEF MergeToken, TokensInv
<1>6. CASE CheckFormatCommand
  <2>1. tokens' \in Seq(ReadyOf(V)) /\ Len(tokens') = Len(tokens)
    BY <1>2, <1>6, RawClassified DEF CheckFormatCommand
  <2> QED
    BY <1>1, <1>6, <2>1 DEF CheckFormatCommand, TokensInv
<1> QED
  BY <1>4, <1>5, <1>6

LEMMA ParseKeepsTokens ==
  ASSUME TokensInv,
         ValidateTokens \/ ParseWord \/ ParseRedirect \/ ParseHeredoc \/ ParsePipe
           \/ ParseAnd \/ Parsed
  PROVE  TokensInv'
<1>1. /\ phase \in {"validate", "parse"} /\ phase' \in {"refused", "parse", "parsed"}
      /\ tokens' = tokens /\ cur' \in {cur, cur + 1, cur + 2}
  BY DEF ValidateTokens, ParseWord, ParseRedirect, ParseHeredoc, ParsePipe, ParseAnd, Parsed,
         ParseMoves, AtToken
<1>2. cur' \in Nat \ {0}
  BY <1>1 DEF TokensInv
<1> QED
  BY <1>1, <1>2 DEF TokensInv

LEMMA TokensAreKept ==
  ASSUME TokensInv, [Next]_vars
  PROVE  TokensInv'
<1>1. CASE UNCHANGED vars
  BY <1>1 DEF TokensInv, vars
<1> QED
  BY <1>1, TokenizeKeepsTokens, ExpandKeepsTokens, MergeKeepsTokens, ParseKeepsTokens DEF Next

-----------------------------------------------------------------------------
(* The list of commands *)

Values == {tokens[i].value : i \in 1 .. Len(tokens)}

CommandOf(V) == [args : Seq(V), redirects : Seq([file : V, type : FileType]),
                 delimiter : Seq(V), expand : BOOLEAN]

EmptyText == \E i \in DOMAIN tokens : tokens[i].type \in TextType /\ tokens[i].value = <<>>

\* While the list is parsed it is one that validate_tokens accepts, and a new
\* command is empty only as long as nothing but operators has followed it.
ParseInv ==
  /\ phase = "validate" => cur = 1
  /\ phase \in {"parse", "parsed"} =>
       /\ Valid /\ cur <= Len(tokens) + 1
       /\ phase = "parsed" => cur = Len(tokens) + 1
       /\ commands \in Seq(CommandOf(Values)) /\ Len(commands) >= 1
       /\ ~EmptyText =>
            \A i \in 1 .. Len(commands) : commands[i] = NewCommand =>
              i = Len(commands) /\ (cur = 1 \/ TypeAt(cur - 1) \in {"pipe", "and", "amp"})

LEMMA LastReplaced ==
  ASSUME NEW S, NEW s \in Seq(S), Len(s) >= 1, NEW c \in S
  PROVE  /\ Last(s) \in S /\ Last(s) = s[Len(s)]
         /\ Append(Front(s), c) \in Seq(S)
         /\ Len(Append(Front(s), c)) = Len(s)
         /\ \A i \in 1 .. Len(s) : Append(Front(s), c)[i] = IF i = Len(s) THEN c ELSE s[i]
<1>1. Len(s) \in Nat /\ \A i \in 1 .. Len(s) : s[i] \in S
  BY LenProperties, ElementOfSeq
<1>2. /\ Front(s) \in Seq(S) /\ Len(Front(s)) = Len(s) - 1
      /\ \A i \in 1 .. Len(s) - 1 : Front(s)[i] = s[i]
  <2> DEFINE n == Len(s) - 1
  <2>1. n \in Nat /\ \A i \in 1 .. n : s[i] \in S
    BY <1>1
  <2>2. Front(s) = SubSeq(s, 1, n)
    BY DEF Front
  <2> HIDE DEF n
  <2>3. /\ SubSeq(s, 1, n) \in Seq(S)
        /\ Len(SubSeq(s, 1, n)) = IF 1 <= n THEN n - 1 + 1 ELSE 0
        /\ \A i \in 1 .. n - 1 + 1 : SubSeq(s, 1, n)[i] = s[1 + i - 1]
    BY <2>1, SubSeqProperties
  <2>4. Front(s) \in Seq(S) /\ Len(Front(s)) = n /\ \A i \in 1 .. n : Front(s)[i] = s[i]
    BY <2>1, <2>2, <2>3
  <2> QED
    BY <2>4 DEF n
<1>3. Last(s) = s[Len(s)] /\ Last(s) \in S
  BY <1>1 DEF Last
<1>4. /\ Append(Front(s), c) \in Seq(S)
      /\ Len(Append(Front(s), c)) = Len(Front(s)) + 1
      /\ \A i \in 1 .. Len(Front(s)) : Append(Front(s), c)[i] = Front(s)[i]
      /\ Append(Front(s), c)[Len(Front(s)) + 1] = c
  BY <1>2, AppendProperties
<1> QED
  BY <1>1, <1>2, <1>3, <1>4

LEMMA ReplacementIsLast ==
  ASSUME NEW S, NEW s \in Seq(S), Len(s) >= 1, NEW c \in S
  PROVE  Last(Append(Front(s), c)) = c
<1> DEFINE q == Append(Front(s), c)
<1>1. /\ q \in Seq(S) /\ Len(q) = Len(s) /\ Len(s) \in Nat /\ Len(s) \in 1 .. Len(s)
      /\ q[Len(s)] = c
  <2>1. Len(s) \in Nat /\ Len(s) \in 1 .. Len(s)
    BY LenProperties
  <2> QED
    BY <2>1, LastReplaced
<1> HIDE DEF q
<1>2. Last(q) = c
  BY <1>1 DEF Last
<1> QED
  BY <1>2 DEF q

\* At the token that is parsed: its place, its type, and where its value is.
LEMMA AtThisToken ==
  ASSUME TokensInv, AtToken("parse")
  PROVE  /\ cur \in 1 .. Len(tokens) /\ Len(tokens) \in Nat /\ DOMAIN tokens = 1 .. Len(tokens)
         /\ TypeAt(cur) = ThisToken.type
         /\ ThisToken.value \in Values
         /\ ThisToken.type = "command" => ThisToken.value \in CommandWords
         /\ ThisToken.type \in TokenType
<1>1. PICK V : tokens \in Seq(ReadyOf(V))
  BY DEF TokensInv, AtToken
<1>2. /\ cur \in 1 .. Len(tokens) /\ Len(tokens) \in Nat /\ DOMAIN tokens = 1 .. Len(tokens)
  BY <1>1, LenProperties DEF TokensInv, AtToken
<1>3. tokens[cur] \in ReadyOf(V)
  BY <1>1, <1>2, ElementOfSeq
<1> QED
  BY <1>2, <1>3 DEF ReadyOf, ThisToken, TypeAt, Values

\* After a redirection or a heredoc that validate_tokens accepts comes a text.
LEMMA TextFollows ==
  ASSUME TokensInv, AtToken("parse"), Valid,
         ThisToken.type \in FileType \cup {"heredoc"}
  PROVE  /\ TypeAt(cur + 1) \in TextType
         /\ cur + 1 \in 1 .. Len(tokens)
         /\ tokens[cur + 1].value \in Values
         /\ TypeAt(cur + 1) = tokens[cur + 1].type
<1>1. /\ cur \in 1 .. Len(tokens) /\ Len(tokens) \in Nat /\ DOMAIN tokens = 1 .. Len(tokens)
      /\ TypeAt(cur) = ThisToken.type
  BY AtThisToken
<1>2. TypeAt(cur + 1) \in TextType
  BY <1>1 DEF Valid, BadRedirect
<1>3. cur + 1 \in 1 .. Len(tokens)
  BY <1>1, <1>2 DEF TypeAt, TextType, End
<1> QED
  BY <1>1, <1>2, <1>3 DEF TypeAt, Values

\* What depends on the tokens alone stays while they are parsed.
LEMMA TokensFixed ==
  ASSUME tokens' = tokens
  PROVE  /\ Valid' = Valid /\ Values' = Values /\ EmptyText' = EmptyText
         /\ \A i : TypeAt(i)' = TypeAt(i)
BY DEF Valid, BadPipe, BadRedirect, BadAnd, TypeAt, Values, EmptyText

LEMMA CommandsAre ==
  ASSUME TokensInv, ParseInv, AtToken("parse")
  PROVE  /\ phase = "parse" /\ Valid
         /\ commands \in Seq(CommandOf(Values)) /\ Len(commands) >= 1 /\ Len(commands) \in Nat
         /\ ThisCommand \in CommandOf(Values) /\ ThisCommand = commands[Len(commands)]
<1>1. /\ phase = "parse" /\ Valid
      /\ commands \in Seq(CommandOf(Values)) /\ Len(commands) >= 1
  BY DEF ParseInv, AtToken
<1>2. Len(commands) \in Nat /\ Len(commands) \in 1 .. Len(commands)
  BY <1>1, LenProperties
<1>3. commands[Len(commands)] \in CommandOf(Values)
  BY <1>1, <1>2, ElementOfSeq
<1> QED
  BY <1>1, <1>2, <1>3 DEF ThisCommand, Last

\* A step that changes the last command to one that is not empty.
LEMMA CommandGrows ==
  ASSUME TokensInv, ParseInv, AtToken("parse"),
         NEW c \in CommandOf(Values), c # NewCommand, WithCommand(c),
         NEW n \in {1, 2}, ParseMoves(n), cur + n <= Len(tokens) + 1
  PROVE  ParseInv'
<1>1. /\ phase = "parse" /\ phase' = "parse" /\ cur' = cur + n /\ tokens' = tokens
  BY DEF ParseMoves, AtToken
<1>2. /\ commands \in Seq(CommandOf(Values)) /\ Len(commands) >= 1 /\ Len(commands) \in Nat
      /\ Valid
  BY CommandsAre
<1>3. /\ commands' \in Seq(CommandOf(Values)) /\ Len(commands') = Len(commands)
      /\ \A i \in 1 .. Len(commands) : commands'[i] = IF i = Len(commands) THEN c ELSE commands[i]
  BY <1>2, LastReplaced DEF WithCommand
<1>4. ~EmptyText => \A i \in 1 .. Len(commands) : commands'[i] # NewCommand
  BY <1>1, <1>3 DEF ParseInv
<1>5. /\ Valid' = Valid /\ Values' = Values /\ EmptyText' = EmptyText
  BY <1>1, TokensFixed
<1> QED
  BY <1>1, <1>2, <1>3, <1>4, <1>5 DEF ParseInv

LEMMA WordKeepsCommands ==
  ASSUME TokensInv, ParseInv, ParseWord
  PROVE  ParseInv'
<1>1. AtToken("parse") /\ ThisToken.type \in TextType \cup {"command"} /\ ParseMoves(1)
  BY DEF ParseWord
<1>2. /\ cur \in 1 .. Len(tokens) /\ Len(tokens) \in Nat /\ DOMAIN tokens = 1 .. Len(tokens)
      /\ ThisToken.value \in Values
      /\ ThisToken.type = "command" => ThisToken.value \in CommandWords
  BY <1>1, AtThisToken
<1>3. CASE ThisToken.value = <<>>
  <2>1. EmptyText
    BY <1>1, <1>2, <1>3, SyntaxAssumption DEF EmptyText, ThisToken
  <2>2. /\ phase = "parse" /\ phase' = "parse" /\ cur' = cur + 1 /\ tokens' = tokens
        /\ commands' = commands
    BY <1>1, <1>3 DEF ParseWord, ParseMoves, AtToken
  <2>3. Valid' = Valid /\ Values' = Values /\ EmptyText' = EmptyText
    BY <2>2, TokensFixed
  <2> QED
    BY <1>2, <2>1, <2>2, <2>3 DEF ParseInv
<1>4. CASE ThisToken.value # <<>>
  <2> DEFINE v == ThisToken.value
             c == [ThisCommand EXCEPT !.args = Append(@, v)]
  <2>1. WithCommand(c)
    BY <1>4 DEF ParseWord
  <2>2. ThisCommand \in CommandOf(Values) /\ ThisCommand.args \in Seq(Values)
    BY <1>1, CommandsAre DEF CommandOf
  <2> HIDE DEF v
  <2>3. Append(ThisCommand.args, v) \in Seq(Values) /\ Append(ThisCommand.args, v) # <<>>
    <3>1. v \in Values
      BY <1>2 DEF v
    <3>2. /\ Append(ThisCommand.args, v) \in Seq(Values)
          /\ Len(Append(ThisCommand.args, v)) = Len(ThisCommand.args) + 1
      BY <2>2, <3>1, AppendProperties
    <3>3. Len(ThisCommand.args) \in Nat /\ Len(<<>>) = 0
      BY <2>2, LenProperties, EmptySeq
    <3> QED
      BY <3>2, <3>3
  <2> DEFINE a == Append(ThisCommand.args, v)
  <2>4. c = [ThisCommand EXCEPT !.args = a]
    OBVIOUS
  <2> HIDE DEF a
  <2>5. c \in CommandOf(Values) /\ c.args = a
    BY <2>2, <2>3, <2>4 DEF CommandOf, a
  <2>6. c # NewCommand
    BY <2>3, <2>5 DEF NewCommand, a
  <2> HIDE DEF c
  <2> QED
    BY <1>1, <1>2, <2>1, <2>5, <2>6, CommandGrows
<1> QED
  BY <1>3, <1>4

LEMMA RedirectKeepsCommands ==
  ASSUME TokensInv, ParseInv, ParseRedirect
  PROVE  ParseInv'
<1>1. AtToken("parse") /\ ThisToken.type \in FileType /\ ParseMoves(2)
  BY DEF ParseRedirect
<1>2. cur \in 1 .. Len(tokens) /\ Len(tokens) \in Nat
  BY <1>1, AtThisToken
<1>3. Valid /\ ThisCommand \in CommandOf(Values)
  BY <1>1, CommandsAre
<1>4. TypeAt(cur + 1) \in TextType /\ cur + 1 \in 1 .. Len(tokens) /\ tokens[cur + 1].value \in Values
  BY <1>1, <1>3, TextFollows
<1> DEFINE r == [file |-> tokens[cur + 1].value, type |-> ThisToken.type]
           a == Append(ThisCommand.redirects, r)
           c == [ThisCommand EXCEPT !.redirects = a]
<1>5. WithCommand(c)
  BY <1>4 DEF ParseRedirect, AddRedir
<1>6. a \in Seq([file : Values, type : FileType]) /\ a # <<>>
  <2>1. r \in [file : Values, type : FileType]
    BY <1>1, <1>4
  <2>2. ThisCommand.redirects \in Seq([file : Values, type : FileType])
    BY <1>3 DEF CommandOf
  <2> HIDE DEF r
  <2>3. a \in Seq([file : Values, type : FileType]) /\ Len(a) = Len(ThisCommand.redirects) + 1
    BY <2>1, <2>2, AppendProperties
  <2>4. Len(ThisCommand.redirects) \in Nat /\ Len(<<>>) = 0
    BY <2>2, LenProperties, EmptySeq
  <2> HIDE DEF a
  <2> QED
    BY <2>3, <2>4
<1> HIDE DEF a
<1>7. c \in CommandOf(Values) /\ c.redirects = a
  BY <1>3, <1>6 DEF CommandOf
<1>8. c # NewCommand
  BY <1>6, <1>7 DEF NewCommand
<1> HIDE DEF c
<1> QED
  BY <1>1, <1>2, <1>4, <1>5, <1>7, <1>8, CommandGrows

LEMMA HeredocKeepsCommands ==
  ASSUME TokensInv, ParseInv, ParseHeredoc
  PROVE  ParseInv'
<1>1. AtToken("parse") /\ ThisToken.type = "heredoc" /\ ParseMoves(2)
  BY DEF ParseHeredoc
<1>2. cur \in 1 .. Len(tokens) /\ Len(tokens) \in Nat
  BY <1>1, AtThisToken
<1>3. Valid /\ ThisCommand \in CommandOf(Values)
  BY <1>1, CommandsAre
<1>4. TypeAt(cur + 1) \in TextType /\ cur + 1 \in 1 .. Len(tokens) /\ tokens[cur + 1].value \in Values
  BY <1>1, <1>3, TextFollows
<1> DEFINE v == tokens[cur + 1].value
           d == << v >>
           e == TypeAt(cur + 1) = "word"
           c == [ThisCommand EXCEPT !.delimiter = d, !.expand = e]
<1>5. WithCommand(c)
  BY <1>4 DEF ParseHeredoc
<1>6. d \in Seq(Values) /\ d # <<>> /\ e \in BOOLEAN
  <2> HIDE DEF v
  <2>1. v \in Values
    BY <1>4 DEF v
  <2> QED
    BY <2>1
<1> HIDE DEF d, e, v
<1>7. c \in CommandOf(Values) /\ c.delimiter = d
  BY <1>3, <1>6 DEF CommandOf
<1>8. c # NewCommand
  BY <1>6, <1>7 DEF NewCommand
<1> HIDE DEF c
<1> QED
  BY <1>1, <1>2, <1>4, <1>5, <1>7, <1>8, CommandGrows

LEMMA OperatorKeepsCommands ==
  ASSUME TokensInv, ParseInv, ParsePipe \/ ParseAnd
  PROVE  ParseInv'
<1>1. /\ AtToken("parse") /\ ParseMoves(1)
      /\ ThisToken.type \in {"pipe", "and", "amp"}
  BY DEF ParsePipe, ParseAnd
<1>2. /\ cur \in 1 .. Len(tokens) /\ Len(tokens) \in Nat /\ DOMAIN tokens = 1 .. Len(tokens)
      /\ TypeAt(cur) = ThisToken.type
  BY <1>1, AtThisToken
<1>3. /\ phase = "parse" /\ Valid
      /\ commands \in Seq(CommandOf(Values)) /\ Len(commands) >= 1 /\ Len(commands) \in Nat
  BY <1>1, CommandsAre
<1>4. phase' = "parse" /\ cur' = cur + 1 /\ tokens' = tokens
  BY <1>1, <1>3 DEF ParseMoves
<1>5. /\ Valid' = Valid /\ Values' = Values /\ EmptyText' = EmptyText
      /\ TypeAt(cur - 1)' = ThisToken.type
  <2>1. cur' - 1 = cur
    BY <1>2, <1>4
  <2>2. TypeAt(cur - 1)' = TypeAt(cur)
    BY <1>4, <2>1 DEF TypeAt
  <2> QED
    BY <1>2, <1>4, <2>2, TokensFixed
<1>6. CASE commands' = commands
  BY <1>1, <1>2, <1>3, <1>4, <1>5, <1>6 DEF ParseInv
<1>7. CASE ParsePipe /\ commands' = Append(commands, NewCommand)
  <2>1. ThisToken.type = "pipe"
    BY <1>7 DEF ParsePipe
  <2>2. ~EmptyText => \A i \in 1 .. Len(commands) : commands[i] # NewCommand
    <3> SUFFICES ASSUME ~EmptyText, NEW i \in 1 .. Len(commands), commands[i] = NewCommand
                 PROVE  FALSE
      OBVIOUS
    <3>1. cur = 1 \/ TypeAt(cur - 1) \in {"pipe", "and", "amp"}
      BY <1>3 DEF ParseInv
    <3>2. cur # 1
      BY <1>2, <1>3, <2>1 DEF Valid
    <3>3. cur - 1 \in DOMAIN tokens /\ TypeAt(cur - 1 + 1) = "pipe"
      BY <1>2, <2>1, <3>2
    <3>4. ~(BadPipe(cur - 1) \/ BadAnd(cur - 1))
      BY <1>3, <3>3 DEF Valid
    <3> QED
      BY <3>1, <3>2, <3>3, <3>4 DEF BadPipe, BadAnd
  <2>3. NewCommand \in CommandOf(Values)
    <3>1. /\ <<>> \in Seq(Values) /\ <<>> \in Seq([file : Values, type : FileType])
      BY EmptySeq
    <3> QED
      BY <3>1 DEF NewCommand, CommandOf
  <2> DEFINE n == NewCommand
  <2> HIDE DEF n
  <2>4. /\ Append(commands, n) \in Seq(CommandOf(Values))
        /\ Len(Append(commands, n)) = Len(commands) + 1
        /\ \A i \in 1 .. Len(commands) : Append(commands, n)[i] = commands[i]
    BY <1>3, <2>3, AppendProperties DEF n
  <2>5. /\ commands' \in Seq(CommandOf(Values)) /\ Len(commands') = Len(commands) + 1
        /\ \A i \in 1 .. Len(commands) : commands'[i] = commands[i]
    BY <1>7, <2>4 DEF n
  <2>6. ~EmptyText => \A i \in 1 .. Len(commands') : commands'[i] = NewCommand => i = Len(commands')
    BY <1>3, <2>2, <2>5
  <2> QED
    BY <1>1, <1>2, <1>3, <1>4, <1>5, <2>5, <2>6 DEF ParseInv
<1> QED
  BY <1>6, <1>7 DEF ParsePipe, ParseAnd

LEMMA ValidateStartsCommands ==
  ASSUME TokensInv, ParseInv, ValidateTokens
  PROVE  ParseInv'
<1>1. phase = "validate" /\ cur = 1 /\ cur' = 1 /\ tokens' = tokens
  BY DEF ValidateTokens, ParseInv
<1>2. CASE ~Valid
  BY <1>2 DEF ValidateTokens, ParseInv
<1>3. CASE Valid
  <2>1. phase' = "parse" /\ commands' = << NewCommand >>
    BY <1>3 DEF ValidateTokens
  <2>2. NewCommand \in CommandOf(Values)
    <3>1. <<>> \in Seq(Values) /\ <<>> \in Seq([file : Values, type : FileType])
      BY EmptySeq
    <3> QED
      BY <3>1 DEF NewCommand, CommandOf
  <2> DEFINE n == NewCommand  s == << n >>
  <2> HIDE DEF n
  <2>3. s \in Seq(CommandOf(Values)) /\ Len(s) = 1
    BY <2>2 DEF n
  <2>4. commands' = s
    BY <2>1 DEF n
  <2>5. Len(tokens) \in Nat /\ Len(tokens) >= 1
    <3>1. PICK V : tokens \in Seq(ReadyOf(V))
      BY <1>1 DEF TokensInv
    <3> QED
      BY <1>1, <3>1, LenProperties DEF TokensInv
  <2>6. Valid' = Valid /\ Values' = Values
    BY <1>1, TokensFixed
  <2> HIDE DEF s
  <2> QED
    BY <1>1, <1>3, <2>1, <2>3, <2>4, <2>5, <2>6 DEF ParseInv
<1> QED
  BY <1>2, <1>3

LEMMA ParsedKeepsCommands ==
  ASSUME TokensInv, ParseInv, Parsed
  PROVE  ParseInv'
<1>1. /\ phase = "parse" /\ phase' = "parsed" /\ cur = Len(tokens) + 1
      /\ cur' = cur /\ tokens' = tokens /\ commands' = commands
  BY DEF Parsed
<1>2. /\ Valid' = Valid /\ Values' = Values /\ EmptyText' = EmptyText
      /\ TypeAt(cur - 1)' = TypeAt(cur - 1)
  BY <1>1, TokensFixed DEF TypeAt
<1> QED
  BY <1>1, <1>2 DEF ParseInv

LEMMA CommandsAreKept ==
  ASSUME TokensInv, ParseInv, [Next]_vars
  PROVE  ParseInv'
<1>1. CASE UNCHANGED vars
  <2>1. phase' = phase /\ cur' = cur /\ tokens' = tokens /\ commands' = commands
    BY <1>1 DEF vars
  <2>2. /\ Valid' = Valid /\ Values' = Values /\ EmptyText' = EmptyText
        /\ TypeAt(cur - 1)' = TypeAt(cur - 1)
    BY <2>1, TokensFixed DEF TypeAt
  <2> QED
    BY <2>1, <2>2 DEF ParseInv
<1>2. CASE Tokenize
  <2>1. phase' \in {"tokenize", "unclosed"}
    BY <1>2 DEF Tokenize, Operator, Word, Quoted, Unclosed
  <2> QED
    BY <2>1 DEF ParseInv
<1>3. CASE Tokenized \/ DropDollar \/ ExpandToken \/ ExpansionDone \/ MergeToken
  <2>1. phase' \in {"blank", "expand", "undefined", "merge"}
    BY <1>3 DEF Tokenized, DropDollar, ExpandToken, ExpansionDone, MergeToken, AtToken
  <2> QED
    BY <2>1 DEF ParseInv
<1>4. CASE CheckFormatCommand
  BY <1>4 DEF CheckFormatCommand, ParseInv
<1> QED
  BY <1>1, <1>2, <1>3, <1>4, ValidateStartsCommands, WordKeepsCommands, RedirectKeepsCommands,
     HeredocKeepsCommands, OperatorKeepsCommands, ParsedKeepsCommands DEF Next

-----------------------------------------------------------------------------
(* The characters of a line *)

LEMMA LeastElement ==
  ASSUME NEW T \in SUBSET Nat, T # {}
  PROVE  \E x \in T : \A y \in T : x <= y
<1>1. IsWellFoundedOn(OpToRel(<, Nat), Nat)
  BY ONLY NatLessThanWellFounded, Zenon
<1>2. \E x \in T : \A y \in T : ~ (<<y, x>> \in OpToRel(<, Nat))
  BY <1>1, WFMin, Zenon
<1>3. PICK x \in T : \A y \in T : ~ (<<y, x>> \in OpToRel(<, Nat))
  BY <1>2, Zenon
<1>4. \A y \in T : ~ (y < x)
  BY <1>3 DEF OpToRel
<1> QED
  BY <1>4

Characters == STRING \ {End}

LEMMA LineIs ==
  ASSUME line \in Seq(Characters)
  PROVE  /\ Len(line) \in Nat /\ DOMAIN line = 1 .. Len(line)
         /\ \A i \in 1 .. Len(line) : At(i) = line[i] /\ line[i] \in STRING /\ At(i) # End
         /\ \A i \in Int : i > Len(line) => At(i) = End
<1>1. /\ Len(line) \in Nat /\ DOMAIN line = 1 .. Len(line)
      /\ \A i \in 1 .. Len(line) : line[i] \in Characters
  BY LenProperties, ElementOfSeq
<1> QED
  BY <1>1 DEF At, Characters

LEMMA StopAtIs ==
  ASSUME line \in Seq(Characters), NEW i \in 1 .. Len(line) + 1, NEW S
  PROVE  /\ StopAt(i, S) \in i .. Len(line) + 1
         /\ At(StopAt(i, S)) \in S \cup {End}
         /\ \A k \in i .. StopAt(i, S) - 1 : At(k) \notin S
<1> DEFINE T == {j \in i .. Len(line) + 1 : At(j) \in S \cup {End}}
<1>1. Len(line) \in Nat /\ At(Len(line) + 1) = End
  BY LineIs
<1>2. T \in SUBSET Nat /\ Len(line) + 1 \in T
  BY <1>1
<1>3. PICK j \in T : \A y \in T : j <= y
  BY <1>2, LeastElement
<1>4. ASSUME NEW k \in i .. j - 1 PROVE At(k) \notin S
  <2>1. k \in i .. Len(line) + 1 /\ ~(j <= k)
    BY <1>1, <1>3
  <2> QED
    BY <1>3, <2>1
<1>5. \E m \in i .. Len(line) + 1 :
        /\ At(m) \in S \cup {End}
        /\ \A k \in i .. m - 1 : At(k) \notin S
  BY <1>3, <1>4
<1> HIDE DEF T
<1> QED
  BY <1>5 DEF StopAt

LEMMA PastBlanksIs ==
  ASSUME line \in Seq(Characters), NEW i \in 1 .. Len(line) + 1
  PROVE  /\ PastBlanks(i) \in i .. Len(line) + 1
         /\ At(PastBlanks(i)) \notin Blanks
         /\ \A k \in i .. PastBlanks(i) - 1 : At(k) \in Blanks
<1> DEFINE T == {j \in i .. Len(line) + 1 : At(j) \notin Blanks}
<1>1. Len(line) \in Nat /\ At(Len(line) + 1) \notin Blanks
  <2>1. Len(line) \in Nat /\ At(Len(line) + 1) = End
    BY LineIs
  <2> QED
    BY <2>1 DEF End, Blanks
<1>2. T \in SUBSET Nat /\ Len(line) + 1 \in T
  BY <1>1
<1>3. PICK j \in T : \A y \in T : j <= y
  BY <1>2, LeastElement
<1>4. ASSUME NEW k \in i .. j - 1 PROVE At(k) \in Blanks
  <2>1. k \in i .. Len(line) + 1 /\ ~(j <= k)
    BY <1>1, <1>3
  <2> QED
    BY <1>3, <2>1
<1>5. \E m \in i .. Len(line) + 1 :
        At(m) \notin Blanks /\ \A k \in i .. m - 1 : At(k) \in Blanks
  BY <1>3, <1>4
<1> HIDE DEF T
<1> QED
  BY <1>5 DEF PastBlanks

\* A character that is not the end is one of the line.
LEMMA InLine ==
  ASSUME line \in Seq(Characters), NEW i \in Int, i >= 1, At(i) # End
  PROVE  i \in 1 .. Len(line)
BY LineIs

Skipped == Blanks \cup Quotes

\* What the lexer passes before a token.
LEMMA StartIs ==
  ASSUME line \in Seq(Characters), pos \in 1 .. Len(line) + 1
  PROVE  /\ Start \in pos .. Len(line) + 1
         /\ \A k \in pos .. Start - 1 : At(k) \in Skipped
<1> DEFINE b == PastBlanks(pos)
<1>1. Len(line) \in Nat /\ pos \in Nat
  BY LineIs
<1>2. b \in pos .. Len(line) + 1 /\ \A k \in pos .. b - 1 : At(k) \in Skipped
  BY PastBlanksIs DEF Skipped
<1> HIDE DEF b
<1>3. Start = PastEmptyQuotes(b)
  BY DEF Start, b
<1>4. CASE At(b) \in Quotes /\ At(b) = At(b + 1) /\ At(b + 2) \notin Blanks
  <2>1. Start = b + 2
    BY <1>3, <1>4 DEF PastEmptyQuotes
  <2>2. b + 1 \in Int /\ b + 1 >= 1 /\ At(b + 1) # End
    <3>1. At(b + 1) # End
      BY <1>4 DEF Quotes, End
    <3> QED
      BY <1>1, <1>2, <3>1
  <2>3. b + 1 \in 1 .. Len(line)
    BY <2>2, InLine
  <2>4. At(b) \in Skipped /\ At(b + 1) \in Skipped
    BY <1>4 DEF Skipped
  <2>5. ASSUME NEW k \in pos .. b + 1 PROVE At(k) \in Skipped
    <3>1. k \in pos .. b - 1 \/ k = b \/ k = b + 1
      BY <1>1, <1>2
    <3> QED
      BY <1>2, <2>4, <3>1
  <2> QED
    BY <1>1, <1>2, <2>1, <2>3, <2>5
<1>5. CASE ~(At(b) \in Quotes /\ At(b) = At(b + 1) /\ At(b + 2) \notin Blanks)
  <2>1. Start = b
    BY <1>3, <1>5 DEF PastEmptyQuotes
  <2> QED
    BY <1>2, <2>1
<1> QED
  BY <1>4, <1>5

PosInv == line \in Seq(Characters) /\ pos \in 1 .. Len(line) + 1

\* Where an operator ends, and the text that follows a redirection.
LEMMA OperatorEnd ==
  ASSUME PosInv, At(Start) \in Operators, NEW past,
         past = IF Doubled(Start) THEN Start + 2 ELSE Start + 1
  PROVE  /\ Start \in 1 .. Len(line) /\ past \in Start + 1 .. Len(line) + 1
         /\ FileEnd(past) \in past .. Len(line) + 1
<1>1. Len(line) \in Nat /\ pos \in Nat /\ Start \in pos .. Len(line) + 1 /\ pos >= 1
  BY LineIs, StartIs DEF PosInv
<1>2. Start \in 1 .. Len(line)
  <2>1. At(Start) # End
    BY DEF Operators, Redirects, End
  <2> QED
    BY <1>1, <2>1, InLine DEF PosInv
<1>3. past \in Start + 1 .. Len(line) + 1
  <2>1. CASE Doubled(Start)
    <3>1. At(Start + 1) # End
      BY <2>1 DEF Doubled, Operators, Redirects, End
    <3>2. Start + 1 \in 1 .. Len(line)
      BY <1>2, <3>1, InLine DEF PosInv
    <3> QED
      BY <1>1, <1>2, <2>1, <3>2
  <2>2. CASE ~Doubled(Start)
    BY <1>1, <1>2, <2>2
  <2> QED
    BY <2>1, <2>2
<1>4. past \in 1 .. Len(line) + 1
  BY <1>1, <1>2, <1>3
<1> QED
  BY <1>2, <1>3, <1>4, StopAtIs DEF FileEnd, PosInv

\* Where a quoted text begins and ends.
LEMMA QuotedEnd ==
  ASSUME PosInv, At(Start) \in Quotes, NEW i, i = Start + 1, At(ClosedAt(i)) # End
  PROVE  /\ i - 1 = Start /\ Start \in 1 .. Len(line)
         /\ ClosedAt(i) \in i .. Len(line)
         /\ PastQuoted(i) \in i + 1 .. Len(line) + 1
<1>1. Len(line) \in Nat /\ pos \in Nat /\ Start \in pos .. Len(line) + 1 /\ pos >= 1
  BY LineIs, StartIs DEF PosInv
<1>2. Start \in 1 .. Len(line) /\ i - 1 = Start /\ i \in 1 .. Len(line) + 1
  <2>1. At(Start) # End
    BY DEF Quotes, End
  <2> QED
    BY <1>1, <2>1, InLine DEF PosInv
<1>3. ClosedAt(i) \in i .. Len(line) + 1
  BY <1>2, StopAtIs DEF ClosedAt, PosInv
<1>4. ClosedAt(i) \in i .. Len(line)
  BY <1>1, <1>2, <1>3, InLine DEF PosInv
<1>5. PastQuoted(i) \in i + 1 .. Len(line) + 1
  <2>1. CASE At(i) = At(i - 1) /\ At(i + 1) \in Blanks
    <3>1. At(i + 1) # End
      BY <2>1 DEF Blanks, End
    <3>2. i + 1 \in 1 .. Len(line)
      BY <1>2, <3>1, InLine DEF PosInv
    <3> QED
      BY <1>1, <1>2, <2>1, <3>2 DEF PastQuoted
  <2>2. CASE ~(At(i) = At(i - 1) /\ At(i + 1) \in Blanks)
    BY <1>1, <1>2, <1>4, <2>2 DEF PastQuoted
  <2> QED
    BY <2>1, <2>2
<1> QED
  BY <1>2, <1>4, <1>5

LEMMA WordEnd ==
  ASSUME PosInv
  PROVE  LET next == StopAt(Start, Blanks \cup Operators \cup Quotes)
         IN  Start \in pos .. Len(line) + 1 /\ next \in Start .. Len(line) + 1
<1>1. Len(line) \in Nat /\ Start \in pos .. Len(line) + 1 /\ pos \in Nat /\ pos >= 1
  BY LineIs, StartIs DEF PosInv
<1>2. Start \in 1 .. Len(line) + 1
  BY <1>1
<1> QED
  BY <1>1, <1>2, StopAtIs DEF PosInv

-----------------------------------------------------------------------------
(* The head of the list of tokens *)

\* The line begins with a $, but for blanks and quotes.
Begins == \E i \in 1 .. Len(line) :
            line[i] = "$" /\ \A k \in 1 .. i - 1 : line[k] \in Skipped

\* While the expander is at the head of its list, that is the first token of the
\* line; before the lexer has one, it has only passed blanks and quotes.
HeadInv ==
  /\ PosInv
  /\ phase = "tokenize" /\ tokens = <<>> => \A k \in 1 .. pos - 1 : At(k) \in Skipped
  /\ \/ phase = "tokenize"
     \/ phase = "expand" /\ cur = 1
     => (tokens # <<>> /\ tokens[1].value = Dollar => Begins)
  /\ dangling => Begins

LEMMA HeadOfJoined ==
  ASSUME NEW V, NEW s \in Seq(RawOf(V)), NEW W, NEW t \in Seq(RawOf(W))
  PROVE  /\ s = <<>> => s \o t = t
         /\ s # <<>> => s \o t # <<>> /\ (s \o t)[1] = s[1]
<1>1. s \in Seq(RawOf(V \cup W)) /\ t \in Seq(RawOf(V \cup W))
  <2>1. W \cup V = V \cup W
    OBVIOUS
  <2> QED
    BY <2>1, RawGrows
<1>2. CASE s = <<>>
  BY <1>1, <1>2, ConcatEmptySeq
<1>3. CASE s # <<>>
  <2>1. Len(s) \in Nat /\ Len(s) >= 1 /\ Len(t) \in Nat
    BY <1>1, <1>3, EmptySeq, LenProperties
  <2>2. /\ s \o t \in Seq(RawOf(V \cup W)) /\ Len(s \o t) = Len(s) + Len(t)
        /\ \A i \in 1 .. Len(s) + Len(t) :
             (s \o t)[i] = IF i <= Len(s) THEN s[i] ELSE t[i - Len(s)]
    BY <1>1, ConcatProperties
  <2>3. Len(s \o t) >= 1 /\ (s \o t)[1] = s[1]
    BY <2>1, <2>2
  <2>4. s \o t # <<>>
    BY <2>3, EmptySeq
  <2> QED
    BY <1>3, <2>3, <2>4
<1> QED
  BY <1>2, <1>3

LEMMA HeadOfAppended ==
  ASSUME NEW V, NEW s \in Seq(RawOf(V)),
         NEW v, NEW type \in TokenType \ {"command"}, NEW c \in BOOLEAN
  PROVE  /\ Append(s, Token(v, type, c)) # <<>>
         /\ s = <<>> => Append(s, Token(v, type, c))[1] = Token(v, type, c)
         /\ s # <<>> => Append(s, Token(v, type, c))[1] = s[1]
<1> DEFINE t == Token(v, type, c)
<1>1. s \in Seq(RawOf(V \cup {v})) /\ Len(s) \in Nat
  BY RawGrows, LenProperties
<1>2. t \in RawOf(V \cup {v})
  BY DEF Token, RawOf
<1> HIDE DEF t
<1>3. /\ Append(s, t) \in Seq(RawOf(V \cup {v})) /\ Len(Append(s, t)) = Len(s) + 1
      /\ \A i \in 1 .. Len(s) : Append(s, t)[i] = s[i]
      /\ Append(s, t)[Len(s) + 1] = t
  BY <1>1, <1>2, AppendProperties
<1>4. Append(s, t) # <<>>
  <2>1. Len(Append(s, t)) # 0
    BY <1>1, <1>3
  <2> QED
    BY <2>1, EmptySeq
<1>5. s = <<>> => Append(s, t)[1] = t
  <2>1. s = <<>> => Len(s) = 0
    BY EmptySeq
  <2> QED
    BY <1>3, <2>1
<1>6. s # <<>> => Append(s, t)[1] = s[1]
  <2>1. s # <<>> => 1 \in 1 .. Len(s)
    BY <1>1, EmptySeq
  <2> QED
    BY <1>3, <2>1
<1> QED
  BY <1>4, <1>5, <1>6 DEF t

\* A text of the line that is a $.
LEMMA DollarText ==
  ASSUME line \in Seq(Characters), NEW a \in 1 .. Len(line) + 1, NEW b \in a .. Len(line) + 1,
         SubSeq(line, a, b - 1) = Dollar
  PROVE  a \in 1 .. Len(line) /\ line[a] = "$"
<1> DEFINE m == b - 1  v == SubSeq(line, a, m)
<1>1. Len(line) \in Nat /\ a \in Int /\ m \in Int /\ a >= 1 /\ m >= a - 1 /\ m <= Len(line)
  BY LineIs
<1>2. \A i \in a .. m : line[i] \in Characters
  BY <1>1, LenProperties, ElementOfSeq
<1> HIDE DEF m
<1>3. /\ Len(v) = IF a <= m THEN m - a + 1 ELSE 0
      /\ \A i \in 1 .. m - a + 1 : v[i] = line[a + i - 1]
  BY <1>1, <1>2, SubSeqProperties
<1>4. v = Dollar /\ Len(Dollar) = 1 /\ Dollar[1] = "$"
  BY DEF m, Dollar
<1> HIDE DEF v
<1>5. a <= m /\ m - a + 1 = 1
  <2>1. (IF a <= m THEN m - a + 1 ELSE 0) = 1
    BY <1>3, <1>4, Zenon
  <2>2. a <= m
    BY <2>1
  <2> QED
    BY <2>1, <2>2
<1>6. 1 \in 1 .. m - a + 1 /\ a + 1 - 1 = a
  BY <1>1, <1>5
<1>7. v[1] = line[a]
  BY <1>3, <1>6
<1> QED
  BY <1>1, <1>4, <1>5, <1>7

\* No token begins before the start of the first.
LEMMA NothingBefore ==
  ASSUME PosInv, \A k \in 1 .. pos - 1 : At(k) \in Skipped
  PROVE  \A k \in 1 .. Start - 1 : At(k) \in Skipped
<1>1. pos \in Nat /\ Start \in Nat /\ \A k \in pos .. Start - 1 : At(k) \in Skipped
  BY LineIs, StartIs DEF PosInv
<1> QED
  BY <1>1

LEMMA LineBegins ==
  ASSUME PosInv, NEW a \in 1 .. Len(line), line[a] = "$",
         \A k \in 1 .. a - 1 : At(k) \in Skipped
  PROVE  Begins
<1>1. ASSUME NEW k \in 1 .. a - 1 PROVE line[k] \in Skipped
  <2>1. k \in 1 .. Len(line)
    BY LineIs DEF PosInv
  <2>2. At(k) = line[k]
    BY <2>1, LineIs DEF PosInv
  <2> QED
    BY <1>1, <2>2
<1> QED
  BY <1>1 DEF Begins

LEMMA OperatorKeepsHead ==
  ASSUME TokensInv, HeadInv, Tokenize, Operator
  PROVE  HeadInv'
<1> DEFINE start == Start
           past  == IF Doubled(start) THEN start + 2 ELSE start + 1
           next  == IF At(start) \in Redirects THEN FileEnd(past) ELSE past
           value == SubSeq(line, start, past - 1)
           file  == SubSeq(line, past, next - 1)
           op    == << Token(value, OperatorType(start), FALSE) >>
           rest  == IF file = <<>> THEN <<>> ELSE << Token(file, "word", FALSE) >>
<1>1. /\ phase = "tokenize" /\ phase' = phase /\ line' = line /\ dangling' = dangling
      /\ At(start) \in Operators /\ pos' = next /\ tokens' = tokens \o op \o rest
  BY DEF Tokenize, Operator
<1>2. PosInv /\ (dangling => Begins)
  BY DEF HeadInv
<1>3. /\ start \in 1 .. Len(line) /\ past \in start + 1 .. Len(line) + 1
      /\ FileEnd(past) \in past .. Len(line) + 1
  BY <1>1, <1>2, OperatorEnd
<1>4. next \in past .. Len(line) + 1
  BY <1>3
<1>5. PosInv'
  BY <1>1, <1>2, <1>3, <1>4, LineIs DEF PosInv
<1>6. PICK V : tokens \in Seq(RawOf(V))
  BY <1>1 DEF TokensInv
<1>7. op \in Seq(RawOf({value})) /\ Len(op) = 1
  <2>1. OperatorType(start) \in TokenType \ {"command"}
    BY <1>1 DEF OperatorType, TokenType, Operators, Redirects
  <2> QED
    BY <2>1, OneToken
<1>8. rest \in Seq(RawOf({file}))
  <2>1. "word" \in TokenType \ {"command"} /\ FALSE \in BOOLEAN
    BY DEF TokenType
  <2>2. << Token(file, "word", FALSE) >> \in Seq(RawOf({file}))
    BY <2>1, OneToken
  <2>3. <<>> \in Seq(RawOf({file}))
    BY EmptySeq
  <2> HIDE DEF file
  <2> QED
    BY <2>2, <2>3
<1>9. value # Dollar
  <2>1. SUFFICES ASSUME value = Dollar PROVE FALSE
    OBVIOUS
  <2>2. line[start] = "$"
    <3>1. start \in 1 .. Len(line) + 1 /\ past \in start .. Len(line) + 1
      BY <1>2, <1>3, LineIs DEF PosInv
    <3> HIDE DEF past, start
    <3> QED
      BY <1>2, <2>1, <3>1, DollarText DEF PosInv
  <2>3. At(start) = line[start]
    BY <1>2, <1>3, LineIs DEF PosInv
  <2> QED
    BY <1>1, <2>2, <2>3 DEF Operators, Redirects
<1>10. op[1].value = value /\ op # <<>>
  <2> HIDE DEF value, start
  <2> QED
    BY DEF Token
<1> HIDE DEF op, rest, value, file, next, past, start
<1>11. tokens' # <<>> /\ (tokens'[1] = IF tokens = <<>> THEN op[1] ELSE tokens[1])
  <2>1. tokens \o op \in Seq(RawOf(V \cup {value}))
    BY <1>6, <1>7, RawJoined
  <2>2. /\ tokens = <<>> => tokens \o op = op
        /\ tokens # <<>> => tokens \o op # <<>> /\ (tokens \o op)[1] = tokens[1]
    BY <1>6, <1>7, HeadOfJoined
  <2>3. tokens \o op # <<>> => tokens \o op \o rest # <<>> /\ (tokens \o op \o rest)[1] = (tokens \o op)[1]
    BY <1>8, <2>1, HeadOfJoined
  <2> QED
    BY <1>1, <1>10, <2>2, <2>3
<1>12. tokens'[1].value = Dollar => Begins
  BY <1>1, <1>9, <1>10, <1>11 DEF HeadInv
<1>13. Begins' = Begins
  BY <1>1 DEF Begins
<1> QED
  BY <1>1, <1>2, <1>5, <1>11, <1>12, <1>13 DEF HeadInv

LEMMA WordKeepsHead ==
  ASSUME TokensInv, HeadInv, Tokenize, Word
  PROVE  HeadInv'
<1> DEFINE start == Start
           next  == StopAt(start, Blanks \cup Operators \cup Quotes)
           value == SubSeq(line, start, next - 1)
           t == Token(value, "word", JoinsWord(next))
<1>1. /\ phase = "tokenize" /\ phase' = phase /\ line' = line /\ dangling' = dangling
      /\ pos' = next /\ tokens' = IF next = start THEN tokens ELSE Append(tokens, t)
  BY DEF Tokenize, Word
<1>2. PosInv /\ (dangling => Begins)
  BY DEF HeadInv
<1>3. /\ Len(line) \in Nat /\ pos \in 1 .. Len(line) + 1
      /\ start \in pos .. Len(line) + 1 /\ next \in start .. Len(line) + 1
  BY <1>2, WordEnd, LineIs DEF PosInv
<1>4. PosInv'
  BY <1>1, <1>2, <1>3 DEF PosInv
<1>5. Begins' = Begins /\ \A k : At(k)' = At(k)
  BY <1>1 DEF Begins, At
<1>6. PICK V : tokens \in Seq(RawOf(V))
  BY <1>1 DEF TokensInv
<1>7. tokens = <<>> => \A k \in 1 .. start - 1 : At(k) \in Skipped
  BY <1>1, <1>2, NothingBefore DEF HeadInv
<1>8. CASE next = start
  BY <1>1, <1>2, <1>4, <1>5, <1>7, <1>8 DEF HeadInv
<1>9. CASE next # start
  <2>1. /\ tokens' # <<>>
        /\ tokens = <<>> => tokens'[1] = t
        /\ tokens # <<>> => tokens'[1] = tokens[1]
    <3>1. "word" \in TokenType \ {"command"} /\ JoinsWord(next) \in BOOLEAN
      BY DEF TokenType, JoinsWord
    <3>2. tokens' = Append(tokens, t)
      BY <1>1, <1>9
    <3> HIDE DEF value, next, start
    <3> QED
      BY <1>6, <3>1, <3>2, HeadOfAppended
  <2>2. t.value = value
    BY DEF Token
  <2>3. ASSUME tokens = <<>>, value = Dollar PROVE Begins
    <3>1. start \in 1 .. Len(line) + 1
      BY <1>3
    <3> HIDE DEF next, start
    <3>2. start \in 1 .. Len(line) /\ line[start] = "$"
      BY <1>2, <1>3, <2>3, <3>1, DollarText DEF PosInv
    <3> QED
      BY <1>2, <1>7, <2>3, <3>2, LineBegins
  <2> HIDE DEF t, value, next, start
  <2>4. tokens'[1].value = Dollar => Begins
    BY <1>1, <2>1, <2>2, <2>3 DEF HeadInv
  <2> QED
    BY <1>1, <1>2, <1>4, <1>5, <2>1, <2>4 DEF HeadInv
<1> QED
  BY <1>8, <1>9

LEMMA QuotedKeepsHead ==
  ASSUME TokensInv, HeadInv, Tokenize, Quoted
  PROVE  HeadInv'
<1> DEFINE i == Start + 1
           type == IF At(i - 1) = "'" THEN "single" ELSE "double"
           value == QuotedText(i)
           t == Token(value, type, JoinsQuoted(PastQuoted(i)))
<1>1. /\ phase = "tokenize" /\ phase' = phase /\ line' = line /\ dangling' = dangling
      /\ At(i - 1) \in Quotes /\ At(ClosedAt(i)) # End
      /\ pos' = PastQuoted(i) /\ tokens' = Append(tokens, t)
  BY DEF Tokenize, Quoted
<1>2. PosInv /\ (dangling => Begins)
  BY DEF HeadInv
<1>0. i - 1 = Start
  <2>1. Start \in Int
    BY <1>2, StartIs, LineIs DEF PosInv
  <2> QED
    BY <2>1
<1>3. /\ Start \in 1 .. Len(line) /\ ClosedAt(i) \in i .. Len(line)
      /\ PastQuoted(i) \in i + 1 .. Len(line) + 1 /\ Len(line) \in Nat
  BY <1>0, <1>1, <1>2, QuotedEnd, LineIs DEF PosInv
<1>4. PosInv'
  BY <1>1, <1>2, <1>3 DEF PosInv
<1>5. Begins' = Begins
  BY <1>1 DEF Begins
<1>6. PICK V : tokens \in Seq(RawOf(V))
  BY <1>1 DEF TokensInv
<1>7. tokens = <<>> => \A k \in 1 .. Start - 1 : At(k) \in Skipped
  BY <1>1, <1>2, NothingBefore DEF HeadInv
<1>8. /\ tokens' # <<>>
      /\ tokens = <<>> => tokens'[1] = t
      /\ tokens # <<>> => tokens'[1] = tokens[1]
  <2> DEFINE joins == JoinsQuoted(PastQuoted(i))
  <2>1. joins \in BOOLEAN /\ type \in TokenType \ {"command"}
    BY DEF JoinsQuoted, TokenType
  <2> HIDE DEF value, joins, type, i
  <2> QED
    BY <1>1, <1>6, <2>1, HeadOfAppended
<1>9. t.value = value
  BY DEF Token
<1>10. ASSUME tokens = <<>>, value = Dollar PROVE Begins
  <2> HIDE DEF i
  <2>1. CASE At(i) = At(i - 1) /\ At(i + 1) \in Blanks
    <3>1. <<" ">> = Dollar
      BY <1>10, <2>1 DEF QuotedText
    <3> QED
      BY <3>1 DEF Dollar
  <2>2. CASE ~(At(i) = At(i - 1) /\ At(i + 1) \in Blanks)
    <3>1. SubSeq(line, i, ClosedAt(i) - 1) = Dollar
      BY <1>10, <2>2 DEF QuotedText
    <3>2. i \in 1 .. Len(line) + 1 /\ ClosedAt(i) \in i .. Len(line) + 1
      BY <1>3 DEF i
    <3>3. i \in 1 .. Len(line) /\ line[i] = "$"
      BY <1>2, <3>1, <3>2, DollarText DEF PosInv
    <3>4. ASSUME NEW k \in 1 .. i - 1 PROVE At(k) \in Skipped
      <4>1. k \in 1 .. Start - 1 \/ k = Start
        BY <1>0, <1>3
      <4>2. At(Start) \in Skipped
        BY <1>0, <1>1 DEF Skipped
      <4> QED
        BY <1>7, <1>10, <4>1, <4>2
    <3> QED
      BY <1>2, <3>3, <3>4, LineBegins
  <2> QED
    BY <2>1, <2>2
<1> HIDE DEF t, value, type, i
<1>11. tokens'[1].value = Dollar => Begins
  BY <1>1, <1>8, <1>9, <1>10 DEF HeadInv
<1> QED
  BY <1>1, <1>2, <1>4, <1>5, <1>8, <1>11 DEF HeadInv

LEMMA HeadIsKept ==
  ASSUME TokensInv, HeadInv, [Next]_vars
  PROVE  HeadInv'
<1>1. PosInv /\ (dangling => Begins)
  BY DEF HeadInv
<1>2. CASE line' = line /\ pos' = pos /\ dangling' = dangling
           /\ phase' \notin {"tokenize", "expand"}
  <2>1. Begins' = Begins /\ PosInv'
    BY <1>1, <1>2 DEF Begins, PosInv
  <2> QED
    BY <1>1, <1>2, <2>1 DEF HeadInv
<1>3. CASE UNCHANGED vars
  <2>1. Begins' = Begins /\ PosInv' /\ \A k : At(k)' = At(k)
    BY <1>1, <1>3 DEF Begins, PosInv, At, vars
  <2> QED
    BY <1>3, <2>1 DEF HeadInv, vars
<1>4. CASE Tokenize /\ Unclosed
  BY <1>2, <1>4 DEF Tokenize, Unclosed
<1>5. CASE Tokenized
  <2>1. Begins' = Begins /\ PosInv'
    BY <1>1, <1>5 DEF Tokenized, Begins, PosInv
  <2> QED
    BY <1>1, <1>5, <2>1 DEF Tokenized, HeadInv
<1>6. CASE DropDollar
  <2>1. /\ phase = "expand" /\ cur' = cur /\ cur \in 1 .. Len(tokens)
        /\ tokens[cur].value = Dollar /\ dangling' = (dangling \/ cur = 1)
        /\ phase' \in {"expand", "undefined"} /\ line' = line /\ pos' = pos
    BY <1>6 DEF DropDollar, DropsDollar, AtToken, TokensInv
  <2>2. Begins' = Begins /\ PosInv'
    BY <1>1, <2>1 DEF Begins, PosInv
  <2>3. cur = 1 => Begins
    <3>1. tokens # <<>>
      BY <2>1, EmptySeq
    <3> QED
      BY <2>1, <3>1 DEF HeadInv
  <2> QED
    BY <1>1, <2>1, <2>2, <2>3 DEF HeadInv
<1>7. CASE ExpandToken
  <2>1. /\ phase = "expand" /\ phase' = "expand" /\ cur' = cur + 1 /\ cur \in Nat \ {0}
        /\ line' = line /\ pos' = pos /\ dangling' = dangling
    BY <1>7 DEF ExpandToken, AtToken, TokensInv
  <2>2. Begins' = Begins /\ PosInv' /\ cur' # 1
    BY <1>1, <2>1 DEF Begins, PosInv
  <2> QED
    BY <1>1, <2>1, <2>2 DEF HeadInv
<1>8. CASE ExpansionDone \/ MergeToken \/ CheckFormatCommand \/ ValidateTokens \/ Parsed
  BY <1>2, <1>8 DEF ExpansionDone, MergeToken, CheckFormatCommand, ValidateTokens, Parsed
<1>9. CASE ParseWord \/ ParseRedirect \/ ParseHeredoc \/ ParsePipe \/ ParseAnd
  BY <1>2, <1>9 DEF ParseWord, ParseRedirect, ParseHeredoc, ParsePipe, ParseAnd,
     ParseMoves, AtToken
<1> QED
  BY <1>3, <1>4, <1>5, <1>6, <1>7, <1>8, <1>9, OperatorKeepsHead, WordKeepsHead,
     QuotedKeepsHead DEF Next, Tokenize

LEMMA BeginsIsHead == HeadInv => HeadStays
<1> SUFFICES ASSUME PosInv, Begins
             PROVE  /\ At(StopAt(1, {"$"})) = "$"
                    /\ \A k \in 1 .. StopAt(1, {"$"}) - 1 : line[k] \in Blanks \cup Quotes
  BY DEF HeadInv, HeadStays
<1>1. PICK i \in 1 .. Len(line) : line[i] = "$" /\ \A k \in 1 .. i - 1 : line[k] \in Skipped
  BY DEF Begins
<1> DEFINE j == StopAt(1, {"$"})
<1>2. Len(line) \in Nat /\ 1 \in 1 .. Len(line) + 1
  BY LineIs DEF PosInv
<1>3. /\ j \in 1 .. Len(line) + 1 /\ At(j) \in {"$"} \cup {End}
      /\ \A k \in 1 .. j - 1 : At(k) \notin {"$"}
  BY <1>2, StopAtIs DEF PosInv
<1> HIDE DEF j
<1>4. At(i) = "$" /\ i \in 1 .. Len(line)
  BY <1>1, LineIs DEF PosInv
<1>5. ~(i < j)
  BY <1>2, <1>3, <1>4
<1>6. ~(j < i)
  <2>1. SUFFICES ASSUME j < i PROVE FALSE
    OBVIOUS
  <2>2. j \in 1 .. i - 1 /\ j \in 1 .. Len(line)
    BY <1>2, <1>3, <1>4, <2>1
  <2>3. At(j) = line[j]
    BY <2>2, LineIs DEF PosInv
  <2>4. At(j) \in Skipped
    BY <1>1, <2>2, <2>3
  <2> QED
    BY <1>3, <2>4 DEF Skipped, Blanks, Quotes, End
<1>7. j = i
  BY <1>2, <1>3, <1>4, <1>5, <1>6
<1> QED
  BY <1>1, <1>4, <1>7 DEF j, Skipped

-----------------------------------------------------------------------------
(* The expansion of a value *)

LEMMA Concatenated ==
  ASSUME NEW v \in Text, NEW w \in Text
  PROVE  v \o w \in Text
BY ConcatProperties DEF Text

LEMMA TextIs ==
  ASSUME NEW v \in Text
  PROVE  /\ Len(v) \in Nat /\ DOMAIN v = 1 .. Len(v)
         /\ \A i \in 1 .. Len(v) : v[i] \in STRING
BY LenProperties, ElementOfSeq DEF Text

LEMMA PartOfText ==
  ASSUME NEW v \in Text, NEW m \in Nat \ {0}, NEW n \in Int, n <= Len(v)
  PROVE  SubSeq(v, m, n) \in Text
<1>1. \A i \in m .. n : v[i] \in STRING
  BY TextIs
<1> QED
  BY <1>1, SubSeqProperties DEF Text

LEMMA NameEndIs ==
  ASSUME NEW v \in Text, NEW i \in 1 .. Len(v) + 1
  PROVE  NameEnd(v, i) \in i .. Len(v) + 1
<1> DEFINE T == {j \in i .. Len(v) + 1 : j = Len(v) + 1 \/ ~Letter(v[j])}
<1>1. Len(v) \in Nat
  BY TextIs
<1>2. T \in SUBSET Nat /\ Len(v) + 1 \in T
  BY <1>1
<1>3. PICK j \in T : \A y \in T : j <= y
  BY <1>2, LeastElement
<1>4. ASSUME NEW k \in i .. j - 1 PROVE Letter(v[k])
  <2>1. k \in i .. Len(v) + 1 /\ ~(j <= k)
    BY <1>1, <1>3
  <2> QED
    BY <1>3, <2>1
<1>5. \E m \in i .. Len(v) + 1 :
        /\ m = Len(v) + 1 \/ ~Letter(v[m])
        /\ \A k \in i .. m - 1 : Letter(v[k])
  BY <1>3, <1>4
<1> HIDE DEF T
<1> QED
  BY <1>5 DEF NameEnd

\* find_var_end moves, unless the name is empty before a double quote.
LEMMA VarEndIs ==
  ASSUME NEW v \in Text, NEW i \in 1 .. Len(v), VarEnd(v, i) # i
  PROVE  VarEnd(v, i) \in i + 1 .. Len(v) + 1
<1>1. Len(v) \in Nat /\ i + 1 \in 1 .. Len(v) + 1
  BY TextIs
<1>2. CASE i < Len(v) /\ v[i + 1] = "\""
  BY <1>2 DEF VarEnd
<1>3. CASE /\ ~(i < Len(v) /\ v[i + 1] = "\"")
           /\ i < Len(v) /\ v[i + 1] \in {"?", "'"}
  <2>1. VarEnd(v, i) = i + 2
    BY <1>3 DEF VarEnd
  <2>2. i < Len(v)
    BY <1>3
  <2> QED
    BY <1>1, <2>1, <2>2
<1>4. CASE /\ ~(i < Len(v) /\ v[i + 1] = "\"")
           /\ ~(i < Len(v) /\ v[i + 1] \in {"?", "'"})
  <2>1. VarEnd(v, i) = NameEnd(v, i + 1)
    BY <1>4 DEF VarEnd
  <2> QED
    BY <1>1, <2>1, NameEndIs
<1> QED
  BY <1>2, <1>3, <1>4

LEMMA OneElement ==
  ASSUME NEW S, NEW c \in S
  PROVE  << c >> \in Seq(S)
OBVIOUS

LEMMA Short ==
  /\ <<>> \in Text
  /\ \A c \in STRING : << c >> \in Text
<1>1. <<>> \in Text
  BY EmptySeq DEF Text
<1>2. ASSUME NEW c \in STRING PROVE << c >> \in Text
  BY OneElement, Zenon DEF Text
<1> QED
  BY <1>1, <1>2

LEMMA VarValueIs ==
  ASSUME NEW name \in Text
  PROVE  VarValue(name) \in Text
<1>1. \A n \in DOMAIN Env : Env[n] \in Text
  BY SyntaxAssumption, Zenon DEF Text
<1>2. Status \in Text /\ <<>> \in Text
  BY SyntaxAssumption, Short, Zenon DEF Text
<1> QED
  BY <1>1, <1>2 DEF VarValue

\* What Expanded makes of the characters from i on, once f has it for those after.
From(v, f, i) ==
  IF i > Len(v) THEN <<>>
  ELSE IF v[i] # "$" THEN << v[i] >> \o f[i + 1]
  ELSE VarValue(SubSeq(v, i, VarEnd(v, i) - 1)) \o f[VarEnd(v, i)]

LEMMA FromIs ==
  ASSUME NEW v \in Text, ~Endless(v), NEW i \in 1 .. Len(v) + 1, NEW f,
         \A j \in i + 1 .. Len(v) + 1 : f[j] \in Text
  PROVE  /\ From(v, f, i) \in Text
         /\ \A g : (\A j \in i + 1 .. Len(v) + 1 : g[j] = f[j]) => From(v, g, i) = From(v, f, i)
<1>1. Len(v) \in Nat /\ DOMAIN v = 1 .. Len(v)
  BY TextIs
<1>2. CASE i > Len(v)
  BY <1>2, Short DEF From
<1>3. CASE i <= Len(v) /\ v[i] # "$"
  <2>1. i \in 1 .. Len(v) /\ i + 1 \in i + 1 .. Len(v) + 1 /\ ~(i > Len(v))
    BY <1>1, <1>3
  <2>2. << v[i] >> \in Text /\ f[i + 1] \in Text
    BY <2>1, TextIs, Short
  <2>3. \A g : From(v, g, i) = << v[i] >> \o g[i + 1]
    BY <1>3, <2>1 DEF From
  <2> QED
    BY <2>1, <2>2, <2>3, Concatenated
<1>4. CASE i <= Len(v) /\ v[i] = "$"
  <2> DEFINE j == VarEnd(v, i)  w == VarValue(SubSeq(v, i, j - 1))
  <2>1. i \in 1 .. Len(v) /\ ~(i > Len(v))
    BY <1>1, <1>4
  <2>2. j # i
    BY <1>1, <1>4, <2>1 DEF Endless
  <2>3. j \in i + 1 .. Len(v) + 1
    BY <2>1, <2>2, VarEndIs
  <2>4. \A g : From(v, g, i) = w \o g[j]
    BY <1>4, <2>1 DEF From
  <2> HIDE DEF j
  <2>5. SubSeq(v, i, j - 1) \in Text
    <3>1. j - 1 \in Int /\ j - 1 <= Len(v) /\ i \in Nat \ {0}
      BY <1>1, <2>1, <2>3
    <3> QED
      BY <3>1, PartOfText
  <2>6. w \in Text
    BY <2>5, VarValueIs
  <2>7. f[j] \in Text
    BY <2>3
  <2> HIDE DEF w
  <2> QED
    BY <2>3, <2>4, <2>6, <2>7, Concatenated
<1> QED
  BY <1>1, <1>2, <1>3, <1>4

\* What holds of 0 and passes from each number to the next holds up to n.
LEMMA UpTo ==
  ASSUME NEW n \in Nat, NEW T, 0 \in T, \A k \in 0 .. n - 1 : k \in T => k + 1 \in T
  PROVE  \A k \in 0 .. n : k \in T
<1> SUFFICES ASSUME ~(\A k \in 0 .. n : k \in T) PROVE FALSE
  OBVIOUS
<1> DEFINE Out == {k \in 0 .. n : k \notin T}
<1>1. Out \in SUBSET Nat /\ Out # {}
  OBVIOUS
<1>2. PICK k \in Out : \A j \in Out : k <= j
  BY <1>1, LeastElement
<1>3. k \in 1 .. n
  BY <1>2
<1>4. k - 1 \in T
  BY <1>2, <1>3
<1> QED
  BY <1>2, <1>3, <1>4

\* Some function does what Expanded asks of its own: it is built from the end.
LEMMA ExpansionExists ==
  ASSUME NEW v \in Text, ~Endless(v)
  PROVE  \E g \in [1 .. Len(v) + 1 -> Text] :
           \A i \in 1 .. Len(v) + 1 : g[i] = From(v, g, i)
<1> DEFINE n == Len(v)
           Good(g, m) == \A i \in m .. n + 1 : g[i] \in Text /\ g[i] = From(v, g, i)
           T == {k \in 0 .. n : \E g \in [1 .. n + 1 -> Text] : Good(g, n + 1 - k)}
<1>1. n \in Nat
  BY TextIs
<1>2. 0 \in T
  <2> DEFINE g == [i \in 1 .. n + 1 |-> <<>>]
  <2>1. g \in [1 .. n + 1 -> Text]
    BY Short
  <2>2. From(v, g, n + 1) = <<>>
    BY <1>1 DEF From
  <2>3. Good(g, n + 1 - 0)
    <3>1. \A i \in n + 1 - 0 .. n + 1 : i = n + 1
      BY <1>1
    <3>2. g[n + 1] = <<>>
      BY <1>1
    <3> HIDE DEF g, n
    <3> QED
      BY <2>2, <3>1, <3>2, Short
  <2> HIDE DEF g, n, Good
  <2> QED
    BY <1>1, <2>1, <2>3
<1>3. ASSUME NEW k \in 0 .. n - 1, k \in T PROVE k + 1 \in T
  <2>1. PICK g \in [1 .. n + 1 -> Text] : Good(g, n + 1 - k)
    BY <1>3
  <2> DEFINE m == n + 1 - (k + 1)
             x == From(v, g, m)
             h == [g EXCEPT ![m] = x]
  <2>2. m \in 1 .. n /\ n + 1 - k = m + 1 /\ m \in Nat
    BY <1>1, <1>3
  <2> HIDE DEF m
  <2>3. \A j \in 1 .. n + 1 : g[j] \in Text
    BY <2>1
  <2>4. x \in Text
    <3>1. m \in 1 .. Len(v) + 1 /\ \A j \in m + 1 .. Len(v) + 1 : g[j] \in Text
      BY <1>1, <2>2, <2>3
    <3> QED
      BY <3>1, FromIs
  <2> HIDE DEF x
  <2>5. /\ h \in [1 .. n + 1 -> Text]
        /\ \A j \in 1 .. n + 1 : h[j] = IF j = m THEN x ELSE g[j]
    BY <2>1, <2>4
  <2> HIDE DEF h
  <2>6. ASSUME NEW i \in m .. n + 1 PROVE h[i] = From(v, h, i)
    <3>1. i \in 1 .. Len(v) + 1 /\ i \in Nat
      BY <1>1, <2>2
    <3>2. \A j \in i + 1 .. Len(v) + 1 : h[j] = g[j] /\ g[j] \in Text
      BY <1>1, <2>2, <2>3, <2>5, <3>1
    <3>3. From(v, h, i) = From(v, g, i)
      <4> HIDE DEF n
      <4> QED
        BY <3>1, <3>2, FromIs
    <3>4. CASE i = m
      BY <2>5, <3>1, <3>3, <3>4 DEF x
    <3>5. CASE i # m
      <4>1. i \in n + 1 - k .. n + 1 /\ i \in 1 .. n + 1
        BY <1>1, <2>2, <3>5
      <4>2. h[i] = g[i] /\ g[i] = From(v, g, i)
        BY <2>1, <2>5, <3>5, <4>1
      <4> QED
        BY <3>3, <4>2
    <3> QED
      BY <3>4, <3>5
  <2>7. \A i \in m .. n + 1 : h[i] \in Text
    <3>1. \A i \in m .. n + 1 : i \in 1 .. n + 1
      BY <1>1, <2>2
    <3> QED
      BY <2>5, <3>1
  <2>8. Good(h, n + 1 - (k + 1))
    BY <2>6, <2>7 DEF m
  <2> HIDE DEF Good
  <2>9. k + 1 \in 0 .. n
    BY <1>1
  <2> QED
    BY <2>5, <2>8, <2>9
<1> HIDE DEF T
<1>4. n \in T
  <2>1. \A k \in 0 .. n : k \in T
    <3> HIDE DEF n
    <3> QED
      BY <1>1, <1>2, <1>3, UpTo
  <2> QED
    BY <1>1, <2>1
<1>5. PICK g \in [1 .. n + 1 -> Text] : Good(g, n + 1 - n)
  BY <1>4 DEF T
<1>6. n + 1 - n = 1
  BY <1>1
<1>7. Good(g, 1)
  BY <1>5, <1>6
<1> QED
  BY <1>5, <1>7

\* So does the one that Expanded has chosen.
LEMMA ExpandedFrom ==
  ASSUME NEW v \in Text, ~Endless(v)
  PROVE  \E f : Expanded(v) = f[1] /\ \A i \in 1 .. Len(v) + 1 : f[i] = From(v, f, i)
<1> DEFINE n == Len(v)
           P(f) == f = [i \in 1 .. n + 1 |-> From(v, f, i)]
           from == CHOOSE f : P(f)
<1>1. Expanded(v) = from[1]
  BY DEF Expanded, From
<1>2. n \in Nat
  BY TextIs
<1>3. PICK g \in [1 .. n + 1 -> Text] : \A i \in 1 .. n + 1 : g[i] = From(v, g, i)
  BY ExpansionExists
<1>4. P(g)
  <2>1. g = [i \in 1 .. n + 1 |-> g[i]]
    BY <1>3
  <2>2. [i \in 1 .. n + 1 |-> g[i]] = [i \in 1 .. n + 1 |-> From(v, g, i)]
    BY <1>3
  <2> QED
    BY <2>1, <2>2, Zenon
<1>5. P(from)
  <2> HIDE DEF P
  <2> QED
    BY <1>4
<1> HIDE DEF from
<1>6. \A i \in 1 .. n + 1 : from[i] = From(v, from, i)
  <2> DEFINE e(i) == From(v, from, i)
  <2>1. from = [i \in 1 .. n + 1 |-> e(i)]
    BY <1>5
  <2> HIDE DEF e
  <2>2. \A i \in 1 .. n + 1 : from[i] = e(i)
    BY <2>1
  <2> QED
    BY <2>2 DEF e
<1> QED
  BY <1>1, <1>6

\* The expansion of a text is a text.
LEMMA ExpandedIs ==
  ASSUME NEW v \in Text, ~Endless(v)
  PROVE  Expanded(v) \in Text
<1> DEFINE n == Len(v)
<1>2. n \in Nat
  BY TextIs
<1>1. PICK from : Expanded(v) = from[1] /\ \A i \in 1 .. n + 1 : from[i] = From(v, from, i)
  BY ExpandedFrom
<1>6. \A i \in 1 .. n + 1 : from[i] = From(v, from, i)
  BY <1>1
<1> DEFINE T == {k \in 0 .. n : \A j \in n + 1 - k .. n + 1 : from[j] \in Text}
<1>7. 0 \in T
  <2>1. From(v, from, n + 1) = <<>>
    BY <1>2 DEF From
  <2>2. \A j \in n + 1 - 0 .. n + 1 : j = n + 1
    BY <1>2
  <2>3. from[n + 1] \in Text
    BY <1>2, <1>6, <2>1, Short
  <2> QED
    BY <1>2, <2>2, <2>3
<1>8. ASSUME NEW k \in 0 .. n - 1, k \in T PROVE k + 1 \in T
  <2> DEFINE m == n + 1 - (k + 1)
  <2>1. m \in 1 .. n + 1 /\ n + 1 - k = m + 1 /\ k + 1 \in 0 .. n
    BY <1>2, <1>8
  <2> HIDE DEF m
  <2>2. \A j \in m + 1 .. n + 1 : from[j] \in Text
    BY <1>8, <2>1
  <2>3. from[m] \in Text
    <3>1. From(v, from, m) \in Text
      BY <2>1, <2>2, FromIs
    <3> QED
      BY <1>6, <2>1, <3>1
  <2>4. \A j \in m .. n + 1 : from[j] \in Text
    <3>1. \A j \in m .. n + 1 : j = m \/ j \in m + 1 .. n + 1
      BY <1>2, <2>1
    <3> QED
      BY <2>2, <2>3, <3>1
  <2> QED
    BY <2>1, <2>4 DEF m
<1> HIDE DEF T
<1>9. n \in T
  <2>1. \A k \in 0 .. n : k \in T
    <3> HIDE DEF n
    <3> QED
      BY <1>2, <1>7, <1>8, UpTo
  <2> QED
    BY <1>2, <2>1
<1>10. from[1] \in Text
  <2>1. 1 \in n + 1 - n .. n + 1
    BY <1>2
  <2> QED
    BY <1>9, <2>1 DEF T
<1> QED
  BY <1>1, <1>10

-----------------------------------------------------------------------------
(* The types *)

RawPhases   == {"tokenize", "expand", "merge", "blank", "unclosed", "undefined"}
ReadyPhases == {"validate", "parse", "parsed", "refused"}

\* Every value of a token is a text: a part of the line, what the expander
\* makes of one, or two of them in one.
TextInv ==
  /\ phase \in RawPhases \cup ReadyPhases /\ dangling \in BOOLEAN
  /\ phase \in RawPhases => tokens \in Seq(RawOf(Text))
  /\ phase \in ReadyPhases => tokens \in Seq(ReadyOf(Text))
  /\ phase \notin {"parse", "parsed"} => commands = <<>>

LEMMA LineIsText ==
  ASSUME PosInv
  PROVE  line \in Text
<1>1. Characters \subseteq STRING
  BY DEF Characters
<1> QED
  BY <1>1, SeqMonotonic DEF PosInv, Text

LEMMA PartOfLine ==
  ASSUME PosInv, NEW a \in 1 .. Len(line) + 1, NEW b \in a .. Len(line) + 1
  PROVE  SubSeq(line, a, b - 1) \in Text
<1>1. Len(line) \in Nat /\ line \in Text
  BY LineIs, LineIsText DEF PosInv
<1> DEFINE m == b - 1
<1>2. a \in Nat \ {0} /\ m \in Int /\ m <= Len(line)
  BY <1>1
<1> HIDE DEF m
<1>3. SubSeq(line, a, m) \in Text
  BY <1>1, <1>2, PartOfText
<1> QED
  BY <1>3 DEF m

LEMMA QuotedIsText ==
  ASSUME PosInv, At(Start) \in Quotes, NEW i, i = Start + 1, At(ClosedAt(i)) # End
  PROVE  QuotedText(i) \in Text
<1>1. /\ i - 1 = Start /\ Start \in 1 .. Len(line)
      /\ ClosedAt(i) \in i .. Len(line) /\ Len(line) \in Nat
  BY QuotedEnd, LineIs DEF PosInv
<1>2. CASE At(i) = At(i - 1) /\ At(i + 1) \in Blanks
  <2>1. At(i + 1) # End
    BY <1>2 DEF Blanks, End
  <2>2. i + 1 \in Int /\ i + 1 >= 1
    BY <1>1
  <2>3. i + 1 \in 1 .. Len(line)
    BY <2>1, <2>2, InLine DEF PosInv
  <2>4. At(i + 1) \in STRING
    BY <2>3, LineIs DEF PosInv
  <2>5. At(i + 1) = " "
    BY <1>2 DEF Blanks
  <2>6. << At(i + 1) >> \in Text
    BY <2>4, Short
  <2> QED
    BY <1>2, <2>5, <2>6 DEF QuotedText
<1>3. CASE ~(At(i) = At(i - 1) /\ At(i + 1) \in Blanks)
  <2>1. i \in 1 .. Len(line) + 1 /\ ClosedAt(i) \in i .. Len(line) + 1
    BY <1>1
  <2>2. SubSeq(line, i, ClosedAt(i) - 1) \in Text
    BY <2>1, PartOfLine
  <2> QED
    BY <1>3, <2>2 DEF QuotedText
<1> QED
  BY <1>2, <1>3

LEMMA TextAppended ==
  ASSUME NEW s \in Seq(RawOf(Text)), NEW v \in Text,
         NEW type \in TokenType \ {"command"}, NEW c \in BOOLEAN
  PROVE  Append(s, Token(v, type, c)) \in Seq(RawOf(Text))
<1>1. Text \cup {v} = Text
  OBVIOUS
<1> QED
  BY <1>1, RawAppended

LEMMA OperatorKeepsText ==
  ASSUME PosInv, tokens \in Seq(RawOf(Text)), Operator
  PROVE  tokens' \in Seq(RawOf(Text))
<1> DEFINE start == Start
           past  == IF Doubled(start) THEN start + 2 ELSE start + 1
           next  == IF At(start) \in Redirects THEN FileEnd(past) ELSE past
           value == SubSeq(line, start, past - 1)
           file  == SubSeq(line, past, next - 1)
           op    == << Token(value, OperatorType(start), FALSE) >>
           rest  == IF file = <<>> THEN <<>> ELSE << Token(file, "word", FALSE) >>
<1>1. At(start) \in Operators /\ tokens' = tokens \o op \o rest
  BY DEF Operator
<1>2. /\ start \in 1 .. Len(line) /\ past \in start + 1 .. Len(line) + 1
      /\ FileEnd(past) \in past .. Len(line) + 1 /\ Len(line) \in Nat
  BY <1>1, OperatorEnd, LineIs DEF PosInv
<1>3. OperatorType(start) \in TokenType \ {"command"} /\ "word" \in TokenType \ {"command"}
  BY <1>1 DEF OperatorType, TokenType, Operators, Redirects
<1> HIDE DEF past, start
<1>4. next \in past .. Len(line) + 1 /\ past \in 1 .. Len(line) + 1
      /\ past \in start .. Len(line) + 1 /\ start \in 1 .. Len(line) + 1
  BY <1>2
<1> HIDE DEF next
<1>5. value \in Text /\ file \in Text
  BY <1>4, PartOfLine
<1> HIDE DEF value, file
<1>6. Text \cup {value} = Text /\ Text \cup {file} = Text
  BY <1>5
<1>7. op \in Seq(RawOf({value}))
  BY <1>3, OneToken
<1>8. rest \in Seq(RawOf({file}))
  <2>1. << Token(file, "word", FALSE) >> \in Seq(RawOf({file}))
    BY <1>3, OneToken
  <2>2. <<>> \in Seq(RawOf({file}))
    BY EmptySeq
  <2> QED
    BY <2>1, <2>2
<1> HIDE DEF op, rest
<1>9. tokens \o op \in Seq(RawOf(Text))
  BY <1>6, <1>7, RawJoined
<1>10. (tokens \o op) \o rest \in Seq(RawOf(Text))
  BY <1>6, <1>8, <1>9, RawJoined
<1> QED
  BY <1>1, <1>10

LEMMA TokenizeKeepsText ==
  ASSUME PosInv, TextInv, Tokenize
  PROVE  TextInv'
<1>1. /\ phase = "tokenize" /\ dangling' = dangling /\ commands' = commands
      /\ tokens \in Seq(RawOf(Text)) /\ commands = <<>> /\ dangling \in BOOLEAN
  BY DEF Tokenize, TextInv, RawPhases
<1>2. SUFFICES phase' \in {"tokenize", "unclosed"} /\ tokens' \in Seq(RawOf(Text))
  BY <1>1 DEF TextInv, RawPhases, ReadyPhases
<1>3. CASE Operator
  BY <1>1, <1>3, OperatorKeepsText DEF Operator
<1>4. CASE Word
  <2> DEFINE start == Start
             next  == StopAt(start, Blanks \cup Operators \cup Quotes)
             value == SubSeq(line, start, next - 1)
  <2>1. /\ tokens' = IF next = start THEN tokens
                     ELSE Append(tokens, Token(value, "word", JoinsWord(next)))
        /\ phase' = phase
    BY <1>4 DEF Word
  <2>2. start \in pos .. Len(line) + 1 /\ next \in start .. Len(line) + 1
    BY WordEnd
  <2>3. Len(line) \in Nat /\ pos \in Nat /\ pos >= 1
    BY LineIs DEF PosInv
  <2>4. JoinsWord(next) \in BOOLEAN /\ "word" \in TokenType \ {"command"}
    BY DEF JoinsWord, TokenType
  <2> HIDE DEF start, next
  <2>5. start \in 1 .. Len(line) + 1
    BY <2>2, <2>3
  <2>6. value \in Text
    BY <2>2, <2>5, PartOfLine
  <2> HIDE DEF value
  <2>7. Append(tokens, Token(value, "word", JoinsWord(next))) \in Seq(RawOf(Text))
    BY <1>1, <2>4, <2>6, TextAppended
  <2> QED
    BY <1>1, <2>1, <2>7
<1>5. CASE Quoted
  <2> DEFINE i == Start + 1
             type == IF At(i - 1) = "'" THEN "single" ELSE "double"
             value == QuotedText(i)
             joins == JoinsQuoted(PastQuoted(i))
  <2>1. /\ tokens' = Append(tokens, Token(value, type, joins)) /\ phase' = phase
        /\ At(i - 1) \in Quotes /\ At(ClosedAt(i)) # End
    BY <1>5 DEF Quoted
  <2>2. joins \in BOOLEAN /\ type \in TokenType \ {"command"}
    BY DEF JoinsQuoted, TokenType
  <2>3. i - 1 = Start
    BY StartIs, LineIs DEF PosInv
  <2>4. value \in Text
    BY <2>1, <2>3, QuotedIsText
  <2> HIDE DEF value, joins, type, i
  <2> QED
    BY <1>1, <2>1, <2>2, <2>4, TextAppended
<1>6. CASE Unclosed
  BY <1>6, EmptySeq DEF Unclosed
<1> QED
  BY <1>3, <1>4, <1>5, <1>6 DEF Tokenize

LEMMA ExpandKeepsText ==
  ASSUME TokensInv, TextInv, Tokenized \/ DropDollar \/ ExpandToken \/ ExpansionDone
  PROVE  TextInv'
<1>1. /\ phase \in {"tokenize", "expand"} /\ commands' = commands
      /\ tokens \in Seq(RawOf(Text)) /\ commands = <<>> /\ dangling \in BOOLEAN
      /\ cur \in Nat \ {0} /\ Len(tokens) \in Nat
  <2>1. phase \in {"tokenize", "expand"} /\ commands' = commands
    BY DEF Tokenized, DropDollar, ExpandToken, ExpansionDone, AtToken
  <2>2. tokens \in Seq(RawOf(Text)) /\ commands = <<>> /\ dangling \in BOOLEAN
    BY <2>1 DEF TextInv, RawPhases
  <2>3. Len(tokens) \in Nat /\ cur \in Nat \ {0}
    BY <2>2, LenProperties DEF TokensInv
  <2> QED
    BY <2>1, <2>2, <2>3
<1>2. SUFFICES phase' \in {"blank", "expand", "merge", "undefined"} /\ dangling' \in BOOLEAN
               /\ tokens' \in Seq(RawOf(Text))
  BY <1>1 DEF TextInv, RawPhases, ReadyPhases
<1>3. CASE Tokenized
  BY <1>1, <1>3 DEF Tokenized
<1>4. CASE DropDollar
  <2> DEFINE s == SubSeq(tokens, 1, cur - 1)  t == SubSeq(tokens, cur + 1, Len(tokens))
  <2>1. /\ phase = "expand" /\ cur <= Len(tokens) /\ tokens' = s \o t
        /\ phase' \in {"expand", "undefined"} /\ dangling' \in BOOLEAN
    BY <1>1, <1>4 DEF DropDollar, AtToken, RemoveAt
  <2>2. s \in Seq(RawOf(Text)) /\ t \in Seq(RawOf(Text))
    BY <1>1, <2>1, RawPart
  <2> HIDE DEF s, t
  <2>3. tokens' \in Seq(RawOf(Text))
    BY <2>1, <2>2, ConcatProperties
  <2> QED
    BY <2>1, <2>3
<1>5. CASE ExpandToken
  <2> DEFINE v == Expanded(tokens[cur].value)
  <2>1. /\ phase' = "expand" /\ dangling' = dangling /\ cur \in 1 .. Len(tokens)
        /\ \/ tokens' = tokens
           \/ ~Endless(tokens[cur].value) /\ tokens' = Changed(tokens, cur, v)
    BY <1>1, <1>5 DEF ExpandToken, AtToken, Changed
  <2>2. tokens[cur].value \in Text
    <3>1. tokens[cur] \in RawOf(Text)
      BY <1>1, <2>1, ElementOfSeq
    <3> QED
      BY <3>1 DEF RawOf
  <2>3. ~Endless(tokens[cur].value) => v \in Text
    BY <2>2, ExpandedIs
  <2> HIDE DEF v
  <2>4. ASSUME v \in Text PROVE Changed(tokens, cur, v) \in Seq(RawOf(Text))
    <3>1. Text \cup {v} = Text
      BY <2>4
    <3>2. Changed(tokens, cur, v) \in Seq(RawOf(Text \cup {v}))
      BY <1>1, <2>1, RawChanged, Zenon
    <3> QED
      BY <3>1, <3>2
  <2> QED
    BY <1>1, <2>1, <2>3, <2>4
<1>6. CASE ExpansionDone
  BY <1>1, <1>6 DEF ExpansionDone
<1> QED
  BY <1>3, <1>4, <1>5, <1>6

LEMMA MergeKeepsText ==
  ASSUME TokensInv, TextInv, MergeToken \/ CheckFormatCommand
  PROVE  TextInv'
<1>1. phase = "merge" /\ commands' = commands /\ dangling' = dangling
  BY DEF MergeToken, CheckFormatCommand
<1>2. tokens \in Seq(RawOf(Text)) /\ commands = <<>> /\ dangling \in BOOLEAN
  BY <1>1 DEF TextInv, RawPhases
<1>3. cur \in Nat \ {0} /\ Len(tokens) \in Nat
  BY <1>2, LenProperties DEF TokensInv
<1>4. CASE MergeToken /\ Merges(tokens[cur])
  <2> DEFINE s == SubSeq(tokens, 1, cur - 1)
             t == Merged(tokens[cur], tokens[cur + 1])
             u == SubSeq(tokens, cur + 2, Len(tokens))
             o == << t >>
  <2>1. cur < Len(tokens) /\ tokens' = (s \o o) \o u /\ phase' = phase
    BY <1>4 DEF MergeToken
  <2>2. s \in Seq(RawOf(Text)) /\ u \in Seq(RawOf(Text))
    BY <1>2, <1>3, <2>1, RawPart
  <2>3. tokens[cur] \in RawOf(Text) /\ tokens[cur + 1] \in RawOf(Text)
    <3>1. cur \in 1 .. Len(tokens) /\ cur + 1 \in 1 .. Len(tokens)
      BY <1>3, <2>1
    <3> QED
      BY <1>2, <3>1, ElementOfSeq
  <2>4. t \in RawOf(Text)
    <3> DEFINE v == tokens[cur].value \o tokens[cur + 1].value
    <3>1. t = [tokens[cur] EXCEPT !.value = v, !.consecutive = tokens[cur + 1].consecutive]
      BY DEF Merged
    <3>2. tokens[cur].value \in Text /\ tokens[cur + 1].value \in Text
      BY <2>3 DEF RawOf
    <3>3. v \in Text
      BY <3>2, Concatenated
    <3> HIDE DEF v, t
    <3> QED
      BY <2>3, <3>1, <3>3 DEF RawOf
  <2> HIDE DEF s, t, u
  <2>5. o \in Seq(RawOf(Text))
    BY <2>4
  <2> HIDE DEF o
  <2>6. tokens' \in Seq(RawOf(Text))
    BY <2>1, <2>2, <2>5, ConcatProperties
  <2> QED
    BY <1>1, <1>2, <2>1, <2>6 DEF TextInv, RawPhases, ReadyPhases
<1>5. CASE MergeToken /\ ~Merges(tokens[cur])
  BY <1>1, <1>2, <1>5 DEF MergeToken, TextInv, RawPhases, ReadyPhases
<1>6. CASE CheckFormatCommand
  <2>1. tokens' \in Seq(ReadyOf(Text)) /\ phase' = "validate"
    BY <1>2, <1>6, RawClassified DEF CheckFormatCommand
  <2> QED
    BY <1>1, <1>2, <2>1 DEF TextInv, RawPhases, ReadyPhases
<1> QED
  BY <1>4, <1>5, <1>6

LEMMA TextIsKept ==
  ASSUME TokensInv, PosInv, TextInv, [Next]_vars
  PROVE  TextInv'
<1>1. CASE UNCHANGED vars
  BY <1>1 DEF TextInv, vars
<1>2. CASE ValidateTokens \/ ParseWord \/ ParseRedirect \/ ParseHeredoc \/ ParsePipe
           \/ ParseAnd \/ Parsed
  <2>1. /\ phase \in {"validate", "parse"} /\ tokens' = tokens /\ dangling' = dangling
        /\ \/ phase' \in {"parse", "parsed"}
           \/ phase = "validate" /\ phase' = "refused" /\ commands' = commands
    BY <1>2 DEF ValidateTokens, ParseWord, ParseRedirect, ParseHeredoc, ParsePipe, ParseAnd,
       Parsed, ParseMoves, AtToken
  <2> QED
    BY <2>1 DEF TextInv, RawPhases, ReadyPhases
<1> QED
  BY <1>1, <1>2, TokenizeKeepsText, ExpandKeepsText, MergeKeepsText DEF Next

LEMMA TextTypes ==
  ASSUME TokensInv, ParseInv, PosInv, TextInv
  PROVE  TypeOK
<1> DEFINE TokenOf == [value : Text, type : TokenType, consecutive : BOOLEAN]
<1>1. tokens \in Seq(TokenOf)
  <2>1. RawOf(Text) \subseteq TokenOf /\ ReadyOf(Text) \subseteq TokenOf
    BY DEF RawOf, ReadyOf
  <2> HIDE DEF TokenOf
  <2>2. Seq(RawOf(Text)) \subseteq Seq(TokenOf) /\ Seq(ReadyOf(Text)) \subseteq Seq(TokenOf)
    BY <2>1, SeqMonotonic
  <2> QED
    BY <2>2 DEF TextInv
<1>2. Values \subseteq Text
  <2>1. \A i \in 1 .. Len(tokens) : tokens[i] \in TokenOf
    BY <1>1, ElementOfSeq
  <2> QED
    BY <2>1 DEF Values
<1>3. commands \in Seq(Command)
  <2>1. CASE phase \in {"parse", "parsed"}
    <3>1. Seq(Values) \subseteq Seq(Text)
      BY <1>2, SeqMonotonic
    <3> DEFINE F(V) == [file : V, type : FileType]
    <3>2. F(Values) \subseteq F(Text)
      BY <1>2
    <3> HIDE DEF F
    <3>3. Seq(F(Values)) \subseteq Seq(F(Text))
      BY <3>2, SeqMonotonic
    <3>4. CommandOf(Values) \subseteq Command
      <4>1. CommandOf(Values) \subseteq [args : Seq(Text), redirects : Seq(F(Text)),
                                         delimiter : Seq(Text), expand : BOOLEAN]
        <5> DEFINE A == Seq(Values)  B == Seq(Text)  R == Seq(F(Values))  S == Seq(F(Text))
        <5>1. CommandOf(Values) = [args : A, redirects : R, delimiter : A, expand : BOOLEAN]
          BY DEF CommandOf, F
        <5>2. A \subseteq B /\ R \subseteq S
          BY <3>1, <3>3
        <5> HIDE DEF A, B, R, S
        <5>3. CommandOf(Values) \subseteq [args : B, redirects : S, delimiter : B,
                                           expand : BOOLEAN]
          BY <5>1, <5>2
        <5> QED
          BY <5>3 DEF B, S
      <4> QED
        BY <4>1 DEF Command, F, Text
    <3>5. commands \in Seq(CommandOf(Values))
      BY <2>1 DEF ParseInv
    <3> QED
      BY <3>4, <3>5, SeqMonotonic
  <2>2. CASE phase \notin {"parse", "parsed"}
    BY <2>2, EmptySeq DEF TextInv
  <2> QED
    BY <2>1, <2>2
<1>4. line \in Text /\ pos \in 1 .. Len(line) + 1
  BY LineIsText DEF PosInv
<1>5. cur \in Nat \ {0} /\ dangling \in BOOLEAN
  BY DEF TokensInv, TextInv
<1>6. phase \in {"tokenize", "expand", "merge", "validate", "parse",
                 "blank", "unclosed", "refused", "parsed", "undefined"}
  BY DEF TextInv, RawPhases, ReadyPhases
<1> QED
  BY <1>1, <1>3, <1>4, <1>5, <1>6 DEF TypeOK

-----------------------------------------------------------------------------
(* The quote that is open before a character *)

\* OpenQuote looks at one character after the other.
LEMMA QuoteSteps ==
  ASSUME line \in Seq(Characters)
  PROVE  /\ OpenQuote[1] = NoQuote
         /\ \A i \in 1 .. Len(line) :
              OpenQuote[i + 1] =
                IF OpenQuote[i] = NoQuote /\ At(i) \in Quotes THEN At(i)
                ELSE IF At(i) = OpenQuote[i] THEN NoQuote ELSE OpenQuote[i]
<1> DEFINE n == Len(line)
           s(q, c) == IF q = NoQuote /\ c \in Quotes THEN c ELSE IF c = q THEN NoQuote ELSE q
           e(f, i) == IF i = 1 THEN NoQuote ELSE s(f[i - 1], line[i - 1])
           P(f, m) == f = [i \in 1 .. m + 1 |-> e(f, i)]
           T == {m \in 0 .. n : \E g : P(g, m)}
<1>1. n \in Nat
  BY LineIs
<1>2. 0 \in T
  <2> DEFINE g == [i \in 1 .. 0 + 1 |-> NoQuote]
  <2>1. \A i \in 1 .. 0 + 1 : i = 1
    OBVIOUS
  <2>2. P(g, 0)
    BY <2>1
  <2>3. 0 \in 0 .. n
    BY <1>1
  <2> HIDE DEF P, g
  <2> QED
    BY <2>2, <2>3
<1>3. ASSUME NEW m \in 0 .. n - 1, m \in T PROVE m + 1 \in T
  <2>1. PICK g : P(g, m)
    BY <1>3
  <2> DEFINE h == [i \in 1 .. m + 1 + 1 |->
                     IF i = m + 2 THEN s(g[m + 1], line[m + 1]) ELSE g[i]]
  <2>2. \A i \in 1 .. m + 1 : g[i] = e(g, i)
    BY <2>1
  <2>3. m \in Nat /\ m + 1 \in 0 .. n /\ \A i \in 1 .. m + 1 : h[i] = g[i]
    BY <1>1, <1>3
  <2>4. h[m + 2] = s(g[m + 1], line[m + 1])
    BY <2>3
  <2> HIDE DEF h, s
  <2>5. ASSUME NEW i \in 1 .. m + 1 + 1 PROVE h[i] = e(h, i)
    <3>1. CASE i = m + 2
      <4>1. i # 1 /\ i - 1 = m + 1 /\ h[m + 1] = g[m + 1]
        BY <2>3, <3>1
      <4> QED
        BY <2>4, <3>1, <4>1
    <3>2. CASE i \in 2 .. m + 1
      <4>1. i \in 1 .. m + 1 /\ i - 1 \in 1 .. m + 1 /\ i # 1
        BY <2>3, <3>2
      <4>2. h[i] = g[i] /\ h[i - 1] = g[i - 1]
        BY <2>3, <4>1
      <4>3. g[i] = e(g, i)
        BY <2>2, <4>1
      <4> QED
        BY <4>1, <4>2, <4>3
    <3>3. CASE i = 1
      <4>1. 1 \in 1 .. m + 1
        BY <2>3
      <4>2. h[1] = g[1] /\ g[1] = e(g, 1)
        BY <2>2, <2>3, <4>1
      <4> QED
        BY <3>3, <4>2
    <3> QED
      BY <2>3, <3>1, <3>2, <3>3
  <2>6. h = [i \in 1 .. m + 1 + 1 |-> h[i]]
    BY DEF h
  <2> HIDE DEF e
  <2>7. P(h, m + 1)
    BY <2>5, <2>6
  <2> HIDE DEF P
  <2> QED
    BY <2>3, <2>7
<1>4. n \in T
  <2> HIDE DEF T, n
  <2>1. \A k \in 0 .. n : k \in T
    BY <1>1, <1>2, <1>3, UpTo
  <2> QED
    BY <1>1, <2>1
<1>5. OpenQuote = CHOOSE f : P(f, n)
  BY DEF OpenQuote
<1>6. P(OpenQuote, n)
  <2>1. \E g : P(g, n)
    BY <1>4
  <2> HIDE DEF P
  <2> QED
    BY <1>5, <2>1
<1>7. \A i \in 1 .. n + 1 : OpenQuote[i] = e(OpenQuote, i)
  <2> DEFINE oq == OpenQuote
  <2>1. oq = [i \in 1 .. n + 1 |-> e(oq, i)]
    BY <1>6
  <2> HIDE DEF oq, n, e
  <2>2. \A i \in 1 .. n + 1 : oq[i] = e(oq, i)
    BY <2>1
  <2> QED
    BY <2>2 DEF oq
<1>8. OpenQuote[1] = NoQuote
  <2>1. 1 \in 1 .. n + 1
    BY <1>1
  <2> HIDE DEF n, s
  <2> QED
    BY <1>7, <2>1
<1>9. ASSUME NEW i \in 1 .. n
      PROVE  OpenQuote[i + 1] = s(OpenQuote[i], At(i))
  <2>1. i + 1 \in 1 .. n + 1 /\ i + 1 # 1 /\ i + 1 - 1 = i
    BY <1>1
  <2>2. line[i] = At(i)
    BY LineIs
  <2> HIDE DEF n, s
  <2>3. OpenQuote[i + 1] = e(OpenQuote, i + 1)
    BY <1>7, <2>1
  <2> QED
    BY <2>1, <2>2, <2>3
<1> QED
  BY <1>8, <1>9

\* Characters that neither open nor close a quote leave it as it is.
LEMMA QuoteStays ==
  ASSUME PosInv, NEW a \in 1 .. Len(line) + 1, NEW b \in a .. Len(line) + 1,
         \A k \in a .. b - 1 :
           IF OpenQuote[a] = NoQuote THEN At(k) \notin Quotes ELSE At(k) # OpenQuote[a]
  PROVE  OpenQuote[b] = OpenQuote[a]
<1> DEFINE n == b - a
           T == {m \in 0 .. n : OpenQuote[a + m] = OpenQuote[a]}
<1>1. Len(line) \in Nat /\ n \in Nat /\ a \in Nat /\ b \in Nat /\ a + n = b
  BY LineIs DEF PosInv
<1>2. 0 \in T
  BY <1>1
<1>3. ASSUME NEW m \in 0 .. n - 1, m \in T PROVE m + 1 \in T
  <2>1. /\ a + m \in 1 .. Len(line) /\ a + m \in a .. b - 1 /\ m + 1 \in 0 .. n
        /\ (a + m) + 1 = a + (m + 1)
    BY <1>1
  <2> DEFINE i == a + m
  <2>2. OpenQuote[i] = OpenQuote[a]
    BY <1>3
  <2>3. OpenQuote[i + 1] = IF OpenQuote[i] = NoQuote /\ At(i) \in Quotes THEN At(i)
                           ELSE IF At(i) = OpenQuote[i] THEN NoQuote ELSE OpenQuote[i]
    BY <2>1, QuoteSteps DEF PosInv
  <2>4. IF OpenQuote[a] = NoQuote THEN At(i) \notin Quotes ELSE At(i) # OpenQuote[a]
    BY <2>1
  <2> HIDE DEF i
  <2>5. OpenQuote[i + 1] = OpenQuote[a]
    BY <2>2, <2>3, <2>4
  <2> QED
    BY <2>1, <2>5 DEF i
<1> HIDE DEF T, n
<1>4. \A m \in 0 .. n : m \in T
  BY <1>1, <1>2, <1>3, UpTo
<1>5. n \in T
  BY <1>1, <1>4
<1> QED
  BY <1>1, <1>5 DEF T

\* A quote opens where none is open, and the same closes it.
LEMMA QuoteTurns ==
  ASSUME PosInv, NEW i \in 1 .. Len(line), At(i) \in Quotes
  PROVE  /\ OpenQuote[i] = NoQuote => OpenQuote[i + 1] = At(i)
         /\ OpenQuote[i] = At(i) => OpenQuote[i + 1] = NoQuote
<1>1. At(i) # NoQuote
  BY DEF Quotes, NoQuote
<1> QED
  BY <1>1, QuoteSteps DEF PosInv

LEMMA UnquotedStart ==
  ASSUME PosInv, OpenQuote[pos] = NoQuote
  PROVE  OpenQuote[Start] = NoQuote
<1> DEFINE b == PastBlanks(pos)
<1>1. Len(line) \in Nat /\ pos \in 1 .. Len(line) + 1 /\ pos \in Nat
  BY LineIs DEF PosInv
<1>2. b \in pos .. Len(line) + 1 /\ \A k \in pos .. b - 1 : At(k) \notin Quotes
  <2>1. b \in pos .. Len(line) + 1 /\ \A k \in pos .. b - 1 : At(k) \in Blanks
    BY <1>1, PastBlanksIs DEF PosInv
  <2> HIDE DEF b
  <2> QED
    BY <2>1 DEF Blanks, Quotes
<1> HIDE DEF b
<1>3. OpenQuote[b] = NoQuote
  BY <1>1, <1>2, QuoteStays
<1>4. Start = PastEmptyQuotes(b)
  BY DEF Start, b
<1>5. CASE At(b) \in Quotes /\ At(b) = At(b + 1) /\ At(b + 2) \notin Blanks
  <2>1. Start = b + 2
    BY <1>4, <1>5 DEF PastEmptyQuotes
  <2>2. At(b) # End /\ At(b + 1) # End
    BY <1>5 DEF Quotes, End
  <2>3. b \in 1 .. Len(line) /\ b + 1 \in 1 .. Len(line)
    BY <1>1, <1>2, <2>2, InLine DEF PosInv
  <2>4. OpenQuote[b + 1] = At(b + 1)
    BY <1>3, <1>5, <2>3, QuoteTurns
  <2>5. OpenQuote[(b + 1) + 1] = NoQuote
    BY <1>5, <2>3, <2>4, QuoteTurns
  <2>6. (b + 1) + 1 = b + 2
    BY <1>1, <1>2
  <2> QED
    BY <2>1, <2>5, <2>6
<1>6. CASE ~(At(b) \in Quotes /\ At(b) = At(b + 1) /\ At(b + 2) \notin Blanks)
  BY <1>3, <1>4, <1>6 DEF PastEmptyQuotes
<1> QED
  BY <1>5, <1>6

\* The lexer is never inside a quoted text between two tokens.
LEMMA UnquotedOperator ==
  ASSUME PosInv, OpenQuote[Start] = NoQuote, At(Start) \in Operators, NEW past,
         past = IF Doubled(Start) THEN Start + 2 ELSE Start + 1
  PROVE  OpenQuote[past] = NoQuote /\ OpenQuote[FileEnd(past)] = NoQuote
<1>1. /\ Start \in 1 .. Len(line) /\ past \in Start + 1 .. Len(line) + 1
      /\ FileEnd(past) \in past .. Len(line) + 1 /\ Len(line) \in Nat
  BY OperatorEnd, LineIs DEF PosInv
<1>2. At(Start) \notin Quotes /\ (Doubled(Start) => At(Start + 1) \notin Quotes)
  BY DEF Operators, Redirects, Quotes, Doubled
<1>3. \A k \in Start .. past - 1 : At(k) \notin Quotes
  <2>1. \A k \in Start .. past - 1 : k = Start \/ (Doubled(Start) /\ k = Start + 1)
    BY <1>1
  <2> QED
    BY <1>2, <2>1
<1>4. Start \in 1 .. Len(line) + 1 /\ past \in Start .. Len(line) + 1 /\ past \in 1 .. Len(line) + 1
  BY <1>1
<1>5. OpenQuote[past] = NoQuote
  BY <1>3, <1>4, QuoteStays
<1>6. \A k \in past .. FileEnd(past) - 1 : At(k) \notin Quotes
  BY <1>4, StopAtIs DEF FileEnd, PosInv
<1>7. OpenQuote[FileEnd(past)] = NoQuote
  BY <1>1, <1>4, <1>5, <1>6, QuoteStays
<1> QED
  BY <1>5, <1>7

LEMMA UnquotedWord ==
  ASSUME PosInv, OpenQuote[Start] = NoQuote
  PROVE  OpenQuote[StopAt(Start, Blanks \cup Operators \cup Quotes)] = NoQuote
<1> DEFINE stops == Blanks \cup Operators \cup Quotes
           next == StopAt(Start, stops)
<1>1. Start \in pos .. Len(line) + 1 /\ next \in Start .. Len(line) + 1 /\ Len(line) \in Nat
  BY WordEnd, LineIs DEF PosInv
<1>2. Start \in 1 .. Len(line) + 1
  BY <1>1 DEF PosInv
<1>3. \A k \in Start .. next - 1 : At(k) \notin stops
  BY <1>2, StopAtIs DEF PosInv
<1>4. \A k \in Start .. next - 1 : At(k) \notin Quotes
  BY <1>3
<1> HIDE DEF next
<1>5. OpenQuote[next] = NoQuote
  BY <1>1, <1>2, <1>4, QuoteStays
<1> QED
  BY <1>5 DEF next

LEMMA UnquotedQuoted ==
  ASSUME PosInv, OpenQuote[Start] = NoQuote, At(Start) \in Quotes, NEW i, i = Start + 1,
         At(ClosedAt(i)) # End
  PROVE  OpenQuote[PastQuoted(i)] = NoQuote
<1>1. /\ i - 1 = Start /\ Start \in 1 .. Len(line)
      /\ ClosedAt(i) \in i .. Len(line)
      /\ PastQuoted(i) \in i + 1 .. Len(line) + 1 /\ Len(line) \in Nat
  BY QuotedEnd, LineIs DEF PosInv
<1>2. OpenQuote[i] = At(Start) /\ At(Start) # NoQuote
  <2>1. At(Start) # NoQuote
    BY DEF Quotes, NoQuote
  <2> QED
    BY <1>1, <2>1, QuoteTurns
<1>3. CASE At(i) = At(i - 1) /\ At(i + 1) \in Blanks
  <2>1. At(i) # End /\ At(i + 1) # End /\ At(i + 1) \notin Quotes
    BY <1>1, <1>3 DEF Quotes, Blanks, End
  <2>2. i \in 1 .. Len(line) /\ i + 1 \in 1 .. Len(line)
    BY <1>1, <2>1, InLine DEF PosInv
  <2>3. OpenQuote[i + 1] = NoQuote
    BY <1>1, <1>2, <1>3, <2>2, QuoteTurns
  <2> DEFINE a == i + 1  b == i + 2
  <2>4. a \in 1 .. Len(line) + 1 /\ b \in a .. Len(line) + 1 /\ \A k \in a .. b - 1 : k = a
    BY <1>1, <2>2
  <2>5. \A k \in a .. b - 1 : At(k) \notin Quotes
    BY <2>1, <2>4
  <2> HIDE DEF a, b
  <2>6. OpenQuote[a] = NoQuote
    BY <2>3 DEF a
  <2>7. OpenQuote[b] = NoQuote
    BY <2>4, <2>5, <2>6, QuoteStays
  <2> QED
    BY <1>3, <2>7 DEF PastQuoted, b
<1>4. CASE ~(At(i) = At(i - 1) /\ At(i + 1) \in Blanks)
  <2> DEFINE c == ClosedAt(i)
  <2>1. i \in 1 .. Len(line) + 1 /\ c \in i .. Len(line) + 1 /\ c \in 1 .. Len(line)
    BY <1>1
  <2>2. /\ At(c) \in {At(i - 1)} \cup {End}
        /\ \A k \in i .. c - 1 : At(k) \notin {At(i - 1)}
    BY <2>1, StopAtIs DEF ClosedAt, PosInv
  <2> HIDE DEF c
  <2>3. At(c) # End
    BY DEF c
  <2>4. At(c) = At(Start) /\ \A k \in i .. c - 1 : At(k) # At(Start)
    BY <1>1, <2>2, <2>3
  <2>5. OpenQuote[c] = At(Start)
    BY <1>2, <2>1, <2>4, QuoteStays
  <2>6. OpenQuote[c + 1] = NoQuote
    BY <2>1, <2>4, <2>5, QuoteTurns
  <2> QED
    BY <1>4, <2>6 DEF PastQuoted, c
<1> QED
  BY <1>3, <1>4

-----------------------------------------------------------------------------
(* The operators among the tokens *)

\* Kinds of operators, and how many characters one of a kind has at least.
Kind == {"pipe", "redirect", "heredoc"}
Types(kind)  == IF kind = "redirect" THEN FileType \cup {"heredoc"} ELSE {kind}
Chars(kind)  == IF kind = "pipe" THEN {"|"} ELSE IF kind = "heredoc" THEN {"<"} ELSE Redirects
Weight(kind) == IF kind = "heredoc" THEN 2 ELSE 1

OfType(ts, types) == {i \in DOMAIN ts : ts[i].type \in types}

Before(chars, k) == {i \in Unquoted(chars) : i < k}

Weighed(ts, kind) == Weight(kind) * Cardinality(OfType(ts, Types(kind)))

\* The operators of the list are no more than the unquoted ones that the lexer,
\* which is between two quoted texts, has passed.
LexInv ==
  /\ phase = "tokenize" =>
       /\ OpenQuote[pos] = NoQuote
       /\ \A kind \in Kind :
            Weighed(tokens, kind) <= Cardinality(Before(Chars(kind), pos))
  /\ phase \in {"expand", "merge", "validate", "parse", "parsed"} =>
       \A kind \in Kind :
         Weighed(tokens, kind) <= Cardinality(Unquoted(Chars(kind)))

LEMMA OfTypeIs ==
  ASSUME NEW S, NEW s \in Seq(S), NEW types
  PROVE  /\ OfType(s, types) \in SUBSET (1 .. Len(s)) /\ IsFiniteSet(OfType(s, types))
         /\ Cardinality(OfType(s, types)) \in Nat
<1>1. Len(s) \in Nat /\ DOMAIN s = 1 .. Len(s)
  BY LenProperties
<1>2. OfType(s, types) \in SUBSET (1 .. Len(s))
  BY <1>1 DEF OfType
<1>3. IsFiniteSet(1 .. Len(s))
  BY <1>1, FS_Interval
<1> QED
  BY <1>2, <1>3, FS_Subset, FS_CardinalityType

LEMMA WeightIs ==
  ASSUME NEW kind \in Kind, NEW m \in Nat, NEW n \in Nat
  PROVE  /\ Weight(kind) * m \in Nat /\ m <= Weight(kind) * m
         /\ m <= n => Weight(kind) * m <= Weight(kind) * n
         /\ m <= n + 1 => Weight(kind) * m <= Weight(kind) * n + Weight(kind)
<1>1. CASE Weight(kind) = 1
  BY <1>1
<1>2. CASE Weight(kind) = 2
  BY <1>2
<1> QED
  BY <1>1, <1>2 DEF Weight

LEMMA UnquotedIs ==
  ASSUME PosInv, NEW chars, NEW k
  PROVE  /\ Unquoted(chars) \in SUBSET (1 .. Len(line))
         /\ Before(chars, k) \in SUBSET Unquoted(chars)
         /\ IsFiniteSet(Unquoted(chars)) /\ Cardinality(Unquoted(chars)) \in Nat
         /\ IsFiniteSet(Before(chars, k)) /\ Cardinality(Before(chars, k)) \in Nat
<1>1. Len(line) \in Nat /\ DOMAIN line = 1 .. Len(line)
  BY LineIs DEF PosInv
<1>2. /\ Unquoted(chars) \in SUBSET (1 .. Len(line))
      /\ Before(chars, k) \in SUBSET Unquoted(chars)
  BY <1>1 DEF Unquoted, Before
<1>3. IsFiniteSet(1 .. Len(line))
  BY <1>1, FS_Interval
<1>4. IsFiniteSet(Unquoted(chars))
  BY <1>2, <1>3, FS_Subset
<1>5. IsFiniteSet(Before(chars, k))
  BY <1>2, <1>4, FS_Subset
<1> QED
  BY <1>2, <1>4, <1>5, FS_CardinalityType

\* The lexer passes what it passes, and an operator on the way is one more.
LEMMA Passed ==
  ASSUME PosInv, NEW b \in pos .. Len(line) + 1, NEW chars
  PROVE  /\ Cardinality(Before(chars, pos)) <= Cardinality(Before(chars, b))
         /\ \A k \in pos .. b - 1 : k \in Unquoted(chars) =>
              /\ Cardinality(Before(chars, pos)) + 1 <= Cardinality(Before(chars, b))
              /\ k + 1 \in Unquoted(chars) /\ k + 1 < b =>
                   Cardinality(Before(chars, pos)) + 2 <= Cardinality(Before(chars, b))
<1>1. Len(line) \in Nat /\ pos \in Nat /\ b \in Nat /\ pos <= b
  BY LineIs DEF PosInv
<1>2. /\ Unquoted(chars) \in SUBSET (1 .. Len(line))
      /\ IsFiniteSet(Before(chars, pos)) /\ Cardinality(Before(chars, pos)) \in Nat
      /\ IsFiniteSet(Before(chars, b)) /\ Cardinality(Before(chars, b)) \in Nat
  BY UnquotedIs
<1>3. Before(chars, pos) \in SUBSET Before(chars, b)
  BY <1>1, <1>2 DEF Before
<1>4. Cardinality(Before(chars, pos)) <= Cardinality(Before(chars, b))
  BY <1>2, <1>3, FS_Subset
<1>5. ASSUME NEW k \in pos .. b - 1, k \in Unquoted(chars)
      PROVE  /\ Cardinality(Before(chars, pos)) + 1 <= Cardinality(Before(chars, b))
             /\ k + 1 \in Unquoted(chars) /\ k + 1 < b =>
                  Cardinality(Before(chars, pos)) + 2 <= Cardinality(Before(chars, b))
  <2>1. k \notin Before(chars, pos) /\ k \in Before(chars, b)
    BY <1>1, <1>5 DEF Before
  <2> DEFINE more == Before(chars, pos) \cup {k}
  <2>2. more \in SUBSET Before(chars, b)
    BY <1>3, <2>1
  <2>3. IsFiniteSet(more) /\ Cardinality(more) = Cardinality(Before(chars, pos)) + 1
    BY <1>2, <2>1, FS_AddElement
  <2>4. k + 1 \notin more
    BY <1>1, <1>5 DEF Before
  <2> HIDE DEF more
  <2>5. Cardinality(more) <= Cardinality(Before(chars, b))
    BY <1>2, <2>2, FS_Subset
  <2>6. ASSUME k + 1 \in Unquoted(chars), k + 1 < b
        PROVE  Cardinality(Before(chars, pos)) + 2 <= Cardinality(Before(chars, b))
    <3> DEFINE both == more \cup {k + 1}
    <3>1. both \in SUBSET Before(chars, b)
      BY <2>2, <2>6 DEF Before
    <3>2. Cardinality(both) = Cardinality(more) + 1
      BY <2>3, <2>4, FS_AddElement
    <3> HIDE DEF both
    <3>3. Cardinality(both) <= Cardinality(Before(chars, b))
      BY <1>2, <3>1, FS_Subset
    <3> QED
      BY <1>2, <2>3, <3>2, <3>3
  <2> QED
    BY <2>3, <2>5, <2>6
<1> QED
  BY <1>4, <1>5

LEMMA TypesAppended ==
  ASSUME NEW S, NEW s \in Seq(S), NEW t \in S, NEW types
  PROVE  /\ t.type \notin types => OfType(Append(s, t), types) = OfType(s, types)
         /\ Cardinality(OfType(Append(s, t), types)) <= Cardinality(OfType(s, types)) + 1
<1> DEFINE n == Len(s)  r == Append(s, t)
<1>1. n \in Nat /\ DOMAIN s = 1 .. n
  BY LenProperties
<1>2. /\ r \in Seq(S) /\ Len(r) = n + 1
      /\ \A i \in 1 .. n : r[i] = s[i]
      /\ r[n + 1] = t
  BY AppendProperties
<1> HIDE DEF r, n
<1>3. DOMAIN r = 1 .. n + 1
  BY <1>1, <1>2, LenProperties
<1>4. \A i \in 1 .. n + 1 : i \in 1 .. n \/ i = n + 1
  BY <1>1
<1>5. t.type \notin types => OfType(r, types) = OfType(s, types)
  BY <1>1, <1>2, <1>3, <1>4 DEF OfType
<1>6. OfType(r, types) \in SUBSET (OfType(s, types) \cup {n + 1})
  BY <1>1, <1>2, <1>3, <1>4 DEF OfType
<1>7. IsFiniteSet(OfType(s, types)) /\ Cardinality(OfType(s, types)) \in Nat
  BY OfTypeIs
<1>8. /\ IsFiniteSet(OfType(s, types) \cup {n + 1})
      /\ Cardinality(OfType(s, types) \cup {n + 1}) <= Cardinality(OfType(s, types)) + 1
  <2> DEFINE A == OfType(s, types)  x == n + 1
  <2> HIDE DEF A, x
  <2>1. IsFiniteSet(A) /\ Cardinality(A) \in Nat
    BY <1>7 DEF A
  <2>2. /\ IsFiniteSet(A \cup {x})
        /\ Cardinality(A \cup {x}) = IF x \in A THEN Cardinality(A) ELSE Cardinality(A) + 1
    BY <2>1, FS_AddElement
  <2>3. Cardinality(A \cup {x}) <= Cardinality(A) + 1
    BY <2>1, <2>2
  <2> QED
    BY <2>2, <2>3 DEF A, x
<1>9. /\ Cardinality(OfType(r, types)) <= Cardinality(OfType(s, types) \cup {n + 1})
      /\ Cardinality(OfType(s, types) \cup {n + 1}) \in Nat
      /\ Cardinality(OfType(r, types)) \in Nat
  BY <1>2, <1>6, <1>8, FS_Subset, FS_CardinalityType, OfTypeIs
<1> QED
  BY <1>5, <1>7, <1>8, <1>9 DEF r

\* A list whose tokens come from different tokens of another has no more of a
\* type than that one has.
LEMMA NoMoreTypes ==
  ASSUME NEW R, NEW r \in Seq(R), NEW S, NEW s \in Seq(S), NEW types,
         NEW f \in [1 .. Len(r) -> 1 .. Len(s)],
         \A i, j \in 1 .. Len(r) : f[i] = f[j] => i = j,
         \A i \in 1 .. Len(r) : r[i].type \in types => s[f[i]].type \in types
  PROVE  Cardinality(OfType(r, types)) <= Cardinality(OfType(s, types))
<1> DEFINE A == OfType(r, types)  B == OfType(s, types)  g == [i \in A |-> f[i]]
<1>1. A \in SUBSET (1 .. Len(r)) /\ IsFiniteSet(B)
  BY OfTypeIs
<1>2. DOMAIN s = 1 .. Len(s)
  BY LenProperties
<1>3. \A i \in A : f[i] \in B
  BY <1>1, <1>2 DEF OfType
<1> HIDE DEF A, B
<1>4. g \in [A -> B] /\ \A i, j \in A : g[i] = g[j] => i = j
  BY <1>1, <1>3
<1> HIDE DEF g
<1>5. g \in Injection(A, B)
  BY <1>4 DEF Injection, IsInjective
<1>6. Cardinality(A) <= Cardinality(B)
  BY <1>1, <1>5, FS_Injection
<1> QED
  BY <1>6 DEF A, B

\* One token less: RemoveAt, or two tokens merged.
LEMMA OneLess ==
  ASSUME NEW S, NEW s \in Seq(S), NEW R, NEW r \in Seq(R), NEW k \in 1 .. Len(s), NEW types,
         Len(r) = Len(s) - 1,
         \A i \in 1 .. Len(r) : \/ i <= k /\ (r[i].type \in types => s[i].type \in types)
                                \/ i >= k /\ (r[i].type \in types => s[i + 1].type \in types)
  PROVE  Cardinality(OfType(r, types)) <= Cardinality(OfType(s, types))
<1> DEFINE at(i) == i < k \/ (i = k /\ (r[i].type \in types => s[i].type \in types))
           f == [i \in 1 .. Len(r) |-> IF at(i) THEN i ELSE i + 1]
<1>1. Len(s) \in Nat /\ Len(r) \in Nat
  BY LenProperties
<1>2. f \in [1 .. Len(r) -> 1 .. Len(s)]
  BY <1>1
<1>3. \A i, j \in 1 .. Len(r) : i < j => f[i] # f[j]
  BY <1>1
<1>4. \A i, j \in 1 .. Len(r) : f[i] = f[j] => i = j
  <2> HIDE DEF f
  <2>1. \A i, j \in 1 .. Len(r) : i < j \/ j < i \/ i = j
    BY <1>1
  <2> QED
    BY <1>3, <2>1
<1>5. \A i \in 1 .. Len(r) : r[i].type \in types => s[f[i]].type \in types
  BY <1>1
<1> HIDE DEF f
<1> QED
  BY <1>2, <1>4, <1>5, NoMoreTypes

\* What the lexer does to its list, told apart from the rest of its step.
LEMMA LexerKeepsCount ==
  ASSUME PosInv, LexInv, TokensInv, phase = "tokenize", phase' = phase, line' = line,
         pos' \in pos .. Len(line) + 1, OpenQuote[pos'] = NoQuote,
         \A kind \in Kind :
           \/ Cardinality(OfType(tokens', Types(kind))) <= Cardinality(OfType(tokens, Types(kind)))
           \/ /\ Cardinality(OfType(tokens', Types(kind)))
                   <= Cardinality(OfType(tokens, Types(kind))) + 1
              /\ Cardinality(Before(Chars(kind), pos)) + Weight(kind)
                   <= Cardinality(Before(Chars(kind), pos')),
         \E V : tokens' \in Seq(RawOf(V))
  PROVE  LexInv'
<1>1. OpenQuote' = OpenQuote
  BY DEF OpenQuote
<1>2. \A chars, k : Before(chars, k)' = Before(chars, k')
  BY <1>1 DEF Before, Unquoted
<1>3. ASSUME NEW kind \in Kind
      PROVE  Weighed(tokens', kind) <= Cardinality(Before(Chars(kind), pos'))
  <2> DEFINE m == Cardinality(OfType(tokens', Types(kind)))
             n == Cardinality(OfType(tokens, Types(kind)))
             a == Cardinality(Before(Chars(kind), pos))
             b == Cardinality(Before(Chars(kind), pos'))
             w == Weight(kind)
  <2>1. n \in Nat /\ m \in Nat
    <3>1. PICK V : tokens \in Seq(RawOf(V))
      BY DEF TokensInv
    <3>2. PICK W : tokens' \in Seq(RawOf(W))
      OBVIOUS
    <3> QED
      BY <3>1, <3>2, OfTypeIs
  <2>2. a \in Nat /\ b \in Nat
    BY UnquotedIs
  <2>3. w * n <= a
    BY DEF LexInv, Weighed
  <2>4. a <= b
    BY Passed
  <2>5. m <= n \/ (m <= n + 1 /\ a + w <= b)
    OBVIOUS
  <2>6. /\ w * m \in Nat /\ w * n \in Nat /\ w \in Nat
        /\ m <= n => w * m <= w * n
        /\ m <= n + 1 => w * m <= w * n + w
    <3> HIDE DEF m, n
    <3>1. w \in Nat
      BY DEF Weight
    <3> QED
      BY <2>1, <3>1, WeightIs
  <2>7. w * m <= b
    <3> DEFINE x == w * m  y == w * n
    <3> HIDE DEF x, y, m, n, a, b, w
    <3>1. /\ x \in Nat /\ y \in Nat /\ w \in Nat /\ y <= a
          /\ m <= n => x <= y
          /\ m <= n + 1 => x <= y + w
      BY <2>3, <2>6 DEF x, y
    <3>2. x <= b
      BY <2>2, <2>4, <2>5, <3>1
    <3> QED
      BY <3>2 DEF x
  <2> QED
    BY <2>7 DEF Weighed
<1> QED
  BY <1>1, <1>2, <1>3 DEF LexInv, Weighed, OfType

\* The characters of an operator at the start are those that its token's type says.
LEMMA OperatorCounts ==
  ASSUME PosInv, OpenQuote[Start] = NoQuote, At(Start) \in Operators,
         NEW kind \in Kind, OperatorType(Start) \in Types(kind),
         NEW b \in (IF Doubled(Start) THEN Start + 2 ELSE Start + 1) .. Len(line) + 1
  PROVE  Cardinality(Before(Chars(kind), pos)) + Weight(kind) <= Cardinality(Before(Chars(kind), b))
<1> DEFINE s == Start
<1>1. s \in 1 .. Len(line) /\ Len(line) \in Nat /\ s \in pos .. Len(line) + 1 /\ pos \in Nat
  BY OperatorEnd, LineIs, StartIs DEF PosInv
<1>2. At(s) = line[s] /\ s \in DOMAIN line
  BY <1>1, LineIs DEF PosInv
<1>3. At(s) \in Chars(kind) /\ (Weight(kind) = 2 => At(s) = "<" /\ Doubled(s))
  <2>1. CASE kind = "pipe"
    BY <2>1 DEF Types, Chars, Weight, OperatorType, Operators, Redirects
  <2>2. CASE kind = "redirect"
    BY <2>2 DEF Types, Chars, Weight, OperatorType, Operators, Redirects, FileType
  <2>3. CASE kind = "heredoc"
    BY <2>3 DEF Types, Chars, Weight, OperatorType, Operators, Redirects
  <2> QED
    BY <2>1, <2>2, <2>3 DEF Kind
<1>4. s \in Unquoted(Chars(kind)) /\ b \in pos .. Len(line) + 1 /\ s \in pos .. b - 1
  BY <1>1, <1>2, <1>3 DEF Unquoted
<1> HIDE DEF s
<1>5. CASE Weight(kind) = 1
  BY <1>4, <1>5, Passed
<1>6. CASE Weight(kind) = 2
  <2>1. At(s) = "<" /\ At(s + 1) = "<" /\ Doubled(s)
    BY <1>3, <1>6 DEF Doubled
  <2>2. s + 1 \in 1 .. Len(line)
    <3>1. At(s + 1) # End
      BY <2>1 DEF End
    <3> QED
      BY <1>1, <3>1, InLine DEF PosInv
  <2>3. OpenQuote[s + 1] = NoQuote
    <3>1. OpenQuote[s] = NoQuote /\ At(s) \notin Quotes /\ At(s) # NoQuote
      BY <2>1 DEF s, Quotes, NoQuote
    <3> QED
      BY <1>1, <3>1, QuoteSteps DEF PosInv
  <2>4. s + 1 \in Unquoted(Chars(kind)) /\ s + 1 < b
    <3>1. At(s + 1) = line[s + 1] /\ s + 1 \in DOMAIN line
      BY <2>2, LineIs DEF PosInv
    <3>2. At(s + 1) \in Chars(kind)
      BY <1>3, <2>1
    <3>3. b \in s + 2 .. Len(line) + 1
      BY <2>1 DEF s
    <3> QED
      BY <1>1, <2>3, <3>1, <3>2, <3>3 DEF Unquoted
  <2> QED
    BY <1>4, <1>6, <2>4, Passed
<1> QED
  BY <1>5, <1>6 DEF Weight

LEMMA TextCounts ==
  ASSUME NEW kind \in Kind
  PROVE  \A type \in TextType \cup {"command"} : type \notin Types(kind)
BY DEF Kind, Types, TextType, FileType

LEMMA OperatorKeepsCount ==
  ASSUME TokensInv, PosInv, LexInv, Tokenize, Operator
  PROVE  LexInv'
<1> DEFINE start == Start
           past  == IF Doubled(start) THEN start + 2 ELSE start + 1
           next  == IF At(start) \in Redirects THEN FileEnd(past) ELSE past
           value == SubSeq(line, start, past - 1)
           file  == SubSeq(line, past, next - 1)
           o     == Token(value, OperatorType(start), FALSE)
           w     == Token(file, "word", FALSE)
           rest  == IF file = <<>> THEN <<>> ELSE << w >>
           types(kind) == Types(kind)
<1>1. /\ phase = "tokenize" /\ phase' = phase /\ line' = line
      /\ At(start) \in Operators /\ pos' = next /\ tokens' = tokens \o << o >> \o rest
  BY DEF Tokenize, Operator
<1>2. /\ start \in 1 .. Len(line) /\ past \in start + 1 .. Len(line) + 1
      /\ FileEnd(past) \in past .. Len(line) + 1 /\ Len(line) \in Nat
      /\ start \in pos .. Len(line) + 1 /\ pos \in Nat
  BY <1>1, OperatorEnd, StartIs, LineIs DEF PosInv
<1>3. OpenQuote[start] = NoQuote
  BY <1>1, UnquotedStart DEF LexInv
<1>4. OpenQuote[past] = NoQuote /\ OpenQuote[FileEnd(past)] = NoQuote
  BY <1>1, <1>3, UnquotedOperator
<1> HIDE DEF past, start
<1>12. next \in past .. Len(line) + 1
  BY <1>2
<1>5. next \in pos .. Len(line) + 1 /\ OpenQuote[next] = NoQuote
  BY <1>2, <1>4, <1>12
<1>6. PICK V : tokens \in Seq(RawOf(V))
  BY <1>1 DEF TokensInv
<1> DEFINE S == RawOf((V \cup {value}) \cup {file})
<1>7. tokens \in Seq(S) /\ o \in S /\ w \in S
  <2>1. OperatorType(start) \in TokenType \ {"command"} /\ "word" \in TokenType \ {"command"}
    BY <1>1 DEF OperatorType, TokenType, Operators, Redirects
  <2> HIDE DEF value, file
  <2>2. tokens \in Seq(RawOf(V \cup {value}))
    BY <1>6, RawGrows
  <2>3. tokens \in Seq(S)
    BY <2>2, RawGrows
  <2> QED
    BY <2>1, <2>3 DEF RawOf, Token
<1>8. o.type = OperatorType(start) /\ w.type = "word"
  BY DEF Token
<1> HIDE DEF o, w, value, file, next, S
<1>9. /\ Append(tokens, o) = tokens \o << o >> /\ Append(tokens, o) \in Seq(S)
      /\ \/ tokens' = Append(tokens, o)
         \/ tokens' = Append(Append(tokens, o), w)
  <2>1. Append(tokens, o) = tokens \o << o >> /\ Append(tokens, o) \in Seq(S)
    BY <1>7, AppendIsConcat, AppendProperties
  <2>2. Append(Append(tokens, o), w) = Append(tokens, o) \o << w >>
    BY <1>7, <2>1, AppendIsConcat
  <2>3. Append(tokens, o) \o <<>> = Append(tokens, o)
    BY <2>1, ConcatEmptySeq
  <2> QED
    BY <1>1, <2>1, <2>2, <2>3
<1> DEFINE r == Append(tokens, o)
<1> HIDE DEF r
<1>10. r \in Seq(S) /\ Append(r, w) \in Seq(S) /\ (tokens' = r \/ tokens' = Append(r, w))
  <2>1. r \in Seq(S) /\ (tokens' = r \/ tokens' = Append(r, w))
    BY <1>9 DEF r
  <2> QED
    BY <1>7, <2>1, AppendProperties
<1>11. ASSUME NEW kind \in Kind
       PROVE  \/ Cardinality(OfType(tokens', Types(kind))) <= Cardinality(OfType(tokens, Types(kind)))
              \/ /\ Cardinality(OfType(tokens', Types(kind)))
                      <= Cardinality(OfType(tokens, Types(kind))) + 1
                 /\ Cardinality(Before(Chars(kind), pos)) + Weight(kind)
                      <= Cardinality(Before(Chars(kind), pos'))
  <2>1. "word" \notin Types(kind)
    BY TextCounts DEF TextType
  <2>2. OfType(tokens', Types(kind)) = OfType(Append(tokens, o), Types(kind))
    <3>1. OfType(Append(r, w), Types(kind)) = OfType(r, Types(kind))
      BY <1>7, <1>8, <1>10, <2>1, TypesAppended
    <3> QED
      BY <1>10, <3>1 DEF r
  <2>3. CASE OperatorType(start) \in Types(kind)
    <3>1. Cardinality(Before(Chars(kind), pos)) + Weight(kind) <= Cardinality(Before(Chars(kind), next))
      <4>1. next \in (IF Doubled(start) THEN start + 2 ELSE start + 1) .. Len(line) + 1
        BY <1>2, <1>12 DEF past
      <4> QED
        BY <1>1, <1>3, <2>3, <4>1, OperatorCounts DEF start
    <3>2. Cardinality(OfType(tokens', Types(kind))) <= Cardinality(OfType(tokens, Types(kind))) + 1
      BY <1>7, <2>2, TypesAppended
    <3> QED
      BY <1>1, <3>1, <3>2
  <2>4. CASE OperatorType(start) \notin Types(kind)
    <3>1. OfType(tokens', Types(kind)) = OfType(tokens, Types(kind))
      BY <1>7, <1>8, <2>2, <2>4, TypesAppended
    <3>2. Cardinality(OfType(tokens, Types(kind))) \in Nat
      BY <1>7, OfTypeIs
    <3> QED
      BY <3>1, <3>2
  <2> QED
    BY <2>3, <2>4
<1> QED
  <2>1. \E W : tokens' \in Seq(RawOf(W))
    BY <1>10 DEF S
  <2> QED
    BY <1>1, <1>5, <1>11, <2>1, LexerKeepsCount

\* A word or a quoted text adds no operator.
LEMMA TextKeepsCount ==
  ASSUME TokensInv, PosInv, LexInv, Tokenize, Word \/ Quoted
  PROVE  LexInv'
<1>1. phase = "tokenize" /\ phase' = phase /\ line' = line
  BY DEF Tokenize, Word, Quoted
<1>2. OpenQuote[Start] = NoQuote /\ Start \in pos .. Len(line) + 1 /\ Len(line) \in Nat /\ pos \in Nat
  BY <1>1, UnquotedStart, StartIs, LineIs DEF LexInv, PosInv
<1>3. pos' \in pos .. Len(line) + 1 /\ OpenQuote[pos'] = NoQuote
  <2>1. CASE Word
    <3> DEFINE next == StopAt(Start, Blanks \cup Operators \cup Quotes)
    <3>1. pos' = next
      BY <2>1 DEF Word
    <3>2. OpenQuote[next] = NoQuote /\ next \in Start .. Len(line) + 1
      BY <1>2, WordEnd, UnquotedWord
    <3> HIDE DEF next
    <3> QED
      BY <1>2, <3>1, <3>2
  <2>2. CASE Quoted
    <3> DEFINE i == Start + 1
    <3>1. /\ At(i - 1) \in Quotes /\ At(ClosedAt(i)) # End /\ pos' = PastQuoted(i)
      BY <2>2 DEF Quoted
    <3>2. i - 1 = Start
      BY <1>2
    <3> HIDE DEF i
    <3>3. OpenQuote[PastQuoted(i)] = NoQuote /\ PastQuoted(i) \in i + 1 .. Len(line) + 1
      BY <1>2, <3>1, <3>2, UnquotedQuoted, QuotedEnd DEF i
    <3> QED
      BY <1>2, <3>1, <3>3 DEF i
  <2> QED
    BY <2>1, <2>2
<1>4. PICK V : tokens \in Seq(RawOf(V))
  BY <1>1 DEF TokensInv
<1>5. \/ tokens' = tokens
      \/ \E v : \E c \in BOOLEAN, type \in TextType : tokens' = Append(tokens, Token(v, type, c))
  <2>1. CASE Word
    <3> DEFINE next == StopAt(Start, Blanks \cup Operators \cup Quotes)
               v == SubSeq(line, Start, next - 1)
               c == JoinsWord(next)
    <3>1. tokens' = IF next = Start THEN tokens ELSE Append(tokens, Token(v, "word", c))
      BY <2>1 DEF Word
    <3>2. c \in BOOLEAN /\ "word" \in TextType
      BY DEF JoinsWord, TextType
    <3> HIDE DEF next, v, c
    <3> QED
      BY <3>1, <3>2
  <2>2. CASE Quoted
    <3> DEFINE i == Start + 1
               v == QuotedText(i)
               type == IF At(i - 1) = "'" THEN "single" ELSE "double"
               c == JoinsQuoted(PastQuoted(i))
    <3>1. tokens' = Append(tokens, Token(v, type, c))
      BY <2>2 DEF Quoted
    <3>2. c \in BOOLEAN /\ type \in TextType
      BY DEF JoinsQuoted, TextType
    <3> HIDE DEF i, v, type, c
    <3> QED
      BY <3>1, <3>2
  <2> QED
    BY <2>1, <2>2
<1>6. CASE tokens' = tokens
  <2>1. \A kind \in Kind : Cardinality(OfType(tokens, Types(kind))) \in Nat
    BY <1>4, OfTypeIs
  <2>2. \A kind \in Kind :
          Cardinality(OfType(tokens', Types(kind))) <= Cardinality(OfType(tokens, Types(kind)))
    BY <1>6, <2>1
  <2>3. \E W : tokens' \in Seq(RawOf(W))
    BY <1>4, <1>6
  <2> QED
    BY <1>1, <1>3, <2>2, <2>3, LexerKeepsCount
<1>7. ASSUME NEW v, NEW c \in BOOLEAN, NEW type \in TextType, tokens' = Append(tokens, Token(v, type, c))
      PROVE  LexInv'
  <2> DEFINE t == Token(v, type, c)
  <2>1. t \in RawOf(V \cup {v}) /\ tokens \in Seq(RawOf(V \cup {v})) /\ t.type = type
    <3>1. type \in TokenType \ {"command"}
      BY DEF TextType, TokenType
    <3> QED
      BY <1>4, <3>1, RawGrows DEF Token, RawOf
  <2> HIDE DEF t
  <2>2. tokens' = Append(tokens, t)
    BY <1>7 DEF t
  <2>3. tokens' \in Seq(RawOf(V \cup {v}))
    BY <2>1, <2>2, AppendProperties
  <2>4. ASSUME NEW kind \in Kind
        PROVE  Cardinality(OfType(tokens', Types(kind))) <= Cardinality(OfType(tokens, Types(kind)))
    <3>1. t.type \notin Types(kind)
      BY <2>1, TextCounts
    <3>2. OfType(tokens', Types(kind)) = OfType(tokens, Types(kind))
      BY <2>1, <2>2, <3>1, TypesAppended
    <3>3. Cardinality(OfType(tokens, Types(kind))) \in Nat
      BY <1>4, OfTypeIs
    <3> QED
      BY <3>2, <3>3
  <2> QED
    BY <1>1, <1>3, <2>3, <2>4, LexerKeepsCount
<1> QED
  BY <1>5, <1>6, <1>7

LEMMA RemovedIs ==
  ASSUME NEW S, NEW s \in Seq(S), NEW k \in 1 .. Len(s)
  PROVE  /\ RemoveAt(s, k) \in Seq(S) /\ Len(RemoveAt(s, k)) = Len(s) - 1
         /\ \A i \in 1 .. Len(s) - 1 : RemoveAt(s, k)[i] = IF i < k THEN s[i] ELSE s[i + 1]
<1> DEFINE n == Len(s)  a == SubSeq(s, 1, k - 1)  b == SubSeq(s, k + 1, n)
<1>1. n \in Nat /\ k \in Nat /\ \A i \in 1 .. n : s[i] \in S
  BY LenProperties, ElementOfSeq
<1> HIDE DEF n
<1>2. RemoveAt(s, k) = a \o b
  BY DEF RemoveAt, n
<1>3. /\ a \in Seq(S) /\ Len(a) = k - 1
      /\ \A i \in 1 .. k - 1 : a[i] = s[i]
  <2> DEFINE m == k - 1
  <2>1. 1 \in Int /\ m \in Int /\ \A i \in 1 .. m : s[i] \in S
    BY <1>1 DEF n
  <2> HIDE DEF m
  <2>2. /\ SubSeq(s, 1, m) \in Seq(S)
        /\ Len(SubSeq(s, 1, m)) = IF 1 <= m THEN m - 1 + 1 ELSE 0
        /\ \A i \in 1 .. m - 1 + 1 : SubSeq(s, 1, m)[i] = s[1 + i - 1]
    BY <2>1, SubSeqProperties
  <2>3. m = k - 1 /\ k >= 1
    BY <1>1 DEF m
  <2>4. /\ SubSeq(s, 1, m) \in Seq(S) /\ Len(SubSeq(s, 1, m)) = k - 1
        /\ \A i \in 1 .. k - 1 : SubSeq(s, 1, m)[i] = s[i]
    BY <1>1, <2>2, <2>3
  <2> QED
    BY <2>4 DEF m
<1>4. /\ b \in Seq(S) /\ Len(b) = n - k
      /\ \A i \in 1 .. n - k : b[i] = s[k + i]
  <2> DEFINE m == k + 1
  <2>1. m \in Int /\ n \in Int /\ \A i \in m .. n : s[i] \in S
    BY <1>1
  <2> HIDE DEF m
  <2>2. /\ SubSeq(s, m, n) \in Seq(S)
        /\ Len(SubSeq(s, m, n)) = IF m <= n THEN n - m + 1 ELSE 0
        /\ \A i \in 1 .. n - m + 1 : SubSeq(s, m, n)[i] = s[m + i - 1]
    BY <2>1, SubSeqProperties
  <2>3. m = k + 1 /\ k <= n
    BY <1>1 DEF m, n
  <2>4. /\ SubSeq(s, m, n) \in Seq(S) /\ Len(SubSeq(s, m, n)) = n - k
        /\ \A i \in 1 .. n - k : SubSeq(s, m, n)[i] = s[k + i]
    BY <1>1, <2>2, <2>3
  <2> QED
    BY <2>4 DEF m
<1> HIDE DEF a, b
<1>5. k \in 1 .. n
  BY DEF n
<1>6. /\ a \o b \in Seq(S) /\ Len(a \o b) = Len(a) + Len(b)
      /\ \A i \in 1 .. Len(a) + Len(b) : (a \o b)[i] = IF i <= Len(a) THEN a[i] ELSE b[i - Len(a)]
  BY <1>3, <1>4, ConcatProperties
<1>7. Len(a \o b) = n - 1
  BY <1>1, <1>3, <1>4, <1>5, <1>6
<1>8. ASSUME NEW i \in 1 .. n - 1
      PROVE  (a \o b)[i] = IF i < k THEN s[i] ELSE s[i + 1]
  <2>1. (a \o b)[i] = IF i <= k - 1 THEN a[i] ELSE b[i - (k - 1)]
    BY <1>1, <1>3, <1>4, <1>5, <1>6
  <2>2. CASE i < k
    BY <1>1, <1>3, <2>1, <2>2
  <2>3. CASE ~(i < k)
    <3>1. i - (k - 1) \in 1 .. n - k /\ k + (i - (k - 1)) = i + 1
      BY <1>1, <1>5, <2>3
    <3>2. b[i - (k - 1)] = s[i + 1]
      BY <1>4, <3>1
    <3> QED
      BY <1>1, <2>1, <2>3, <3>2
  <2> QED
    BY <2>2, <2>3
<1> QED
  BY <1>2, <1>6, <1>7, <1>8 DEF n

\* Two tokens are merged as one is removed and its neighbour changed.
Joined(s, k, m) == SubSeq(s, 1, k - 1) \o << m >> \o SubSeq(s, k + 2, Len(s))

LEMMA MergedIs ==
  ASSUME NEW S, NEW s \in Seq(S), NEW k \in 1 .. Len(s) - 1, NEW m \in S
  PROVE  /\ Joined(s, k, m) \in Seq(S) /\ Len(Joined(s, k, m)) = Len(s) - 1
         /\ \A i \in 1 .. Len(s) - 1 :
              /\ i < k => Joined(s, k, m)[i] = s[i]
              /\ i = k => Joined(s, k, m)[i] = m
              /\ i > k => Joined(s, k, m)[i] = s[i + 1]
<1> DEFINE n == Len(s)  a == SubSeq(s, 1, k - 1)  b == SubSeq(s, k + 2, n)
<1>1. n \in Nat /\ k \in Nat /\ \A i \in 1 .. n : s[i] \in S
  BY LenProperties, ElementOfSeq
<1>2. k \in 1 .. n - 1
  BY DEF n
<1> HIDE DEF n
<1>3. /\ a \in Seq(S) /\ Len(a) = k - 1
      /\ \A i \in 1 .. k - 1 : a[i] = s[i]
  <2> DEFINE j == k - 1
  <2>1. 1 \in Int /\ j \in Int /\ \A i \in 1 .. j : s[i] \in S
    BY <1>1, <1>2
  <2> HIDE DEF j
  <2>2. /\ SubSeq(s, 1, j) \in Seq(S)
        /\ Len(SubSeq(s, 1, j)) = IF 1 <= j THEN j - 1 + 1 ELSE 0
        /\ \A i \in 1 .. j - 1 + 1 : SubSeq(s, 1, j)[i] = s[1 + i - 1]
    BY <2>1, SubSeqProperties
  <2>3. j = k - 1 /\ k >= 1
    BY <1>1, <1>2 DEF j
  <2>4. /\ SubSeq(s, 1, j) \in Seq(S) /\ Len(SubSeq(s, 1, j)) = k - 1
        /\ \A i \in 1 .. k - 1 : SubSeq(s, 1, j)[i] = s[i]
    BY <1>1, <2>2, <2>3
  <2> QED
    BY <2>4 DEF j
<1>4. /\ b \in Seq(S) /\ Len(b) = n - k - 1
      /\ \A i \in 1 .. n - k - 1 : b[i] = s[k + 1 + i]
  <2> DEFINE j == k + 2
  <2>1. j \in Int /\ n \in Int /\ \A i \in j .. n : s[i] \in S
    BY <1>1
  <2> HIDE DEF j
  <2>2. /\ SubSeq(s, j, n) \in Seq(S)
        /\ Len(SubSeq(s, j, n)) = IF j <= n THEN n - j + 1 ELSE 0
        /\ \A i \in 1 .. n - j + 1 : SubSeq(s, j, n)[i] = s[j + i - 1]
    BY <2>1, SubSeqProperties
  <2>3. j = k + 2 /\ k <= n - 1
    BY <1>1, <1>2 DEF j
  <2>4. /\ SubSeq(s, j, n) \in Seq(S) /\ Len(SubSeq(s, j, n)) = n - k - 1
        /\ \A i \in 1 .. n - k - 1 : SubSeq(s, j, n)[i] = s[k + 1 + i]
    BY <1>1, <2>2, <2>3
  <2> QED
    BY <2>4 DEF j
<1> DEFINE c == Append(a, m)
<1> HIDE DEF a, b
<1>5. /\ c \in Seq(S) /\ Len(c) = k
      /\ \A i \in 1 .. k - 1 : c[i] = s[i]
      /\ c[k] = m
  <2>1. /\ c \in Seq(S) /\ Len(c) = Len(a) + 1
        /\ \A i \in 1 .. Len(a) : c[i] = a[i]
        /\ c[Len(a) + 1] = m
    BY <1>3, AppendProperties
  <2> HIDE DEF c
  <2>2. Len(a) + 1 = k
    BY <1>1, <1>3
  <2> QED
    BY <1>1, <1>3, <2>1, <2>2
<1> HIDE DEF c
<1>6. /\ c \o b \in Seq(S) /\ Len(c \o b) = Len(c) + Len(b)
      /\ \A i \in 1 .. Len(c) + Len(b) : (c \o b)[i] = IF i <= Len(c) THEN c[i] ELSE b[i - Len(c)]
  <2>1. c \in Seq(S) /\ b \in Seq(S)
    BY <1>4, <1>5
  <2> QED
    BY ONLY <2>1, ConcatProperties
<1>7. Len(c \o b) = n - 1
  <2>1. Len(c) = k /\ Len(b) = n - k - 1 /\ Len(c \o b) = Len(c) + Len(b)
    BY <1>4, <1>5, <1>6
  <2> QED
    BY <1>1, <1>2, <2>1
<1>8. ASSUME NEW i \in 1 .. n - 1
      PROVE  /\ i < k => (c \o b)[i] = s[i]
             /\ i = k => (c \o b)[i] = m
             /\ i > k => (c \o b)[i] = s[i + 1]
  <2>1. (c \o b)[i] = IF i <= k THEN c[i] ELSE b[i - k]
    BY <1>1, <1>2, <1>4, <1>5, <1>6
  <2>2. CASE i < k
    BY <1>1, <1>5, <2>1, <2>2
  <2>3. CASE i = k
    BY <1>1, <1>5, <2>1, <2>3
  <2>4. CASE i > k
    <3>1. i - k \in 1 .. n - k - 1 /\ k + 1 + (i - k) = i + 1
      BY <1>1, <1>2, <2>4
    <3>2. b[i - k] = s[i + 1]
      BY <1>4, <3>1
    <3> QED
      BY <1>1, <2>1, <2>4, <3>2
  <2>5. i < k \/ i = k \/ i > k
    BY <1>1
  <2> QED
    BY <1>1, <2>2, <2>3, <2>4, <2>5
<1>9. Joined(s, k, m) = c \o b
  <2>1. c = a \o << m >>
    BY <1>3, AppendIsConcat DEF c
  <2> QED
    BY <2>1 DEF Joined, a, b, n
<1> QED
  BY <1>6, <1>7, <1>8, <1>9 DEF n, a, b

\* No step after the lexer makes an operator.
LEMMA ListKeepsCount ==
  ASSUME PosInv, LexInv, line' = line,
         phase \in {"expand", "merge", "validate", "parse"}, phase' # "tokenize",
         \A kind \in Kind : /\ Cardinality(OfType(tokens, Types(kind))) \in Nat
                            /\ Cardinality(OfType(tokens', Types(kind))) \in Nat
                            /\ Cardinality(OfType(tokens', Types(kind)))
                                 <= Cardinality(OfType(tokens, Types(kind)))
  PROVE  LexInv'
<1>1. OpenQuote' = OpenQuote
  BY DEF OpenQuote
<1>2. \A chars : Unquoted(chars)' = Unquoted(chars)
  BY <1>1 DEF Unquoted
<1>3. ASSUME NEW kind \in Kind
      PROVE  Weighed(tokens', kind) <= Cardinality(Unquoted(Chars(kind)))
  <2> DEFINE u == Cardinality(Unquoted(Chars(kind)))
  <2>1. Weighed(tokens, kind) <= u
    BY DEF LexInv
  <2>2. u \in Nat
    BY UnquotedIs
  <2>3. /\ Weighed(tokens, kind) \in Nat /\ Weighed(tokens', kind) \in Nat
        /\ Weighed(tokens', kind) <= Weighed(tokens, kind)
    BY WeightIs DEF Weighed
  <2> HIDE DEF u
  <2>4. Weighed(tokens', kind) <= u
    BY <2>1, <2>2, <2>3
  <2> QED
    BY <2>4 DEF u
<1> QED
  BY <1>2, <1>3 DEF LexInv, Weighed, OfType

LEMMA TokenizedKeepsCount ==
  ASSUME PosInv, TokensInv, LexInv, Tokenized
  PROVE  LexInv'
<1>1. /\ phase = "tokenize" /\ phase' \in {"blank", "expand"}
      /\ line' = line /\ tokens' = tokens
  BY DEF Tokenized
<1>2. OpenQuote' = OpenQuote
  BY <1>1 DEF OpenQuote
<1>3. \A chars : Unquoted(chars)' = Unquoted(chars)
  BY <1>1, <1>2 DEF Unquoted
<1>4. PICK V : tokens \in Seq(RawOf(V))
  BY <1>1 DEF TokensInv
<1>5. ASSUME NEW kind \in Kind
      PROVE  Weighed(tokens', kind) <= Cardinality(Unquoted(Chars(kind)))
  <2>1. Weighed(tokens, kind) <= Cardinality(Before(Chars(kind), pos))
    BY <1>1 DEF LexInv
  <2>2. Weighed(tokens, kind) \in Nat
    BY <1>4, OfTypeIs, WeightIs DEF Weighed
  <2>3. /\ Cardinality(Unquoted(Chars(kind))) \in Nat /\ IsFiniteSet(Unquoted(Chars(kind)))
        /\ Before(Chars(kind), pos) \in SUBSET Unquoted(Chars(kind))
        /\ Cardinality(Before(Chars(kind), pos)) \in Nat
    BY UnquotedIs
  <2>4. Cardinality(Before(Chars(kind), pos)) <= Cardinality(Unquoted(Chars(kind)))
    BY <2>3, FS_Subset
  <2> QED
    BY <1>1, <2>1, <2>2, <2>3, <2>4
<1> QED
  BY <1>1, <1>3, <1>5 DEF LexInv, Weighed, OfType

LEMMA SameTypes ==
  ASSUME NEW R, NEW r \in Seq(R), NEW S, NEW s \in Seq(S), NEW types, Len(r) = Len(s),
         \A i \in 1 .. Len(s) : r[i].type \in types => s[i].type \in types
  PROVE  /\ Cardinality(OfType(r, types)) \in Nat
         /\ Cardinality(OfType(r, types)) <= Cardinality(OfType(s, types))
<1>1. DOMAIN r = 1 .. Len(r) /\ DOMAIN s = 1 .. Len(s)
  BY LenProperties
<1>2. OfType(r, types) \in SUBSET OfType(s, types)
  BY <1>1 DEF OfType
<1>3. IsFiniteSet(OfType(s, types)) /\ Cardinality(OfType(r, types)) \in Nat
  BY OfTypeIs
<1> QED
  BY <1>2, <1>3, FS_Subset

LEMMA ChangedTypes ==
  ASSUME NEW V, NEW s \in Seq(RawOf(V)), NEW i \in 1 .. Len(s), NEW v
  PROVE  \A j \in 1 .. Len(s) : Changed(s, i, v)[j].type = s[j].type
<1>1. s \in [1 .. Len(s) -> RawOf(V)]
  BY LenProperties
<1>2. s[i] \in RawOf(V)
  BY <1>1
<1> DEFINE e == [s[i] EXCEPT !.value = v]
<1>3. e.type = s[i].type
  BY <1>2 DEF RawOf
<1>4. Changed(s, i, v) = [s EXCEPT ![i] = e]
  BY DEF Changed
<1> HIDE DEF e
<1> QED
  BY <1>1, <1>3, <1>4

LEMMA ExpandKeepsCount ==
  ASSUME PosInv, TokensInv, LexInv, DropDollar \/ ExpandToken
  PROVE  LexInv'
<1>1. /\ phase = "expand" /\ phase' \in {"expand", "undefined"} /\ line' = line
      /\ cur \in 1 .. Len(tokens)
  BY DEF DropDollar, ExpandToken, AtToken, TokensInv
<1>2. PICK V : tokens \in Seq(RawOf(V))
  BY <1>1 DEF TokensInv
<1>3. \A kind \in Kind : Cardinality(OfType(tokens, Types(kind))) \in Nat
  BY <1>2, OfTypeIs
<1>4. CASE DropDollar
  <2>1. tokens' = RemoveAt(tokens, cur)
    BY <1>4 DEF DropDollar
  <2>2. /\ tokens' \in Seq(RawOf(V)) /\ Len(tokens') = Len(tokens) - 1
        /\ \A i \in 1 .. Len(tokens) - 1 :
             tokens'[i] = IF i < cur THEN tokens[i] ELSE tokens[i + 1]
    BY <1>1, <1>2, <2>1, RemovedIs
  <2>3. ASSUME NEW kind \in Kind
        PROVE  /\ Cardinality(OfType(tokens', Types(kind))) \in Nat
               /\ Cardinality(OfType(tokens', Types(kind))) <= Cardinality(OfType(tokens, Types(kind)))
    <3> DEFINE types == Types(kind)  r == tokens'
    <3> HIDE DEF types, r
    <3>1. r \in Seq(RawOf(V)) /\ Len(r) = Len(tokens) - 1
      BY <2>2 DEF r
    <3>2. \A i \in 1 .. Len(r) : \/ i <= cur /\ (r[i].type \in types => tokens[i].type \in types)
                                 \/ i >= cur /\ (r[i].type \in types => tokens[i + 1].type \in types)
      BY <1>1, <2>2 DEF r
    <3>3. Cardinality(OfType(r, types)) <= Cardinality(OfType(tokens, types))
      BY <1>1, <1>2, <3>1, <3>2, OneLess
    <3>4. Cardinality(OfType(r, types)) \in Nat
      BY <3>1, OfTypeIs
    <3> QED
      BY <3>3, <3>4 DEF r, types
  <2> QED
    BY <1>1, <1>3, <2>3, ListKeepsCount
<1>5. CASE ExpandToken
  <2> DEFINE v == Expanded(tokens[cur].value)
  <2>1. tokens' = tokens \/ tokens' = Changed(tokens, cur, v)
    BY <1>5 DEF ExpandToken, Changed
  <2> HIDE DEF v
  <2>2. /\ Changed(tokens, cur, v) \in Seq(RawOf(V \cup {v}))
        /\ Len(Changed(tokens, cur, v)) = Len(tokens)
    BY <1>1, <1>2, RawChanged, Zenon
  <2>3. \A j \in 1 .. Len(tokens) : Changed(tokens, cur, v)[j].type = tokens[j].type
    BY <1>1, <1>2, ChangedTypes, Zenon
  <2> DEFINE r == Changed(tokens, cur, v)
  <2>4. \A j \in 1 .. Len(tokens) : r[j].type = tokens[j].type
    BY <2>3
  <2> HIDE DEF r
  <2>5. ASSUME NEW kind \in Kind
        PROVE  /\ Cardinality(OfType(tokens', Types(kind))) \in Nat
               /\ Cardinality(OfType(tokens', Types(kind))) <= Cardinality(OfType(tokens, Types(kind)))
    <3>1. CASE tokens' = tokens
      BY <1>3, <3>1
    <3>2. CASE tokens' = r
      <4>1. r \in Seq(RawOf(V \cup {v})) /\ Len(r) = Len(tokens)
        BY <2>2 DEF r
      <4> QED
        BY <1>2, <2>4, <3>2, <4>1, SameTypes
    <3> QED
      BY <2>1, <3>1, <3>2 DEF r
  <2> QED
    BY <1>1, <1>3, <2>5, ListKeepsCount
<1> QED
  BY <1>4, <1>5

LEMMA MergeKeepsCount ==
  ASSUME PosInv, TokensInv, LexInv, ExpansionDone \/ MergeToken \/ CheckFormatCommand
  PROVE  LexInv'
<1>1. /\ phase \in {"expand", "merge"} /\ phase' # "tokenize" /\ line' = line
  BY DEF ExpansionDone, MergeToken, CheckFormatCommand
<1>2. PICK V : tokens \in Seq(RawOf(V))
  BY <1>1 DEF TokensInv
<1>3. \A kind \in Kind : Cardinality(OfType(tokens, Types(kind))) \in Nat
  BY <1>2, OfTypeIs
<1>4. CASE tokens' = tokens
  BY <1>1, <1>3, <1>4, ListKeepsCount
<1>5. CASE MergeToken /\ Merges(tokens[cur])
  <2> DEFINE m == Merged(tokens[cur], tokens[cur + 1])
  <2>1. /\ cur \in Nat \ {0} /\ cur < Len(tokens)
        /\ tokens' = SubSeq(tokens, 1, cur - 1) \o << m >> \o SubSeq(tokens, cur + 2, Len(tokens))
    BY <1>5 DEF MergeToken, TokensInv
  <2>2. cur \in 1 .. Len(tokens) - 1 /\ cur \in 1 .. Len(tokens) /\ Len(tokens) \in Nat
    BY <1>2, <2>1, LenProperties
  <2>3. tokens[cur] \in RawOf(V)
    BY <1>2, <2>2, ElementOfSeq
  <2>4. m.type = tokens[cur].type
    <3> DEFINE v == tokens[cur].value \o tokens[cur + 1].value
    <3>1. m = [tokens[cur] EXCEPT !.value = v, !.consecutive = tokens[cur + 1].consecutive]
      BY DEF Merged
    <3> HIDE DEF v, m
    <3> QED
      BY <2>3, <3>1 DEF RawOf
  <2> DEFINE S == RawOf(V) \cup {m}
  <2> HIDE DEF m
  <2>5. tokens \in Seq(S) /\ m \in S
    <3>1. RawOf(V) \subseteq S
      OBVIOUS
    <3>2. m \in S
      OBVIOUS
    <3> HIDE DEF S
    <3> QED
      BY <1>2, <3>1, <3>2, SeqMonotonic
  <2> HIDE DEF S
  <2>6. /\ tokens' \in Seq(S) /\ Len(tokens') = Len(tokens) - 1
        /\ \A i \in 1 .. Len(tokens) - 1 :
             /\ i < cur => tokens'[i] = tokens[i]
             /\ i = cur => tokens'[i] = m
             /\ i > cur => tokens'[i] = tokens[i + 1]
    <3>1. tokens' = Joined(tokens, cur, m)
      BY <2>1 DEF Joined
    <3> DEFINE r == Joined(tokens, cur, m)
    <3>2. r \in Seq(S)
      BY <2>2, <2>5, MergedIs
    <3>3. Len(r) = Len(tokens) - 1
      BY <2>2, <2>5, MergedIs
    <3>4. \A i \in 1 .. Len(tokens) - 1 : /\ i < cur => r[i] = tokens[i]
                                          /\ i = cur => r[i] = m
                                          /\ i > cur => r[i] = tokens[i + 1]
      <4> TAKE i \in 1 .. Len(tokens) - 1
      <4>1. tokens \in Seq(S) /\ m \in S /\ cur \in 1 .. Len(tokens) - 1
        BY <2>2, <2>5
      <4>2. i < cur => r[i] = tokens[i]
        BY ONLY <4>1, MergedIs
      <4>3. i = cur => r[i] = m
        BY ONLY <4>1, MergedIs
      <4>4. i > cur => r[i] = tokens[i + 1]
        BY ONLY <4>1, MergedIs
      <4> QED
        BY <4>2, <4>3, <4>4
    <3> QED
      BY <3>1, <3>2, <3>3, <3>4
  <2>7. ASSUME NEW kind \in Kind
        PROVE  /\ Cardinality(OfType(tokens', Types(kind))) \in Nat
               /\ Cardinality(OfType(tokens', Types(kind))) <= Cardinality(OfType(tokens, Types(kind)))
    <3> DEFINE types == Types(kind)  r == tokens'
    <3> HIDE DEF types, r
    <3>1. r \in Seq(S) /\ Len(r) = Len(tokens) - 1
      BY <2>6 DEF r
    <3>2. \A i \in 1 .. Len(r) : \/ i <= cur /\ (r[i].type \in types => tokens[i].type \in types)
                                 \/ i >= cur /\ (r[i].type \in types => tokens[i + 1].type \in types)
      <4> TAKE i \in 1 .. Len(r)
      <4>1. i \in 1 .. Len(tokens) - 1 /\ (i < cur \/ i = cur \/ i > cur)
        BY <2>2, <3>1
      <4>2. /\ i < cur => r[i] = tokens[i]
            /\ i = cur => r[i] = m
            /\ i > cur => r[i] = tokens[i + 1]
        BY <2>6, <4>1 DEF r
      <4>3. /\ i < cur => i <= cur
            /\ i = cur => i <= cur
            /\ i > cur => i >= cur
        BY <2>2, <4>1
      <4> QED
        BY <2>4, <4>1, <4>2, <4>3
    <3>3. Cardinality(OfType(r, types)) <= Cardinality(OfType(tokens, types))
      BY <1>2, <2>2, <3>1, <3>2, OneLess
    <3>4. Cardinality(OfType(r, types)) \in Nat
      BY <3>1, OfTypeIs
    <3> QED
      BY <3>3, <3>4 DEF r, types
  <2> QED
    BY <1>1, <1>3, <2>7, ListKeepsCount
<1>6. CASE CheckFormatCommand
  <2>1. tokens' = [i \in DOMAIN tokens |-> Classified(tokens[i])]
    BY <1>6 DEF CheckFormatCommand
  <2>2. tokens' \in Seq(ReadyOf(V)) /\ Len(tokens') = Len(tokens)
    BY <1>2, <2>1, RawClassified
  <2>3. tokens \in [1 .. Len(tokens) -> RawOf(V)] /\ DOMAIN tokens = 1 .. Len(tokens)
    BY <1>2, LenProperties
  <2>4. ASSUME NEW kind \in Kind
        PROVE  /\ Cardinality(OfType(tokens', Types(kind))) \in Nat
               /\ Cardinality(OfType(tokens', Types(kind))) <= Cardinality(OfType(tokens, Types(kind)))
    <3>1. "command" \notin Types(kind)
      BY TextCounts
    <3>2. ASSUME NEW i \in 1 .. Len(tokens), tokens'[i].type \in Types(kind)
          PROVE  tokens[i].type \in Types(kind)
      <4>1. tokens'[i] = Classified(tokens[i]) /\ tokens[i] \in RawOf(V)
        BY <2>1, <2>3
      <4>2. tokens'[i] = tokens[i] \/ tokens'[i].type = "command"
        BY <4>1 DEF Classified, RawOf
      <4> QED
        BY <3>1, <3>2, <4>2
    <3> QED
      BY <1>2, <2>2, <3>2, SameTypes
  <2> QED
    BY <1>1, <1>3, <2>4, ListKeepsCount
<1> QED
  BY <1>4, <1>5, <1>6 DEF ExpansionDone, MergeToken

LEMMA ParseKeepsCount ==
  ASSUME PosInv, TokensInv, LexInv,
         ValidateTokens \/ ParseWord \/ ParseRedirect \/ ParseHeredoc \/ ParsePipe
           \/ ParseAnd \/ Parsed
  PROVE  LexInv'
<1>1. /\ phase \in {"validate", "parse"} /\ phase' # "tokenize"
      /\ tokens' = tokens /\ line' = line
  BY DEF ValidateTokens, ParseWord, ParseRedirect, ParseHeredoc, ParsePipe, ParseAnd, Parsed,
         ParseMoves, AtToken
<1>2. PICK V : tokens \in Seq(ReadyOf(V))
  BY <1>1 DEF TokensInv
<1>3. \A kind \in Kind : Cardinality(OfType(tokens, Types(kind))) \in Nat
  BY <1>2, OfTypeIs
<1> QED
  BY <1>1, <1>3, ListKeepsCount

LEMMA CountIsKept ==
  ASSUME PosInv, TokensInv, LexInv, [Next]_vars
  PROVE  LexInv'
<1>1. CASE UNCHANGED vars
  <2>1. phase' = phase /\ tokens' = tokens /\ line' = line /\ pos' = pos
    BY <1>1 DEF vars
  <2>2. OpenQuote' = OpenQuote
    BY <2>1 DEF OpenQuote
  <2>3. \A chars, k : /\ Unquoted(chars)' = Unquoted(chars)
                      /\ Before(chars, k)' = Before(chars, k')
    BY <2>1, <2>2 DEF Unquoted, Before
  <2> QED
    BY <2>1, <2>2, <2>3 DEF LexInv, Weighed, OfType
<1>2. CASE Tokenize
  <2>1. CASE Unclosed
    BY <2>1 DEF Unclosed, LexInv
  <2> QED
    BY <1>2, <2>1, OperatorKeepsCount, TextKeepsCount DEF Tokenize
<1> QED
  BY <1>1, <1>2, TokenizedKeepsCount, ExpandKeepsCount, MergeKeepsCount, ParseKeepsCount DEF Next

-----------------------------------------------------------------------------
(* The commands and redirections made of the operators *)

Size(c) == Len(c.redirects) + Len(c.delimiter)

Slots(cs) == UNION {{i} \X (1 .. Size(cs[i])) : i \in DOMAIN cs}

\* The operators among the tokens that are parsed.
Behind(kind, c) == {i \in OfType(tokens, Types(kind)) : i < c}

\* parse_tokens makes a command of a pipe and a redirection of an operator only.
OrderInv ==
  phase \in {"parse", "parsed"} =>
    /\ Len(commands) - 1 <= Cardinality(Behind("pipe", cur))
    /\ IsFiniteSet(Redirected) /\ Cardinality(Redirected) <= Cardinality(Behind("redirect", cur))

LEMMA SizeIs ==
  ASSUME NEW V, NEW c \in CommandOf(V)
  PROVE  Size(c) \in Nat
<1> DEFINE R == [file : V, type : FileType]  r == c.redirects  d == c.delimiter
<1>1. r \in Seq(R) /\ d \in Seq(V)
  BY DEF CommandOf
<1> HIDE DEF R, r, d
<1>2. Len(r) \in Nat /\ Len(d) \in Nat
  BY <1>1, LenProperties
<1>3. Len(r) + Len(d) \in Nat
  BY <1>2
<1> QED
  BY <1>3 DEF Size, r, d

\* One redirection more in the last command is one more in all.
LEMMA SlotAdded ==
  ASSUME NEW V, NEW cs \in Seq(CommandOf(V)), NEW ds \in Seq(CommandOf(V)),
         Len(cs) >= 1, Len(ds) = Len(cs), \A i \in 1 .. Len(cs) - 1 : ds[i] = cs[i],
         NEW n \in Nat, n = Size(cs[Len(cs)]),
         Size(ds[Len(cs)]) <= n + 1
  PROVE  Slots(ds) \in SUBSET (Slots(cs) \cup {<<Len(cs), n + 1>>})
<1> DEFINE l == Len(cs)
<1>1. l \in Nat /\ l >= 1 /\ DOMAIN cs = 1 .. l /\ DOMAIN ds = 1 .. l
  BY LenProperties
<1>2. ASSUME NEW p \in Slots(ds)
      PROVE  p \in Slots(cs) \cup {<<l, n + 1>>}
  <2>1. PICK i \in 1 .. l : p \in {i} \X (1 .. Size(ds[i]))
    BY <1>1, <1>2 DEF Slots
  <2>2. CASE i < l
    <3>1. ds[i] = cs[i]
      BY <1>1, <2>2
    <3> QED
      BY <1>1, <2>1, <3>1 DEF Slots
  <2>3. CASE i = l
    <3>1. PICK j \in 1 .. Size(ds[l]) : p = <<l, j>>
      BY <2>1, <2>3
    <3>2. Size(ds[l]) \in Nat /\ Size(ds[l]) <= n + 1
      <4>1. ds[l] \in CommandOf(V)
        BY <1>1, ElementOfSeq
      <4> QED
        BY <4>1, SizeIs
    <3>3. j \in 1 .. n \/ j = n + 1
      BY <3>1, <3>2
    <3>4. {l} \X (1 .. n) \subseteq Slots(cs)
      BY <1>1 DEF Slots
    <3> QED
      BY <3>1, <3>3, <3>4
  <2> HIDE DEF l
  <2>4. i < l \/ i = l
    BY <1>1
  <2> QED
    BY <2>2, <2>3, <2>4
<1> QED
  BY <1>2

\* Nothing is redirected for a step that adds no redirection to a command.
LEMMA SlotsStay ==
  ASSUME NEW V, NEW cs \in Seq(CommandOf(V)), NEW ds \in Seq(CommandOf(V)), Len(ds) >= Len(cs),
         \A i \in 1 .. Len(cs) : Size(ds[i]) = Size(cs[i]),
         \A i \in Len(cs) + 1 .. Len(ds) :
           Size(ds[i]) = 0
  PROVE  Slots(ds) = Slots(cs)
<1>1. /\ Len(cs) \in Nat /\ DOMAIN cs = 1 .. Len(cs)
      /\ Len(ds) \in Nat /\ DOMAIN ds = 1 .. Len(ds)
  BY LenProperties
<1>2. ASSUME NEW p \in Slots(ds)
      PROVE  p \in Slots(cs)
  <2>1. PICK i \in 1 .. Len(ds) : p \in {i} \X (1 .. Size(ds[i]))
    BY <1>1, <1>2 DEF Slots
  <2>2. i \in 1 .. Len(cs)
    <3>1. i \in Len(cs) + 1 .. Len(ds) => p \in {i} \X (1 .. 0)
      BY <2>1
    <3>2. {i} \X (1 .. 0) = {}
      OBVIOUS
    <3> QED
      BY <1>1, <2>1, <3>1, <3>2
  <2> QED
    BY <1>1, <2>1, <2>2 DEF Slots
<1>3. ASSUME NEW p \in Slots(cs)
      PROVE  p \in Slots(ds)
  <2>1. PICK i \in 1 .. Len(cs) : p \in {i} \X (1 .. Size(cs[i]))
    BY <1>1, <1>3 DEF Slots
  <2>2. i \in 1 .. Len(ds)
    BY <1>1
  <2> QED
    BY <1>1, <2>1, <2>2 DEF Slots
<1> QED
  BY <1>2, <1>3

LEMMA RedirectedIs ==
  Redirected = Slots(commands) /\ Redirected' = Slots(commands')
BY DEF Redirected, Slots, Size

\* The parser passes what it passes, and an operator on the way is one more.
LEMMA BehindGrows ==
  ASSUME TokensInv, AtToken("parse"), NEW n \in {1, 2}, NEW kind \in Kind
  PROVE  /\ Cardinality(Behind(kind, cur)) \in Nat /\ Cardinality(Behind(kind, cur + n)) \in Nat
         /\ Cardinality(Behind(kind, cur)) <= Cardinality(Behind(kind, cur + n))
         /\ ThisToken.type \in Types(kind) =>
              Cardinality(Behind(kind, cur)) + 1 <= Cardinality(Behind(kind, cur + n))
<1>1. PICK V : tokens \in Seq(ReadyOf(V))
  BY DEF TokensInv, AtToken
<1>2. cur \in 1 .. Len(tokens) /\ Len(tokens) \in Nat /\ DOMAIN tokens = 1 .. Len(tokens)
  BY AtThisToken
<1>3. /\ IsFiniteSet(OfType(tokens, Types(kind)))
      /\ OfType(tokens, Types(kind)) \in SUBSET (1 .. Len(tokens))
  BY <1>1, OfTypeIs
<1> DEFINE A == Behind(kind, cur)  B == Behind(kind, cur + n)
<1>4. /\ A \in SUBSET OfType(tokens, Types(kind)) /\ B \in SUBSET OfType(tokens, Types(kind))
      /\ A \in SUBSET B
  BY <1>2, <1>3 DEF Behind
<1>5. IsFiniteSet(A) /\ IsFiniteSet(B)
  BY <1>3, <1>4, FS_Subset
<1>6. ThisToken.type \in Types(kind) => cur \in B
  BY <1>2 DEF Behind, OfType, ThisToken
<1>7. cur \notin A
  BY <1>2 DEF Behind
<1> HIDE DEF A, B
<1>8. Cardinality(A) \in Nat /\ Cardinality(B) \in Nat /\ Cardinality(A) <= Cardinality(B)
  BY <1>4, <1>5, FS_Subset, FS_CardinalityType
<1>9. ASSUME cur \in B
      PROVE  Cardinality(A) + 1 <= Cardinality(B)
  <2> DEFINE C == A \cup {cur}
  <2>1. C \in SUBSET B /\ Cardinality(C) = Cardinality(A) + 1
    BY <1>4, <1>5, <1>7, <1>9, FS_AddElement
  <2> HIDE DEF C
  <2>2. Cardinality(C) <= Cardinality(B)
    BY <1>5, <2>1, FS_Subset
  <2> QED
    BY <2>1, <2>2
<1> QED
  BY <1>6, <1>8, <1>9 DEF A, B

\* A step of the parser that makes no more than its token says.
LEMMA StepKeepsOrder ==
  ASSUME TokensInv, ParseInv, OrderInv, AtToken("parse"), NEW n \in {1, 2}, ParseMoves(n),
         \/ Len(commands') = Len(commands)
         \/ Len(commands') = Len(commands) + 1 /\ ThisToken.type = "pipe",
         \/ Redirected' = Redirected
         \/ /\ \E p : Redirected' \in SUBSET (Redirected \cup {p})
            /\ ThisToken.type \in FileType \cup {"heredoc"}
  PROVE  OrderInv'
<1>1. /\ phase = "parse" /\ phase' = "parse" /\ cur' = cur + n /\ tokens' = tokens
  BY DEF ParseMoves, AtToken
<1>2. /\ Len(commands) \in Nat /\ Len(commands) - 1 <= Cardinality(Behind("pipe", cur))
      /\ IsFiniteSet(Redirected) /\ Cardinality(Redirected) <= Cardinality(Behind("redirect", cur))
  BY <1>1, CommandsAre DEF OrderInv
<1>3. \A kind : Behind(kind, cur)' = Behind(kind, cur + n)
  BY <1>1 DEF Behind, OfType
<1>4. Len(commands') - 1 <= Cardinality(Behind("pipe", cur + n))
  <2>1. "pipe" \in Kind /\ Types("pipe") = {"pipe"}
    BY DEF Kind, Types
  <2> DEFINE a == Cardinality(Behind("pipe", cur))  b == Cardinality(Behind("pipe", cur + n))
  <2>2. a \in Nat /\ b \in Nat /\ a <= b /\ (ThisToken.type = "pipe" => a + 1 <= b)
    BY <2>1, BehindGrows
  <2> HIDE DEF a, b
  <2>3. Len(commands) - 1 <= a
    BY <1>2 DEF a
  <2>4. Len(commands') - 1 <= b
    BY <1>2, <2>2, <2>3
  <2> QED
    BY <2>4 DEF b
<1>5. IsFiniteSet(Redirected') /\ Cardinality(Redirected') <= Cardinality(Behind("redirect", cur + n))
  <2>1. "redirect" \in Kind /\ Types("redirect") = FileType \cup {"heredoc"}
    BY DEF Kind, Types
  <2> DEFINE a == Cardinality(Behind("redirect", cur))  b == Cardinality(Behind("redirect", cur + n))
             A == Redirected  B == Redirected'
  <2>2. a \in Nat /\ b \in Nat /\ a <= b /\ (ThisToken.type \in FileType \cup {"heredoc"} => a + 1 <= b)
    BY <2>1, BehindGrows
  <2> HIDE DEF a, b, A, B
  <2>3. IsFiniteSet(A) /\ Cardinality(A) \in Nat /\ Cardinality(A) <= a
    BY <1>2, FS_CardinalityType DEF a, A
  <2>4. CASE B = A
    BY <2>2, <2>3, <2>4 DEF b, B
  <2>5. ASSUME NEW p, B \in SUBSET (A \cup {p}), ThisToken.type \in FileType \cup {"heredoc"}
        PROVE  IsFiniteSet(B) /\ Cardinality(B) <= b
    <3> DEFINE C == A \cup {p}
    <3>1. /\ IsFiniteSet(C)
          /\ Cardinality(C) = IF p \in A THEN Cardinality(A) ELSE Cardinality(A) + 1
      BY <2>3, FS_AddElement
    <3> HIDE DEF C
    <3>2. Cardinality(C) \in Nat /\ Cardinality(C) <= Cardinality(A) + 1
      BY <2>3, <3>1
    <3>3. IsFiniteSet(B) /\ Cardinality(B) <= Cardinality(C) /\ Cardinality(B) \in Nat
      BY <2>5, <3>1, FS_Subset, FS_CardinalityType DEF C
    <3>4. a + 1 <= b
      BY <2>2, <2>5
    <3> QED
      BY <2>2, <2>3, <3>2, <3>3, <3>4
  <2> QED
    BY <2>4, <2>5 DEF A, B, b
<1> QED
  BY <1>1, <1>3, <1>4, <1>5 DEF OrderInv

LEMMA WordKeepsOrder ==
  ASSUME TokensInv, ParseInv, OrderInv, ParseWord \/ ParseAnd
  PROVE  OrderInv'
<1>1. AtToken("parse") /\ ParseMoves(1)
  BY DEF ParseWord, ParseAnd
<1>2. CASE commands' = commands
  <2>1. Redirected' = Redirected
    BY <1>2, RedirectedIs
  <2> QED
    BY <1>1, <1>2, <2>1, StepKeepsOrder
<1>3. CASE ParseWord /\ ThisToken.value # <<>>
  <2> DEFINE a == Append(ThisCommand.args, ThisToken.value)
             c == [ThisCommand EXCEPT !.args = a]
  <2>1. WithCommand(c)
    BY <1>3 DEF ParseWord
  <2>2. /\ commands \in Seq(CommandOf(Values)) /\ Len(commands) >= 1 /\ Len(commands) \in Nat
        /\ ThisCommand \in CommandOf(Values) /\ ThisCommand = commands[Len(commands)]
    BY <1>1, CommandsAre
  <2>3. a \in Seq(Values)
    <3>1. ThisToken.value \in Values /\ ThisCommand.args \in Seq(Values)
      BY <1>1, <2>2, AtThisToken DEF CommandOf
    <3> QED
      BY <3>1, AppendProperties
  <2> HIDE DEF a
  <2>4. /\ c \in CommandOf(Values)
        /\ Size(c) = Size(ThisCommand)
    BY <2>2, <2>3 DEF CommandOf, Size
  <2> HIDE DEF c
  <2>5. /\ commands' \in Seq(CommandOf(Values)) /\ Len(commands') = Len(commands)
        /\ \A i \in 1 .. Len(commands) : commands'[i] = IF i = Len(commands) THEN c ELSE commands[i]
    BY <2>1, <2>2, <2>4, LastReplaced DEF WithCommand
  <2> DEFINE ds == commands'
  <2>6. /\ \A i \in 1 .. Len(commands) : Size(ds[i]) = Size(commands[i])
        /\ ds \in Seq(CommandOf(Values)) /\ Len(ds) = Len(commands)
    BY <2>2, <2>4, <2>5
  <2> HIDE DEF ds
  <2>7. /\ Len(ds) >= Len(commands)
        /\ \A i \in Len(commands) + 1 .. Len(ds) : Size(ds[i]) = 0
    BY <2>2, <2>6
  <2>8. Slots(ds) = Slots(commands)
    BY ONLY <2>2, <2>6, <2>7, SlotsStay
  <2>9. Redirected' = Redirected
    BY <2>8, RedirectedIs DEF ds
  <2> QED
    BY <1>1, <2>5, <2>9, StepKeepsOrder
<1> QED
  BY <1>2, <1>3 DEF ParseWord, ParseAnd

LEMMA PipeKeepsOrder ==
  ASSUME TokensInv, ParseInv, OrderInv, ParsePipe
  PROVE  OrderInv'
<1>1. AtToken("parse") /\ ParseMoves(1) /\ ThisToken.type = "pipe"
  BY DEF ParsePipe
<1>2. CASE commands' = commands
  <2>1. Redirected' = Redirected
    BY <1>2, RedirectedIs
  <2> QED
    BY <1>1, <1>2, <2>1, StepKeepsOrder
<1>3. CASE commands' = Append(commands, NewCommand)
  <2>1. commands \in Seq(CommandOf(Values)) /\ Len(commands) \in Nat
    BY <1>1, CommandsAre
  <2>2. NewCommand \in CommandOf(Values) /\ Size(NewCommand) = 0
    <3>1. <<>> \in Seq(Values) /\ <<>> \in Seq([file : Values, type : FileType]) /\ Len(<<>>) = 0
      BY EmptySeq
    <3> QED
      BY <3>1 DEF NewCommand, CommandOf, Size
  <2> DEFINE new == NewCommand  ds == Append(commands, new)
  <2> HIDE DEF new
  <2>3. /\ ds \in Seq(CommandOf(Values)) /\ Len(ds) = Len(commands) + 1
        /\ \A i \in 1 .. Len(commands) : ds[i] = commands[i]
        /\ ds[Len(commands) + 1] = new
    BY <2>1, <2>2, AppendProperties DEF new
  <2> HIDE DEF ds
  <2>4. \A i \in Len(commands) + 1 .. Len(ds) : Size(ds[i]) = 0
    <3>1. \A i \in Len(commands) + 1 .. Len(ds) : ds[i] = new
      BY <2>1, <2>3
    <3> QED
      BY <2>2, <3>1 DEF new
  <2>5. Slots(ds) = Slots(commands)
    <3>1. /\ Len(ds) >= Len(commands)
          /\ \A i \in 1 .. Len(commands) : Size(ds[i]) = Size(commands[i])
      BY <2>1, <2>3
    <3>2. commands \in Seq(CommandOf(Values)) /\ ds \in Seq(CommandOf(Values))
      BY <2>1, <2>3
    <3> QED
      BY ONLY <2>4, <3>1, <3>2, SlotsStay
  <2>6. Redirected' = Redirected /\ Len(commands') = Len(commands) + 1
    BY <1>3, <2>3, <2>5, RedirectedIs DEF ds, new
  <2> QED
    BY <1>1, <2>6, StepKeepsOrder
<1> QED
  BY <1>2, <1>3 DEF ParsePipe

LEMMA RedirectKeepsOrder ==
  ASSUME TokensInv, ParseInv, OrderInv, ParseRedirect \/ ParseHeredoc
  PROVE  OrderInv'
<1>1. AtToken("parse") /\ ParseMoves(2) /\ ThisToken.type \in FileType \cup {"heredoc"}
  BY DEF ParseRedirect, ParseHeredoc
<1>2. /\ commands \in Seq(CommandOf(Values)) /\ Len(commands) >= 1 /\ Len(commands) \in Nat
      /\ ThisCommand \in CommandOf(Values) /\ ThisCommand = commands[Len(commands)] /\ Valid
  BY <1>1, CommandsAre
<1>3. TypeAt(cur + 1) \in TextType /\ tokens[cur + 1].value \in Values
  BY <1>1, <1>2, TextFollows
<1> DEFINE R == [file : Values, type : FileType]
<1>4. /\ ThisCommand.redirects \in Seq(R) /\ Len(ThisCommand.redirects) \in Nat
      /\ ThisCommand.delimiter \in Seq(Values) /\ Len(ThisCommand.delimiter) \in Nat
  BY <1>2, LenProperties DEF CommandOf
<1> DEFINE n == Size(ThisCommand)
<1>7. n \in Nat
  BY <1>2, SizeIs
<1>5. PICK c \in CommandOf(Values) :
        WithCommand(c) /\ Size(c) <= n + 1
  <2>1. CASE ParseRedirect
    <3> DEFINE r == [file |-> tokens[cur + 1].value, type |-> ThisToken.type]
               a == Append(ThisCommand.redirects, r)
               c == [ThisCommand EXCEPT !.redirects = a]
    <3>1. WithCommand(c) /\ r \in R
      BY <1>3, <2>1 DEF ParseRedirect, AddRedir
    <3> HIDE DEF r, R
    <3>2. a \in Seq(R) /\ Len(a) = Len(ThisCommand.redirects) + 1
      BY <1>4, <3>1, AppendProperties
    <3> HIDE DEF a
    <3>3. c \in CommandOf(Values) /\ c.redirects = a /\ c.delimiter = ThisCommand.delimiter
      BY <1>2, <3>2 DEF CommandOf, R
    <3> HIDE DEF c
    <3>4. Size(c) <= n + 1
      <4> DEFINE x == ThisCommand.redirects  y == ThisCommand.delimiter
      <4>1. Len(x) \in Nat /\ Len(y) \in Nat /\ n = Len(x) + Len(y)
        BY <1>4 DEF Size
      <4> HIDE DEF n, x, y
      <4>2. Size(c) = Len(x) + 1 + Len(y)
        BY <3>2, <3>3 DEF Size, x, y
      <4> QED
        BY <4>1, <4>2
    <3> QED
      BY <3>1, <3>3, <3>4
  <2>2. CASE ParseHeredoc
    <3> DEFINE v == tokens[cur + 1].value
               d == << v >>
               e == TypeAt(cur + 1) = "word"
               c == [ThisCommand EXCEPT !.delimiter = d, !.expand = e]
    <3>1. WithCommand(c) /\ e \in BOOLEAN
      BY <1>3, <2>2 DEF ParseHeredoc
    <3>2. d \in Seq(Values) /\ Len(d) = 1
      <4>1. v \in Values
        BY <1>3
      <4> HIDE DEF v
      <4> QED
        BY <4>1
    <3> HIDE DEF d, e, v
    <3>3. c \in CommandOf(Values) /\ c.redirects = ThisCommand.redirects /\ c.delimiter = d
      BY <1>2, <3>1, <3>2 DEF CommandOf
    <3> HIDE DEF c
    <3>4. Size(c) <= n + 1
      <4> DEFINE x == ThisCommand.redirects  y == ThisCommand.delimiter
      <4>1. Len(x) \in Nat /\ Len(y) \in Nat /\ n = Len(x) + Len(y)
        BY <1>4 DEF Size
      <4> HIDE DEF n, x, y
      <4>2. Size(c) = Len(x) + 1
        BY <3>2, <3>3 DEF Size, x
      <4> QED
        BY <4>1, <4>2
    <3> QED
      BY <3>1, <3>3, <3>4
  <2> QED
    BY <2>1, <2>2
<1> DEFINE ds == commands'
<1>6. /\ ds \in Seq(CommandOf(Values)) /\ Len(ds) = Len(commands)
      /\ \A i \in 1 .. Len(commands) - 1 : ds[i] = commands[i]
      /\ ds[Len(commands)] = c
  <2>1. /\ ds \in Seq(CommandOf(Values)) /\ Len(ds) = Len(commands)
        /\ \A i \in 1 .. Len(commands) : ds[i] = IF i = Len(commands) THEN c ELSE commands[i]
    BY <1>2, <1>5, LastReplaced DEF WithCommand
  <2> HIDE DEF ds
  <2> QED
    BY <1>2, <2>1
<1> HIDE DEF ds
<1>8. Slots(ds) \in SUBSET (Slots(commands) \cup {<<Len(commands), n + 1>>})
  <2>1. n = Size(commands[Len(commands)]) /\ Size(ds[Len(commands)]) <= n + 1
    BY <1>2, <1>5, <1>6
  <2> HIDE DEF n
  <2> QED
    BY ONLY <1>2, <1>6, <1>7, <2>1, SlotAdded
<1> DEFINE p == <<Len(commands), n + 1>>
<1> HIDE DEF p, n
<1>9. Redirected' \in SUBSET (Redirected \cup {p})
  BY <1>8, RedirectedIs DEF ds, p, n
<1>10. Len(commands') = Len(commands)
  BY <1>6 DEF ds
<1> QED
  BY <1>1, <1>9, <1>10, StepKeepsOrder

LEMMA OrderIsKept ==
  ASSUME TokensInv, ParseInv, OrderInv, [Next]_vars
  PROVE  OrderInv'
<1>1. CASE UNCHANGED vars \/ Parsed
  <2>1. /\ phase \in {"parse", "parsed"} \/ phase' = phase
        /\ tokens' = tokens /\ cur' = cur /\ commands' = commands
    BY <1>1 DEF vars, Parsed
  <2>2. phase' \in {"parse", "parsed"} => phase \in {"parse", "parsed"}
    BY <1>1 DEF vars, Parsed
  <2>3. Redirected' = Redirected /\ \A kind : Behind(kind, cur)' = Behind(kind, cur)
    BY <2>1, RedirectedIs DEF Behind, OfType
  <2> QED
    BY <2>1, <2>2, <2>3 DEF OrderInv
<1>2. CASE Tokenize
  <2>1. phase' \in {"tokenize", "unclosed"}
    BY <1>2 DEF Tokenize, Operator, Word, Quoted, Unclosed
  <2> QED
    BY <2>1 DEF OrderInv
<1>3. CASE Tokenized \/ DropDollar \/ ExpandToken \/ ExpansionDone \/ MergeToken
             \/ CheckFormatCommand
  <2>1. phase' \in {"blank", "expand", "undefined", "merge", "validate"}
    BY <1>3 DEF Tokenized, DropDollar, ExpandToken, ExpansionDone, MergeToken,
                CheckFormatCommand, AtToken
  <2> QED
    BY <2>1 DEF OrderInv
<1>4. CASE ValidateTokens
  <2>1. CASE ~Valid
    BY <1>4, <2>1 DEF ValidateTokens, OrderInv
  <2>2. CASE Valid
    <3> DEFINE new == NewCommand  ds == << new >>
    <3>1. /\ phase = "validate" /\ phase' = "parse" /\ tokens' = tokens /\ cur' = 1 /\ cur = 1
          /\ commands' = ds
      BY <1>4, <2>2 DEF ValidateTokens, ParseInv
    <3>2. new.redirects = <<>> /\ new.delimiter = <<>>
      BY DEF NewCommand
    <3> HIDE DEF new
    <3>3. Slots(ds) = {} /\ Len(ds) = 1
      <4>1. DOMAIN ds = {1} /\ ds[1] = new /\ Len(ds) = 1
        OBVIOUS
      <4> HIDE DEF ds
      <4>2. 1 .. Len(<<>>) + Len(<<>>) = {}
        OBVIOUS
      <4> QED
        BY <3>2, <4>1, <4>2 DEF Slots, Size
    <3>4. Redirected' = {} /\ Len(commands') = 1
      BY <3>1, <3>3, RedirectedIs
    <3>5. \A kind \in Kind : Cardinality(Behind(kind, cur)') \in Nat
      <4> TAKE kind \in Kind
      <4>1. PICK V : tokens \in Seq(ReadyOf(V))
        BY <3>1 DEF TokensInv
      <4>2. IsFiniteSet(OfType(tokens, Types(kind)))
        BY <4>1, OfTypeIs
      <4>3. Behind(kind, cur)' \in SUBSET OfType(tokens, Types(kind))
        BY <3>1 DEF Behind, OfType
      <4> QED
        BY <4>2, <4>3, FS_Subset, FS_CardinalityType
    <3>6. /\ Cardinality(Behind("pipe", cur)') \in Nat /\ Cardinality(Behind("redirect", cur)') \in Nat
      BY <3>5 DEF Kind
    <3>7. IsFiniteSet({}) /\ Cardinality({}) = 0
      BY FS_EmptySet
    <3>8. IsFiniteSet(Redirected') /\ Cardinality(Redirected') <= Cardinality(Behind("redirect", cur)')
      BY <3>4, <3>6, <3>7
    <3>9. Len(commands') - 1 <= Cardinality(Behind("pipe", cur)')
      BY <3>4, <3>6
    <3> QED
      BY <3>8, <3>9 DEF OrderInv
  <2> QED
    BY <2>1, <2>2
<1> QED
  BY <1>1, <1>2, <1>3, <1>4, WordKeepsOrder, RedirectKeepsOrder, PipeKeepsOrder DEF Next

-----------------------------------------------------------------------------
(* How often a character stands in a text *)

Count(x, v) == Cardinality(Marks(x, v))

LEMMA CountIs ==
  ASSUME NEW v \in Text, NEW x
  PROVE  /\ Marks(x, v) \in SUBSET (1 .. Len(v)) /\ IsFiniteSet(Marks(x, v))
         /\ Count(x, v) \in Nat
<1>1. Len(v) \in Nat /\ DOMAIN v = 1 .. Len(v)
  BY TextIs
<1>2. Marks(x, v) \in SUBSET (1 .. Len(v))
  BY <1>1 DEF Marks
<1>3. IsFiniteSet(1 .. Len(v))
  BY <1>1, FS_Interval
<1> QED
  BY <1>2, <1>3, FS_Subset, FS_CardinalityType DEF Count

LEMMA NoneCounted ==
  ASSUME NEW v \in Text, NEW x, \A i \in 1 .. Len(v) : v[i] # x
  PROVE  Count(x, v) = 0
<1>1. Marks(x, v) = {}
  BY TextIs DEF Marks
<1> QED
  BY <1>1, FS_EmptySet DEF Count

LEMMA Shifted ==
  ASSUME NEW A \in SUBSET Int, IsFiniteSet(A), NEW k \in Int
  PROVE  /\ IsFiniteSet({i + k : i \in A})
         /\ Cardinality({i + k : i \in A}) = Cardinality(A)
<1> DEFINE B == {i + k : i \in A}  f == [i \in A |-> i + k]
<1>1. f \in [A -> B]
  OBVIOUS
<1>2. \A a, b \in A : f[a] = f[b] => a = b
  OBVIOUS
<1>3. \A t \in B : \E s \in A : f[s] = t
  OBVIOUS
<1> HIDE DEF f, B
<1>4. f \in Bijection(A, B)
  BY <1>1, <1>2, <1>3, Fun_IsBij
<1>5. ExistsBijection(A, B)
  BY <1>4, Fun_ExistsBij
<1>6. IsFiniteSet(B) /\ Cardinality(B) = Cardinality(A)
  BY <1>5, FS_Bijection
<1> QED
  BY <1>6 DEF B

\* The counts of two texts add up when these are joined.
LEMMA CountJoined ==
  ASSUME NEW v \in Text, NEW w \in Text, NEW x
  PROVE  Count(x, v \o w) = Count(x, v) + Count(x, w)
<1> DEFINE n == Len(v)  A == Marks(x, v)  M == Marks(x, w)  B == {i + n : i \in M}
<1>1. /\ n \in Nat /\ Len(w) \in Nat /\ DOMAIN v = 1 .. n /\ DOMAIN w = 1 .. Len(w)
  BY TextIs
<1>2. /\ v \o w \in Text /\ Len(v \o w) = n + Len(w)
      /\ \A i \in 1 .. n + Len(w) : (v \o w)[i] = IF i <= n THEN v[i] ELSE w[i - n]
  BY ConcatProperties DEF Text
<1>3. DOMAIN (v \o w) = 1 .. n + Len(w)
  BY <1>2, TextIs
<1>4. A \in SUBSET (1 .. n) /\ IsFiniteSet(A) /\ M \in SUBSET (1 .. Len(w)) /\ IsFiniteSet(M)
      /\ Cardinality(A) \in Nat /\ Cardinality(M) \in Nat
  BY CountIs DEF Count
<1> DEFINE c == v \o w
<1> HIDE DEF n, c
<1>5. Marks(x, c) = A \cup B
  <2>1. ASSUME NEW i \in Marks(x, c) PROVE i \in A \cup B
    <3>1. i \in 1 .. n + Len(w) /\ c[i] = x
      BY <1>3, <2>1 DEF Marks, c
    <3>2. CASE i <= n
      <4>1. v[i] = x /\ i \in 1 .. n
        BY <1>1, <1>2, <3>1, <3>2 DEF c
      <4> QED
        BY <1>1, <4>1 DEF Marks
    <3>3. CASE ~(i <= n)
      <4>1. w[i - n] = x /\ i - n \in 1 .. Len(w) /\ (i - n) + n = i
        BY <1>1, <1>2, <3>1, <3>3 DEF c
      <4>2. i - n \in M
        BY <1>1, <4>1 DEF Marks
      <4> QED
        BY <4>1, <4>2
    <3> QED
      BY <3>2, <3>3
  <2>2. ASSUME NEW i \in A PROVE i \in Marks(x, c)
    <3>1. i \in 1 .. n /\ v[i] = x
      BY <1>1, <2>2 DEF Marks
    <3> QED
      BY <1>1, <1>2, <1>3, <3>1 DEF Marks, c
  <2>3. ASSUME NEW i \in B PROVE i \in Marks(x, c)
    <3>1. PICK j \in M : i = j + n
      BY <2>3
    <3>2. j \in 1 .. Len(w) /\ w[j] = x
      BY <1>1, <3>1 DEF Marks
    <3>3. i \in 1 .. n + Len(w) /\ ~(i <= n) /\ i - n = j
      BY <1>1, <3>1, <3>2
    <3> QED
      BY <1>1, <1>2, <1>3, <3>2, <3>3 DEF Marks, c
  <2> QED
    BY <2>1, <2>2, <2>3
<1>6. M \in SUBSET Int /\ n \in Int
  BY <1>1, <1>4
<1>7. A \cap B = {}
  BY <1>1, <1>4
<1> HIDE DEF A, M
<1>8. IsFiniteSet(B) /\ Cardinality(B) = Cardinality(M)
  BY <1>4, <1>6, Shifted
<1> HIDE DEF B
<1>9. Cardinality(A \cup B) = Cardinality(A) + Cardinality(B) - Cardinality(A \cap B)
  BY <1>4, <1>8, FS_Union
<1>10. Cardinality(A \cap B) = 0
  BY <1>7, FS_EmptySet
<1> QED
  BY <1>4, <1>5, <1>8, <1>9, <1>10 DEF Count, A, M, c

\* The part of the line from a to before b, and how often x is typed before a.
Piece(a, b) == SubSeq(line, a, b - 1)
Typed(x, a) == Count(x, Piece(1, a))

LEMMA PieceIs ==
  ASSUME PosInv, NEW a \in 1 .. Len(line) + 1, NEW b \in a .. Len(line) + 1
  PROVE  /\ Piece(a, b) \in Text /\ Len(Piece(a, b)) = b - a
         /\ \A k \in 1 .. b - a : /\ a + k - 1 \in a .. b - 1
                                  /\ Piece(a, b)[k] = line[a + k - 1]
                                  /\ Piece(a, b)[k] = At(a + k - 1)
<1>1. Len(line) \in Nat /\ line \in Text
  BY LineIs, LineIsText DEF PosInv
<1>2. Piece(a, b) \in Text
  BY PartOfLine DEF Piece
<1> DEFINE m == b - 1
<1>3. m \in Int /\ a \in Int /\ \A i \in a .. m : line[i] \in STRING
  BY <1>1, TextIs
<1> HIDE DEF m
<1>4. /\ Len(SubSeq(line, a, m)) = IF a <= m THEN m - a + 1 ELSE 0
      /\ \A i \in 1 .. m - a + 1 : SubSeq(line, a, m)[i] = line[a + i - 1]
  BY <1>3, SubSeqProperties
<1>5. m = b - 1 /\ b >= a /\ b \in Int
  BY <1>1 DEF m
<1>6. /\ Len(SubSeq(line, a, m)) = b - a
      /\ \A k \in 1 .. b - a : /\ a + k - 1 \in a .. b - 1
                               /\ SubSeq(line, a, m)[k] = line[a + k - 1]
  BY <1>3, <1>4, <1>5
<1>7. \A k \in 1 .. b - a : At(a + k - 1) = line[a + k - 1]
  BY <1>1, LineIs DEF PosInv
<1> QED
  BY <1>2, <1>6, <1>7 DEF Piece, m

LEMMA PieceCounts ==
  ASSUME PosInv, NEW a \in 1 .. Len(line) + 1, NEW b \in a .. Len(line) + 1, NEW x
  PROVE  /\ Typed(x, a) \in Nat /\ Count(x, Piece(a, b)) \in Nat
         /\ Typed(x, b) = Typed(x, a) + Count(x, Piece(a, b))
         /\ (\A k \in a .. b - 1 : At(k) # x) => Count(x, Piece(a, b)) = 0
<1>1. Len(line) \in Nat /\ line \in Seq(STRING)
  BY LineIs, LineIsText DEF PosInv, Text
<1>2. Piece(1, a) \in Text /\ Piece(a, b) \in Text
  <2>1. 1 \in 1 .. Len(line) + 1 /\ a \in 1 .. Len(line) + 1
    BY <1>1
  <2> QED
    BY <2>1, PieceIs
<1>3. Piece(1, a) \o Piece(a, b) = Piece(1, b)
  <2> DEFINE k == a - 1  n == b - 1
  <2>1. 1 \in 1 .. Len(line) + 1 /\ k \in 1 - 1 .. Len(line) /\ n \in k .. Len(line) /\ k + 1 = a
    BY <1>1
  <2> HIDE DEF k, n
  <2>2. SubSeq(line, 1, k) \o SubSeq(line, k + 1, n) = SubSeq(line, 1, n)
    BY <1>1, <2>1, ConcatAdjacentSubSeq
  <2> QED
    BY <2>1, <2>2 DEF Piece, k, n
<1>4. Typed(x, b) = Typed(x, a) + Count(x, Piece(a, b))
  BY <1>2, <1>3, CountJoined DEF Typed
<1>5. ASSUME \A k \in a .. b - 1 : At(k) # x
      PROVE  Count(x, Piece(a, b)) = 0
  <2>1. ASSUME NEW k \in 1 .. Len(Piece(a, b)) PROVE Piece(a, b)[k] # x
    <3>1. k \in 1 .. b - a
      BY <2>1, PieceIs
    <3>2. a + k - 1 \in a .. b - 1 /\ Piece(a, b)[k] = At(a + k - 1)
      BY <3>1, PieceIs
    <3> QED
      BY <1>5, <3>2
  <2> QED
    BY <1>2, <2>1, NoneCounted
<1> QED
  BY <1>2, <1>4, <1>5, CountIs DEF Typed

-----------------------------------------------------------------------------
(* How often a character stands in a list of tokens *)

\* f[i] is the count of x in the values of the first i tokens.
Running(x, ts, f) ==
  /\ f \in [0 .. Len(ts) -> Nat] /\ f[0] = 0
  /\ \A i \in 1 .. Len(ts) : f[i] = f[i - 1] + Count(x, ts[i].value)

Sums(x, ts, n) == \E f : Running(x, ts, f) /\ f[Len(ts)] = n

NoDollar(v) == \A i \in DOMAIN v : v[i] # "$"
Bare(v)     == \A i \in DOMAIN v : ~Letter(v[i])

TextToken == [value : Text, type : TokenType, consecutive : BOOLEAN]

\* A token of a line without variables: what is no text is an operator, which is
\* not joined to what follows.
Sound(t) ==
  NoDollar(t.value) /\ (t.type \notin TextType \cup {"command"} => ~t.consecutive /\ Bare(t.value))

Kept(x, ts, n) ==
  ts \in Seq(TextToken) /\ (\A i \in 1 .. Len(ts) : Sound(ts[i])) /\ Sums(x, ts, n)

LEMMA NothingKept ==
  ASSUME NEW x
  PROVE  Kept(x, <<>>, 0)
<1> DEFINE s == <<>>  f == [i \in 0 .. 0 |-> 0]
<1>1. s \in Seq(TextToken) /\ Len(s) = 0
  BY EmptySeq
<1> HIDE DEF s
<1>2. f \in [0 .. Len(s) -> Nat] /\ f[0] = 0 /\ f[Len(s)] = 0
  BY <1>1
<1> HIDE DEF f
<1>3. Running(x, s, f)
  BY <1>1, <1>2 DEF Running
<1>4. Kept(x, s, 0)
  BY <1>1, <1>2, <1>3 DEF Kept, Sums
<1> QED
  BY <1>4 DEF s

LEMMA OneKept ==
  ASSUME NEW x, NEW s, NEW n \in Nat, Kept(x, s, n), NEW t \in TextToken, Sound(t)
  PROVE  Kept(x, Append(s, t), n + Count(x, t.value))
<1> DEFINE r == Append(s, t)  l == Len(s)  c == Count(x, t.value)
<1>1. s \in Seq(TextToken) /\ l \in Nat
  BY LenProperties DEF Kept
<1>2. r \in Seq(TextToken) /\ Len(r) = l + 1 /\ (\A i \in 1 .. l : r[i] = s[i]) /\ r[l + 1] = t
  BY <1>1, AppendProperties
<1>3. c \in Nat
  BY CountIs DEF TextToken
<1>4. PICK f : Running(x, s, f) /\ f[l] = n
  BY DEF Kept, Sums
<1> DEFINE g == [i \in 0 .. l + 1 |-> IF i <= l THEN f[i] ELSE n + c]
<1>5. /\ f \in [0 .. l -> Nat] /\ f[0] = 0
      /\ \A i \in 1 .. l : f[i] = f[i - 1] + Count(x, s[i].value)
  BY <1>4 DEF Running
<1>6. \A i \in 1 .. l : Sound(s[i])
  BY DEF Kept
<1> HIDE DEF r, l, c
<1>7. g \in [0 .. l + 1 -> Nat] /\ g[0] = 0 /\ g[l + 1] = n + c /\ \A i \in 0 .. l : g[i] = f[i]
  BY <1>1, <1>3, <1>5
<1> HIDE DEF g
<1>8. ASSUME NEW i \in 1 .. l + 1 PROVE g[i] = g[i - 1] + Count(x, r[i].value) /\ Sound(r[i])
  <2>1. CASE i \in 1 .. l
    <3>1. i - 1 \in 0 .. l /\ i \in 0 .. l /\ i \in 1 .. l
      BY <1>1, <2>1
    <3> QED
      BY <1>2, <1>5, <1>6, <1>7, <3>1
  <2>2. CASE i = l + 1
    <3>1. i - 1 = l /\ l \in 0 .. l
      BY <1>1, <2>2
    <3> QED
      BY <1>2, <1>4, <1>7, <2>2, <3>1 DEF c
  <2> QED
    BY <1>1, <2>1, <2>2
<1>9. Running(x, r, g) /\ g[Len(r)] = n + c
  BY <1>2, <1>7, <1>8 DEF Running
<1>10. Kept(x, r, n + c)
  BY <1>2, <1>8, <1>9 DEF Kept, Sums
<1> QED
  BY <1>10 DEF r, c

\* Types and marks of tokens may change, as long as the values stay.
LEMMA SameKept ==
  ASSUME NEW x, NEW s, NEW n, Kept(x, s, n), NEW r \in Seq(TextToken), Len(r) = Len(s),
         \A i \in 1 .. Len(s) : r[i].value = s[i].value /\ Sound(r[i])
  PROVE  Kept(x, r, n)
<1>1. PICK f : Running(x, s, f) /\ f[Len(s)] = n
  BY DEF Kept, Sums
<1>2. Running(x, r, f) /\ f[Len(r)] = n
  BY <1>1 DEF Running
<1> QED
  BY <1>2 DEF Kept, Sums

\* Two tokens become one that has the value of both.
LEMMA JoinedKept ==
  ASSUME NEW x, NEW s, NEW n, Kept(x, s, n), NEW k \in 1 .. Len(s) - 1, NEW r \in Seq(TextToken),
         Len(r) = Len(s) - 1,
         \A i \in 1 .. Len(s) - 1 : /\ i < k => r[i] = s[i]
                                    /\ i > k => r[i] = s[i + 1],
         Sound(r[k]), r[k].value = s[k].value \o s[k + 1].value
  PROVE  Kept(x, r, n)
<1> DEFINE l == Len(s)
<1>1. s \in Seq(TextToken) /\ l \in Nat /\ \A i \in 1 .. l : Sound(s[i])
  BY LenProperties DEF Kept
<1>2. PICK f : Running(x, s, f) /\ f[l] = n
  BY DEF Kept, Sums
<1>3. /\ f \in [0 .. l -> Nat] /\ f[0] = 0
      /\ \A i \in 1 .. l : f[i] = f[i - 1] + Count(x, s[i].value)
  BY <1>2 DEF Running
<1> HIDE DEF l
<1>4. k \in 1 .. l - 1 /\ Len(r) = l - 1 /\ k \in 1 .. l /\ k + 1 \in 1 .. l
  BY <1>1 DEF l
<1>5. s[k].value \in Text /\ s[k + 1].value \in Text
  <2>1. s[k] \in TextToken /\ s[k + 1] \in TextToken
    BY <1>1, <1>4, ElementOfSeq DEF l
  <2> QED
    BY <2>1 DEF TextToken
<1>6. /\ Count(x, r[k].value) = Count(x, s[k].value) + Count(x, s[k + 1].value)
      /\ Count(x, s[k].value) \in Nat /\ Count(x, s[k + 1].value) \in Nat
  BY <1>5, CountJoined, CountIs
<1> DEFINE g == [i \in 0 .. l - 1 |-> IF i < k THEN f[i] ELSE f[i + 1]]
<1>7. /\ g \in [0 .. l - 1 -> Nat]
      /\ \A i \in 0 .. l - 1 : /\ i < k => g[i] = f[i]
                               /\ i >= k => g[i] = f[i + 1]
  <2>1. \A i \in 0 .. l - 1 : i \in 0 .. l /\ i + 1 \in 0 .. l
    BY ONLY <1>1
  <2>2. \A i \in 0 .. l - 1 : f[i] \in Nat /\ f[i + 1] \in Nat
    BY ONLY <1>3, <2>1
  <2>3. g \in [0 .. l - 1 -> Nat]
    BY ONLY <2>2
  <2>4. \A i \in 0 .. l - 1 : i >= k => ~(i < k)
    BY ONLY <1>4
  <2>5. \A i \in 0 .. l - 1 : /\ i < k => g[i] = f[i]
                              /\ i >= k => g[i] = f[i + 1]
    BY ONLY <2>4
  <2> QED
    BY <2>3, <2>5
<1> HIDE DEF g
<1>8. ASSUME NEW i \in 1 .. l - 1 PROVE g[i] = g[i - 1] + Count(x, r[i].value) /\ Sound(r[i])
  <2>1. i \in 0 .. l - 1 /\ i - 1 \in 0 .. l - 1 /\ i \in 1 .. l /\ i + 1 \in 1 .. l
    BY <1>1
  <2>2. i \in 1 .. Len(s) - 1
    BY DEF l
  <2>3. CASE i < k
    <3>1. r[i] = s[i] /\ g[i] = f[i] /\ g[i - 1] = f[i - 1]
      BY <1>4, <1>7, <2>1, <2>2, <2>3
    <3> QED
      BY <1>1, <1>3, <2>1, <3>1
  <2>4. CASE i = k
    <3>1. g[i] = f[k + 1] /\ g[i - 1] = f[k - 1]
      BY <1>4, <1>7, <2>1, <2>4
    <3>2. f[k] = f[k - 1] + Count(x, s[k].value)
      BY <1>3, <1>4
    <3>3. f[k + 1] = f[k] + Count(x, s[k + 1].value)
      <4>1. k + 1 - 1 = k
        BY <1>4
      <4> QED
        BY <1>3, <1>4, <4>1
    <3>4. f[k - 1] \in Nat
      BY <1>1, <1>3, <1>4
    <3>5. g[i] = g[i - 1] + Count(x, r[k].value)
      BY <1>6, <3>1, <3>2, <3>3, <3>4
    <3> QED
      BY <2>4, <3>5
  <2>5. CASE i > k
    <3>1. r[i] = s[i + 1] /\ g[i] = f[i + 1] /\ g[i - 1] = f[i - 1 + 1] /\ i - 1 + 1 = i
      BY <1>4, <1>7, <2>1, <2>2, <2>5
    <3>2. f[i + 1] = f[i + 1 - 1] + Count(x, s[i + 1].value) /\ i + 1 - 1 = i
      BY <1>3, <2>1
    <3> QED
      BY <1>1, <2>1, <3>1, <3>2
  <2>6. i < k \/ i = k \/ i > k
    BY <1>4
  <2> QED
    BY <2>3, <2>4, <2>5, <2>6
<1>9. g[0] = 0 /\ g[l - 1] = n
  <2>1. 0 \in 0 .. l - 1 /\ 0 < k /\ l - 1 \in 0 .. l - 1 /\ l - 1 >= k /\ l - 1 + 1 = l
    BY <1>1, <1>4
  <2> QED
    BY <1>2, <1>3, <1>7, <2>1
<1>10. Running(x, r, g) /\ g[Len(r)] = n
  BY <1>4, <1>7, <1>8, <1>9 DEF Running
<1> QED
  BY <1>4, <1>8, <1>10 DEF Kept, Sums

-----------------------------------------------------------------------------
(* The letters of a line without variables, from the lexer to the parser *)

NoVariables == NoDollar(line)

Listed == {"expand", "merge", "validate", "parse", "parsed"}

\* The values of the tokens hold a letter as often as the line does, up to where
\* the lexer is.
KeepInv ==
  NoVariables => \A x : Letter(x) =>
    /\ phase = "tokenize" => Kept(x, tokens, Typed(x, pos))
    /\ phase \in Listed => Kept(x, tokens, Count(x, line))

LEMMA TypedFixed ==
  ASSUME line' = line
  PROVE  /\ \A x : Typed(x, pos)' = Typed(x, pos') /\ Count(x, line)' = Count(x, line)
         /\ \A x, n : Kept(x, tokens, n)' = Kept(x, tokens', n')
         /\ NoVariables' = NoVariables
BY DEF Typed, Piece, Count, Marks, Kept, Sums, Running, Sound, NoDollar, Bare, NoVariables

\* What the lexer passes before a token is no letter.
LEMMA StartTyped ==
  ASSUME PosInv, NEW x, Letter(x)
  PROVE  Typed(x, Start) = Typed(x, pos) /\ Typed(x, pos) \in Nat
<1>1. Len(line) \in Nat /\ pos \in 1 .. Len(line) + 1
  BY LineIs DEF PosInv
<1>2. Start \in pos .. Len(line) + 1 /\ \A k \in pos .. Start - 1 : At(k) # x
  BY StartIs DEF PosInv, Skipped, Letter
<1>3. Typed(x, Start) = Typed(x, pos) + Count(x, Piece(pos, Start)) /\ Count(x, Piece(pos, Start)) = 0
      /\ Typed(x, pos) \in Nat
  BY <1>1, <1>2, PieceCounts
<1> QED
  BY <1>3

\* A part of a line without variables is the value of a text, and one without
\* letters that of an operator.
LEMMA PieceSound ==
  ASSUME PosInv, NoVariables, NEW a \in 1 .. Len(line) + 1, NEW b \in a .. Len(line) + 1,
         NEW type \in TokenType, NEW c \in BOOLEAN,
         type \in TextType \/ (~c /\ \A k \in a .. b - 1 : At(k) \in Operators)
  PROVE  LET t == Token(Piece(a, b), type, c)
         IN  t \in TextToken /\ Sound(t) /\ t.value = Piece(a, b)
<1> DEFINE v == Piece(a, b)
<1>1. v \in Text /\ Len(v) = b - a /\ DOMAIN v = 1 .. b - a
  BY PieceIs, TextIs
<1>2. \A k \in 1 .. b - a : /\ a + k - 1 \in a .. b - 1
                            /\ v[k] = line[a + k - 1] /\ v[k] = At(a + k - 1)
  BY PieceIs
<1>3. Len(line) \in Nat /\ DOMAIN line = 1 .. Len(line)
  BY LineIs DEF PosInv
<1>4. NoDollar(v)
  <2>1. \A k \in 1 .. b - a : a + k - 1 \in 1 .. Len(line)
    BY <1>3
  <2> QED
    BY <1>1, <1>2, <1>3, <2>1 DEF NoDollar, NoVariables
<1>5. type \notin TextType => ~c /\ Bare(v)
  BY <1>1, <1>2 DEF Bare, Letter
<1> HIDE DEF v
<1> DEFINE t == Token(v, type, c)
<1>6. t \in TextToken /\ t.value = v /\ t.type = type /\ t.consecutive = c
  BY <1>1 DEF Token, TextToken
<1> HIDE DEF t
<1>7. Sound(t)
  BY <1>4, <1>5, <1>6 DEF Sound
<1> QED
  BY <1>6, <1>7 DEF t, v

LEMMA OneCharacter ==
  ASSUME NEW c \in STRING
  PROVE  Len(<< c >>) = 1 /\ << c >>[1] = c /\ DOMAIN << c >> = 1 .. 1
OBVIOUS

\* A blank is the value of a text as well.
LEMMA BlankSound ==
  ASSUME NEW b \in STRING, b # "$", ~Letter(b), NEW type \in TextType, NEW c \in BOOLEAN
  PROVE  LET t == Token(<< b >>, type, c)
         IN  /\ t \in TextToken /\ Sound(t) /\ t.value = << b >>
             /\ \A x : Letter(x) => Count(x, << b >>) = 0
<1> DEFINE v == << b >>
<1>1. v \in Text
  BY Short, Zenon
<1>2. Len(v) = 1 /\ v[1] = b /\ DOMAIN v = 1 .. 1
  BY OneCharacter, Zenon
<1> HIDE DEF v
<1>3. \A i \in 1 .. 1 : i = 1
  OBVIOUS
<1> DEFINE t == Token(v, type, c)
<1>4. t \in TextToken /\ t.value = v /\ t.type = type
  BY <1>1 DEF Token, TextToken, TextType, TokenType
<1> HIDE DEF t
<1>5. Sound(t)
  BY <1>2, <1>3, <1>4 DEF Sound, NoDollar
<1>6. ASSUME NEW x, Letter(x) PROVE Count(x, v) = 0
  <2>1. \A i \in 1 .. Len(v) : v[i] # x
    BY <1>2, <1>3, <1>6
  <2> QED
    BY <1>1, <2>1, NoneCounted
<1> QED
  BY <1>4, <1>5, <1>6 DEF t, v

\* What an operator adds to the list.
LEMMA OperatorAdds ==
  ASSUME PosInv, tokens \in Seq(TextToken), Operator
  PROVE  \E past \in 1 .. Len(line) + 1, next \in 1 .. Len(line) + 1 :
           /\ Start \in 1 .. Len(line) + 1 /\ past \in Start .. Len(line) + 1
           /\ next \in past .. Len(line) + 1 /\ pos' = next
           /\ \A k \in Start .. past - 1 : At(k) \in Operators
           /\ OperatorType(Start) \in TokenType
           /\ LET r == Append(tokens, Token(Piece(Start, past), OperatorType(Start), FALSE))
              IN \/ tokens' = Append(r, Token(Piece(past, next), "word", FALSE))
                 \/ tokens' = r /\ Piece(past, next) = <<>>
<1> DEFINE start == Start
           past  == IF Doubled(start) THEN start + 2 ELSE start + 1
           next  == IF At(start) \in Redirects THEN FileEnd(past) ELSE past
           value == SubSeq(line, start, past - 1)
           file  == SubSeq(line, past, next - 1)
           o     == Token(value, OperatorType(start), FALSE)
           w     == Token(file, "word", FALSE)
           rest  == IF file = <<>> THEN <<>> ELSE << w >>
           r     == Append(tokens, o)
<1>1. At(start) \in Operators /\ pos' = next /\ tokens' = tokens \o << o >> \o rest
  BY DEF Operator
<1>2. /\ start \in 1 .. Len(line) /\ past \in start + 1 .. Len(line) + 1
      /\ FileEnd(past) \in past .. Len(line) + 1 /\ Len(line) \in Nat
  BY <1>1, OperatorEnd, LineIs DEF PosInv
<1>3. \A k \in start .. past - 1 : At(k) \in Operators
  <2>1. \A k \in start .. past - 1 : k = start \/ (Doubled(start) /\ k = start + 1)
    BY <1>2
  <2>2. Doubled(start) => At(start + 1) \in Operators
    BY <1>1 DEF Doubled
  <2> QED
    BY <1>1, <2>1, <2>2
<1>4. OperatorType(start) \in TokenType
  BY <1>1 DEF OperatorType, TokenType, Operators, Redirects
<1> HIDE DEF past, start
<1>5. /\ next \in past .. Len(line) + 1 /\ past \in 1 .. Len(line) + 1 /\ next \in 1 .. Len(line) + 1
      /\ past \in start .. Len(line) + 1 /\ start \in 1 .. Len(line) + 1
  BY <1>2
<1> HIDE DEF next
<1>6. value \in Text /\ file \in Text
  BY <1>5, PartOfLine
<1>7. value = Piece(start, past) /\ file = Piece(past, next)
  BY DEF Piece
<1> HIDE DEF value, file
<1>8. o \in TextToken /\ w \in TextToken
  BY <1>4, <1>6 DEF Token, TextToken, TokenType
<1> HIDE DEF o, w
<1>9. /\ tokens \o << o >> = r /\ r \in Seq(TextToken)
      /\ r \o << w >> = Append(r, w) /\ r \o <<>> = r
  <2>1. tokens \o << o >> = r /\ r \in Seq(TextToken)
    BY <1>8, AppendIsConcat, AppendProperties
  <2> HIDE DEF r
  <2> QED
    BY <1>8, <2>1, AppendIsConcat, ConcatEmptySeq
<1> HIDE DEF r
<1>10. tokens' = Append(r, w) \/ (tokens' = r /\ file = <<>>)
  BY <1>1, <1>9
<1>11. tokens' = Append(r, Token(Piece(past, next), "word", FALSE))
       \/ (tokens' = r /\ Piece(past, next) = <<>>)
  BY <1>7, <1>10 DEF w
<1>12. r = Append(tokens, Token(Piece(start, past), OperatorType(start), FALSE))
  BY <1>7 DEF r, o
<1> QED
  BY <1>1, <1>3, <1>4, <1>5, <1>11, <1>12 DEF start

LEMMA OperatorKeepsLetters ==
  ASSUME PosInv, NoVariables, NEW x, Letter(x), Kept(x, tokens, Typed(x, pos)), Operator
  PROVE  Kept(x, tokens', Typed(x, pos'))
<1>1. tokens \in Seq(TextToken)
  BY DEF Kept
<1>2. PICK past \in 1 .. Len(line) + 1 : \E next \in 1 .. Len(line) + 1 :
           /\ Start \in 1 .. Len(line) + 1 /\ past \in Start .. Len(line) + 1
           /\ next \in past .. Len(line) + 1 /\ pos' = next
           /\ \A k \in Start .. past - 1 : At(k) \in Operators
           /\ OperatorType(Start) \in TokenType
           /\ LET r == Append(tokens, Token(Piece(Start, past), OperatorType(Start), FALSE))
              IN \/ tokens' = Append(r, Token(Piece(past, next), "word", FALSE))
                 \/ tokens' = r /\ Piece(past, next) = <<>>
  BY <1>1, OperatorAdds
<1> DEFINE o == Token(Piece(Start, past), OperatorType(Start), FALSE)
           r == Append(tokens, o)
<1>3. PICK next \in past .. Len(line) + 1 :
           /\ Start \in 1 .. Len(line) + 1 /\ past \in Start .. Len(line) + 1
           /\ pos' = next
           /\ \A k \in Start .. past - 1 : At(k) \in Operators
           /\ OperatorType(Start) \in TokenType
           /\ \/ tokens' = Append(r, Token(Piece(past, next), "word", FALSE))
              \/ tokens' = r /\ Piece(past, next) = <<>>
  BY <1>2
<1> DEFINE w == Token(Piece(past, next), "word", FALSE)
<1>4. o \in TextToken /\ Sound(o) /\ o.value = Piece(Start, past)
  BY <1>3, PieceSound
<1>5. w \in TextToken /\ Sound(w) /\ w.value = Piece(past, next)
  <2>1. "word" \in TextType /\ "word" \in TokenType
    BY DEF TextType, TokenType
  <2> QED
    BY <2>1, PieceSound
<1>6. Typed(x, Start) = Typed(x, pos) /\ Typed(x, pos) \in Nat
  BY StartTyped
<1>7. Count(x, Piece(Start, past)) = 0 /\ Typed(x, past) = Typed(x, pos)
  <2>1. \A k \in Start .. past - 1 : At(k) # x
    BY <1>3 DEF Letter
  <2>2. Typed(x, past) = Typed(x, Start) + Count(x, Piece(Start, past)) /\ Count(x, Piece(Start, past)) = 0
    BY <1>3, <2>1, PieceCounts
  <2> QED
    BY <1>6, <2>2
<1>8. Typed(x, next) = Typed(x, past) + Count(x, Piece(past, next))
  BY PieceCounts
<1> DEFINE n == Typed(x, pos)  c == Count(x, Piece(past, next))
<1> HIDE DEF o, w
<1>9. Kept(x, r, n)
  <2>1. Kept(x, r, n + Count(x, o.value))
    BY <1>4, <1>6, OneKept
  <2> HIDE DEF r
  <2> QED
    BY <1>4, <1>6, <1>7, <2>1
<1> HIDE DEF r
<1>10. CASE tokens' = Append(r, w)
  <2>1. Kept(x, Append(r, w), n + Count(x, w.value))
    BY <1>5, <1>6, <1>9, OneKept
  <2> QED
    BY <1>3, <1>5, <1>7, <1>8, <1>10, <2>1
<1>11. CASE tokens' = r /\ Piece(past, next) = <<>>
  <2>1. c = 0
    <3>1. Piece(past, next) \in Text /\ Len(Piece(past, next)) = 0
      BY <1>11, Short, EmptySeq
    <3> QED
      BY <3>1, NoneCounted
  <2> QED
    BY <1>3, <1>6, <1>7, <1>8, <1>9, <1>11, <2>1
<1> QED
  BY <1>3, <1>10, <1>11 DEF w

LEMMA WordKeepsLetters ==
  ASSUME PosInv, NoVariables, NEW x, Letter(x), Kept(x, tokens, Typed(x, pos)), Word
  PROVE  Kept(x, tokens', Typed(x, pos'))
<1> DEFINE next == StopAt(Start, Blanks \cup Operators \cup Quotes)
           t    == Token(Piece(Start, next), "word", JoinsWord(next))
<1>1. pos' = next /\ tokens' = IF next = Start THEN tokens ELSE Append(tokens, t)
  BY DEF Word, Piece
<1>2. Start \in 1 .. Len(line) + 1 /\ next \in Start .. Len(line) + 1
  <2>1. Len(line) \in Nat /\ pos \in Nat /\ pos >= 1
    BY LineIs DEF PosInv
  <2> QED
    BY <2>1, WordEnd
<1>3. Typed(x, Start) = Typed(x, pos) /\ Typed(x, pos) \in Nat
  BY StartTyped
<1>4. JoinsWord(next) \in BOOLEAN /\ "word" \in TextType /\ "word" \in TokenType
  BY DEF JoinsWord, TextType, TokenType
<1> HIDE DEF next
<1>5. t \in TextToken /\ Sound(t) /\ t.value = Piece(Start, next)
  BY <1>2, <1>4, PieceSound
<1>6. Typed(x, next) = Typed(x, Start) + Count(x, Piece(Start, next))
  BY <1>2, PieceCounts
<1> HIDE DEF t
<1>7. Kept(x, Append(tokens, t), Typed(x, next))
  BY <1>3, <1>5, <1>6, OneKept
<1> QED
  BY <1>1, <1>3, <1>7

LEMMA QuotedKeepsLetters ==
  ASSUME PosInv, NoVariables, NEW x, Letter(x), Kept(x, tokens, Typed(x, pos)), Quoted
  PROVE  Kept(x, tokens', Typed(x, pos'))
<1> DEFINE i == Start + 1
           type == IF At(i - 1) = "'" THEN "single" ELSE "double"
           value == QuotedText(i)
           next  == PastQuoted(i)
           t == Token(value, type, JoinsQuoted(next))
<1>1. At(i - 1) \in Quotes /\ At(ClosedAt(i)) # End /\ pos' = next /\ tokens' = Append(tokens, t)
  BY DEF Quoted
<1>2. i - 1 = Start
  BY StartIs, LineIs DEF PosInv
<1>3. /\ Start \in 1 .. Len(line) /\ ClosedAt(i) \in i .. Len(line)
      /\ next \in i + 1 .. Len(line) + 1 /\ Len(line) \in Nat
  BY <1>1, <1>2, QuotedEnd, LineIs DEF PosInv
<1>4. Typed(x, Start) = Typed(x, pos) /\ Typed(x, pos) \in Nat
  BY StartTyped
<1>5. JoinsQuoted(next) \in BOOLEAN /\ type \in TextType /\ type \in TokenType
  BY DEF JoinsQuoted, TextType, TokenType
<1>6. At(Start) # x
  BY <1>1, <1>2 DEF Letter
<1> HIDE DEF type
<1>7. ASSUME value \in Text, t \in TextToken, Sound(t), t.value = value,
             Typed(x, next) = Typed(x, Start) + Count(x, value)
      PROVE  Kept(x, tokens', Typed(x, pos'))
  <2> HIDE DEF t, value, next, i
  <2>1. Kept(x, Append(tokens, t), Typed(x, pos) + Count(x, t.value))
    BY <1>4, <1>7, OneKept
  <2> QED
    BY <1>1, <1>4, <1>7, <2>1
<1>8. CASE At(i) = At(i - 1) /\ At(i + 1) \in Blanks
  <2>1. value = << " " >> /\ next = i + 2
    BY <1>8 DEF QuotedText, PastQuoted
  <2>2. /\ t \in TextToken /\ Sound(t) /\ t.value = value
        /\ Count(x, value) = 0
    <3> DEFINE b == At(i + 1)
    <3>1. b \in STRING
      <4>1. b # End
        BY <1>8 DEF Blanks, End
      <4>2. i + 1 \in Int /\ i + 1 >= 1
        BY ONLY <1>3
      <4> QED
        BY <4>1, <4>2, InLine, LineIs DEF PosInv
    <3>2. b # "$" /\ ~Letter(b)
      BY <1>8 DEF Letter, Blanks
    <3>3. value = << b >>
      BY <1>8, <2>1 DEF Blanks
    <3> HIDE DEF value, next, i, b
    <3> QED
      BY <1>5, <3>1, <3>2, <3>3, BlankSound, Zenon
  <2>3. value \in Text
    <3>1. value \in Text
      <4> HIDE DEF value
      <4> QED
        BY <2>2 DEF TextToken
    <3> QED
      BY <3>1
  <2>4. \A k \in Start .. next - 1 : At(k) # x
    <3>1. At(i) # x /\ At(i + 1) # x
      BY <1>1, <1>8 DEF Letter
    <3>2. \A k \in Start .. next - 1 : k = Start \/ k = i \/ k = i + 1
      <4>1. next = i + 2
        BY <2>1
      <4> HIDE DEF next, value
      <4> QED
        BY ONLY <1>3, <4>1
    <3> QED
      BY <1>6, <3>1, <3>2
  <2>5. Typed(x, next) = Typed(x, Start)
    <3>1. Start \in 1 .. Len(line) + 1 /\ next \in Start .. Len(line) + 1
      BY <1>3
    <3> HIDE DEF next
    <3>2. Typed(x, next) = Typed(x, Start) + Count(x, Piece(Start, next)) /\ Count(x, Piece(Start, next)) = 0
      BY <2>4, <3>1, PieceCounts
    <3> QED
      BY <1>4, <3>2
  <2> QED
    BY <1>4, <1>7, <2>2, <2>3, <2>5
<1>9. CASE ~(At(i) = At(i - 1) /\ At(i + 1) \in Blanks)
  <2> DEFINE c == ClosedAt(i)
  <2>1. value = Piece(i, c) /\ next = c + 1
    BY <1>9 DEF QuotedText, PastQuoted, Piece
  <2>2. i \in 1 .. Len(line) + 1 /\ c \in i .. Len(line) + 1 /\ c \in 1 .. Len(line)
        /\ Start \in 1 .. Len(line) + 1 /\ i \in Start .. Len(line) + 1 /\ c \in 1 .. Len(line) + 1
        /\ c + 1 \in c .. Len(line) + 1
    BY <1>3
  <2>3. At(c) # x
    <3>1. At(c) \in {At(i - 1)} \cup {End}
      BY <2>2, StopAtIs DEF ClosedAt, PosInv
    <3>2. At(c) = At(Start)
      BY <1>1, <1>2, <3>1
    <3> QED
      BY <1>6, <3>2
  <2> HIDE DEF c
  <2>4. Typed(x, i) = Typed(x, Start)
    <3>1. \A k \in Start .. i - 1 : k = Start
      BY <2>2
    <3>2. Typed(x, i) = Typed(x, Start) + Count(x, Piece(Start, i)) /\ Count(x, Piece(Start, i)) = 0
      BY <1>6, <2>2, <3>1, PieceCounts
    <3> QED
      BY <1>4, <3>2
  <2> HIDE DEF i
  <2>5. Typed(x, c) = Typed(x, i) + Count(x, Piece(i, c)) /\ Count(x, Piece(i, c)) \in Nat
    BY <2>2, PieceCounts
  <2>6. Typed(x, c + 1) = Typed(x, c)
    <3> DEFINE d == c + 1
    <3>1. \A k \in c .. d - 1 : k = c
      BY <2>2
    <3>2. d \in c .. Len(line) + 1
      BY <2>2
    <3> HIDE DEF d
    <3>3. Typed(x, d) = Typed(x, c) + Count(x, Piece(c, d)) /\ Count(x, Piece(c, d)) = 0
      BY <2>2, <2>3, <3>1, <3>2, PieceCounts
    <3> QED
      BY <1>4, <2>4, <2>5, <3>3 DEF d
  <2>7. t \in TextToken /\ Sound(t) /\ t.value = value /\ value \in Text
    <3>1. Piece(i, c) \in Text
      BY <2>2, PieceIs
    <3> QED
      BY <1>5, <2>1, <2>2, <3>1, PieceSound
  <2> QED
    BY <1>7, <2>1, <2>4, <2>5, <2>6, <2>7
<1> QED
  BY <1>8, <1>9

LEMMA TokenizeKeepsLetters ==
  ASSUME PosInv, KeepInv, Tokenize
  PROVE  KeepInv'
<1>1. phase = "tokenize" /\ line' = line
  BY DEF Tokenize
<1>2. CASE Unclosed
  BY <1>2 DEF Unclosed, KeepInv, Listed
<1>3. CASE Operator \/ Word \/ Quoted
  <2>1. phase' = "tokenize"
    BY <1>1, <1>3 DEF Operator, Word, Quoted
  <2>2. ASSUME NoVariables, NEW x, Letter(x)
        PROVE  Kept(x, tokens', Typed(x, pos'))
    <3>1. Kept(x, tokens, Typed(x, pos))
      BY <1>1, <2>2 DEF KeepInv
    <3> QED
      BY <1>3, <2>2, <3>1, OperatorKeepsLetters, WordKeepsLetters, QuotedKeepsLetters
  <2> QED
    BY <1>1, <2>1, <2>2, TypedFixed DEF KeepInv, Listed
<1> QED
  BY <1>2, <1>3 DEF Tokenize

\* Nothing is expanded in a text without a $.
LEMMA ExpandedSame ==
  ASSUME NEW v \in Text, NoDollar(v)
  PROVE  Expanded(v) = v
<1> DEFINE n == Len(v)
<1>1. n \in Nat /\ DOMAIN v = 1 .. n /\ v \in Seq(STRING)
  BY TextIs DEF Text
<1>2. \A i \in 1 .. n : v[i] # "$"
  BY <1>1 DEF NoDollar
<1>3. ~Endless(v)
  BY <1>1, <1>2 DEF Endless
<1>4. PICK f : Expanded(v) = f[1] /\ \A i \in 1 .. n + 1 : f[i] = From(v, f, i)
  BY <1>3, ExpandedFrom
<1> HIDE DEF n
<1> DEFINE T == {k \in 0 .. n : f[n + 1 - k] = SubSeq(v, n + 1 - k, n)}
<1>5. 0 \in T
  <2> DEFINE m == n + 1
  <2>1. m \in Int /\ n \in Int /\ n < m /\ m > n /\ n + 1 - 0 = m /\ m \in 1 .. n + 1 /\ 0 \in 0 .. n
    BY <1>1
  <2> HIDE DEF m
  <2>2. SubSeq(v, m, n) = <<>>
    BY <2>1, SubSeqEmpty
  <2>3. f[m] = <<>>
    BY <1>4, <2>1 DEF From, n
  <2> QED
    BY <2>1, <2>2, <2>3
<1>6. ASSUME NEW k \in 0 .. n - 1, k \in T PROVE k + 1 \in T
  <2> DEFINE m == n + 1 - (k + 1)
  <2>1. m \in 1 .. n /\ n \in m .. n /\ m \in 1 .. n + 1 /\ n + 1 - k = m + 1 /\ k + 1 \in 0 .. n
        /\ ~(m > n)
    BY <1>1
  <2> HIDE DEF m
  <2>2. f[m + 1] = SubSeq(v, m + 1, n)
    BY <1>6, <2>1
  <2>3. f[m] = << v[m] >> \o f[m + 1]
    BY <1>2, <1>4, <2>1 DEF From, n
  <2>4. SubSeq(v, m, n) = << v[m] >> \o SubSeq(v, m + 1, n)
    <3>1. m \in 1 .. Len(v) /\ n \in m .. Len(v)
      BY <2>1 DEF n
    <3> QED
      BY <1>1, <3>1, SubSeqRecursiveFirst
  <2>5. f[m] = SubSeq(v, m, n)
    BY <2>2, <2>3, <2>4
  <2> QED
    BY <2>1, <2>5 DEF m
<1> HIDE DEF T
<1>7. n \in T
  <2>1. \A k \in 0 .. n : k \in T
    BY <1>1, <1>5, <1>6, UpTo
  <2> QED
    BY <1>1, <2>1
<1>8. f[1] = SubSeq(v, 1, n)
  <2>1. n + 1 - n = 1
    BY <1>1
  <2> QED
    BY <1>7, <2>1 DEF T
<1>9. SubSeq(v, 1, n) = v
  BY <1>1, SubSeqFull DEF n
<1> QED
  BY <1>4, <1>8, <1>9

\* The whole line is typed once the lexer is past it.
LEMMA AllTyped ==
  ASSUME PosInv, NEW x
  PROVE  Typed(x, Len(line) + 1) = Count(x, line)
<1> DEFINE n == Len(line)  k == n + 1
<1>1. n \in Nat /\ line \in Seq(STRING)
  BY LineIs, LineIsText DEF PosInv, Text
<1>2. k - 1 = n
  BY <1>1
<1>3. SubSeq(line, 1, n) = line
  BY <1>1, SubSeqFull
<1> HIDE DEF k, n
<1>4. Piece(1, k) = SubSeq(line, 1, n)
  BY <1>2, Zenon DEF Piece
<1> QED
  BY <1>3, <1>4, Zenon DEF Typed, k, n

\* A token of a list that keeps the letters.
LEMMA KeptToken ==
  ASSUME NEW x, NEW n, Kept(x, tokens, n), NEW i \in 1 .. Len(tokens)
  PROVE  /\ tokens \in Seq(TextToken) /\ tokens[i] \in TextToken /\ Sound(tokens[i])
         /\ tokens[i].value \in Text /\ NoDollar(tokens[i].value)
<1>1. tokens \in Seq(TextToken) /\ Sound(tokens[i])
  BY DEF Kept
<1>2. tokens[i] \in TextToken
  BY <1>1, ElementOfSeq
<1> QED
  BY <1>1, <1>2 DEF TextToken, Sound

\* The expander changes nothing, and drops nothing.
LEMMA ExpandKeepsLetters ==
  ASSUME TokensInv, PosInv, KeepInv, Tokenized \/ DropDollar \/ ExpandToken \/ ExpansionDone
  PROVE  KeepInv'
<1>1. line' = line
  BY DEF Tokenized, DropDollar, ExpandToken, ExpansionDone
<1>2. SUFFICES ASSUME NoVariables, NEW x, Letter(x)
               PROVE  /\ phase' # "tokenize"
                      /\ phase' \in Listed => Kept(x, tokens', Count(x, line))
  BY <1>1, TypedFixed DEF KeepInv
<1>3. CASE Tokenized
  <2>1. phase = "tokenize" /\ phase' \in {"blank", "expand"} /\ tokens' = tokens /\ pos > Len(line)
    BY <1>3 DEF Tokenized
  <2>2. Kept(x, tokens, Typed(x, pos))
    BY <1>2, <2>1 DEF KeepInv
  <2>3. pos = Len(line) + 1
    BY <2>1, LineIs DEF PosInv
  <2> QED
    BY <2>1, <2>2, <2>3, AllTyped
<1>4. CASE DropDollar \/ ExpandToken
  <2>1. phase = "expand" /\ cur <= Len(tokens)
    BY <1>4 DEF DropDollar, ExpandToken, AtToken
  <2>2. Kept(x, tokens, Count(x, line))
    BY <1>2, <2>1 DEF KeepInv, Listed
  <2>3. cur \in 1 .. Len(tokens)
    <3>1. tokens \in Seq(TextToken)
      BY <2>2 DEF Kept
    <3>2. Len(tokens) \in Nat /\ cur \in Nat \ {0}
      BY <3>1, LenProperties DEF TokensInv
    <3> QED
      BY <2>1, <3>2
  <2> DEFINE v == tokens[cur].value
  <2>4. /\ tokens \in Seq(TextToken) /\ v \in Text /\ NoDollar(v)
        /\ tokens[cur] \in TextToken /\ Sound(tokens[cur])
    BY <2>2, <2>3, KeptToken
  <2>5. v # Dollar
    <3>1. v = Dollar => Len(v) = 1 /\ v[1] = "$"
      BY DEF Dollar
    <3>2. DOMAIN v = 1 .. Len(v)
      BY <2>4, TextIs
    <3> HIDE DEF v
    <3>3. 1 \in 1 .. 1
      OBVIOUS
    <3> QED
      BY <2>4, <3>1, <3>2, <3>3 DEF NoDollar
  <2>6. ~DropDollar /\ ExpandToken
    BY <1>4, <2>5 DEF DropDollar, DropsDollar
  <2>7. /\ phase' = "expand"
        /\ tokens' = tokens \/ tokens' = [tokens EXCEPT ![cur].value = v]
    BY <2>1, <2>4, <2>6, ExpandedSame DEF ExpandToken
  <2>8. [tokens EXCEPT ![cur].value = v] = tokens
    <3> DEFINE e == [tokens[cur] EXCEPT !.value = v]
    <3>1. e = tokens[cur]
      BY <2>4 DEF TextToken
    <3>2. [tokens EXCEPT ![cur].value = v] = [tokens EXCEPT ![cur] = e]
      OBVIOUS
    <3> HIDE DEF e
    <3>3. [tokens EXCEPT ![cur] = tokens[cur]] = tokens
      BY <2>4
    <3> QED
      BY <3>1, <3>2, <3>3
  <2> QED
    BY <2>2, <2>7, <2>8
<1>5. CASE ExpansionDone
  <2>1. phase = "expand" /\ phase' \in {"undefined", "merge"} /\ tokens' = tokens
    BY <1>5 DEF ExpansionDone
  <2> QED
    BY <1>2, <2>1 DEF KeepInv, Listed
<1> QED
  BY <1>3, <1>4, <1>5

\* Two texts without a $ make another.
LEMMA NoDollarJoined ==
  ASSUME NEW v \in Text, NEW w \in Text, NoDollar(v), NoDollar(w)
  PROVE  v \o w \in Text /\ NoDollar(v \o w)
<1> DEFINE u == v \o w
<1>1. /\ u \in Text /\ Len(u) = Len(v) + Len(w)
      /\ \A i \in 1 .. Len(v) + Len(w) : u[i] = IF i <= Len(v) THEN v[i] ELSE w[i - Len(v)]
  BY ConcatProperties DEF Text
<1>2. /\ Len(v) \in Nat /\ Len(w) \in Nat /\ DOMAIN u = 1 .. Len(u)
      /\ DOMAIN v = 1 .. Len(v) /\ DOMAIN w = 1 .. Len(w)
  BY <1>1, TextIs
<1> HIDE DEF u
<1>3. ASSUME NEW i \in DOMAIN u PROVE u[i] # "$"
  <2>1. i \in 1 .. Len(v) + Len(w)
    BY <1>1, <1>2
  <2>2. CASE i <= Len(v)
    <3>1. u[i] = v[i] /\ i \in DOMAIN v
      BY <1>1, <1>2, <2>1, <2>2
    <3> QED
      BY <3>1 DEF NoDollar
  <2>3. CASE ~(i <= Len(v))
    <3>1. u[i] = w[i - Len(v)] /\ i - Len(v) \in DOMAIN w
      BY <1>1, <1>2, <2>1, <2>3
    <3> QED
      BY <3>1 DEF NoDollar
  <2> QED
    BY <2>2, <2>3
<1> QED
  BY <1>1, <1>3 DEF NoDollar, u

LEMMA MergeKeepsLetters ==
  ASSUME TokensInv, TextInv, KeepInv, MergeToken \/ CheckFormatCommand
  PROVE  KeepInv'
<1>1. line' = line /\ phase = "merge" /\ phase' \in {"merge", "validate"}
  BY DEF MergeToken, CheckFormatCommand
<1>2. SUFFICES ASSUME NoVariables, NEW x, Letter(x)
               PROVE  Kept(x, tokens', Count(x, line))
  BY <1>1, TypedFixed DEF KeepInv
<1> DEFINE n == Count(x, line)
<1>3. Kept(x, tokens, n)
  BY <1>1, <1>2 DEF KeepInv, Listed
<1> HIDE DEF n
<1>4. tokens \in Seq(TextToken) /\ Len(tokens) \in Nat /\ cur \in Nat \ {0}
  BY <1>3, LenProperties DEF TokensInv, Kept
<1>5. CASE MergeToken /\ Merges(tokens[cur])
  <2> DEFINE m == Merged(tokens[cur], tokens[cur + 1])
             v == tokens[cur].value  w == tokens[cur + 1].value
  <2>1. cur < Len(tokens) /\ tokens' = Joined(tokens, cur, m)
    BY <1>5 DEF MergeToken, Joined
  <2>2. cur \in 1 .. Len(tokens) - 1 /\ cur \in 1 .. Len(tokens) /\ cur + 1 \in 1 .. Len(tokens)
    BY <1>4, <2>1
  <2>3. /\ tokens[cur] \in TextToken /\ tokens[cur + 1] \in TextToken
        /\ Sound(tokens[cur]) /\ v \in Text /\ w \in Text /\ NoDollar(v) /\ NoDollar(w)
    BY <1>3, <2>2, KeptToken
  <2> DEFINE u == v \o w
  <2>4. u \in Text /\ NoDollar(u)
    BY <2>3, NoDollarJoined
  <2>5. m = [tokens[cur] EXCEPT !.value = u, !.consecutive = tokens[cur + 1].consecutive]
    BY DEF Merged
  <2> HIDE DEF u, m
  <2>6. m \in TextToken /\ m.value = u /\ m.type = tokens[cur].type
    BY <2>3, <2>4, <2>5 DEF TextToken
  <2>7. tokens[cur].type \in TextType \cup {"command"}
    BY <1>5, <2>3 DEF Merges, Sound
  <2>8. Sound(m)
    BY <2>4, <2>6, <2>7 DEF Sound
  <2> DEFINE r == Joined(tokens, cur, m)
  <2>9. /\ r \in Seq(TextToken) /\ Len(r) = Len(tokens) - 1
        /\ \A i \in 1 .. Len(tokens) - 1 :
             /\ i < cur => r[i] = tokens[i]
             /\ i = cur => r[i] = m
             /\ i > cur => r[i] = tokens[i + 1]
    <3>1. m \in TextToken /\ tokens \in Seq(TextToken) /\ cur \in 1 .. Len(tokens) - 1
      BY <1>4, <2>2, <2>6
    <3> QED
      BY ONLY <3>1, MergedIs
  <2> HIDE DEF r
  <2>10. r[cur] = m
    BY <2>2, <2>9
  <2>11. r[cur].value = v \o w /\ Sound(r[cur])
    BY <2>6, <2>8, <2>10 DEF u
  <2>12. \A i \in 1 .. Len(tokens) - 1 : /\ i < cur => r[i] = tokens[i]
                                         /\ i > cur => r[i] = tokens[i + 1]
    BY <2>9
  <2>13. Kept(x, r, n)
    BY <1>3, <2>2, <2>9, <2>11, <2>12, JoinedKept
  <2> QED
    BY <2>1, <2>13 DEF r, n
<1>6. CASE MergeToken /\ ~Merges(tokens[cur])
  BY <1>3, <1>6 DEF MergeToken, n
<1>7. CASE CheckFormatCommand
  <2> DEFINE r == [i \in DOMAIN tokens |-> Classified(tokens[i])]
  <2>1. tokens \in Seq(RawOf(Text)) /\ tokens' = r
    BY <1>1, <1>7 DEF TextInv, RawPhases, CheckFormatCommand
  <2>2. r \in Seq(ReadyOf(Text)) /\ Len(r) = Len(tokens)
    BY <2>1, RawClassified
  <2>3. r \in Seq(TextToken)
    <3>1. ReadyOf(Text) \subseteq TextToken
      BY DEF ReadyOf, TextToken
    <3> QED
      BY <2>2, <3>1, SeqMonotonic
  <2>4. ASSUME NEW i \in 1 .. Len(tokens)
        PROVE  r[i].value = tokens[i].value /\ Sound(r[i])
    <3>1. r[i] = Classified(tokens[i])
      BY <1>4, LenProperties
    <3>2. tokens[i] \in TextToken /\ Sound(tokens[i]) /\ NoDollar(tokens[i].value)
      BY <1>3, KeptToken
    <3> HIDE DEF r
    <3>3. CASE Classified(tokens[i]) = tokens[i]
      BY <3>1, <3>2, <3>3
    <3>4. CASE Classified(tokens[i]) = [tokens[i] EXCEPT !.type = "command"]
      <4>1. r[i].value = tokens[i].value /\ r[i].type = "command"
        BY <3>1, <3>2, <3>4 DEF TextToken
      <4> QED
        BY <3>2, <4>1 DEF Sound
    <3> QED
      BY <3>3, <3>4 DEF Classified
  <2> HIDE DEF r
  <2>5. Kept(x, r, n)
    BY <1>3, <2>2, <2>3, <2>4, SameKept
  <2> QED
    BY <2>1, <2>5 DEF n
<1> QED
  BY <1>5, <1>6, <1>7

LEMMA LettersAreKept ==
  ASSUME TokensInv, PosInv, TextInv, KeepInv, [Next]_vars
  PROVE  KeepInv'
<1>1. CASE UNCHANGED vars
  BY <1>1, TypedFixed DEF KeepInv, vars, Typed, Piece
<1>2. CASE ValidateTokens \/ ParseWord \/ ParseRedirect \/ ParseHeredoc \/ ParsePipe
           \/ ParseAnd \/ Parsed
  <2>1. /\ phase \in {"validate", "parse"} /\ tokens' = tokens /\ line' = line
        /\ phase' \in {"parse", "parsed", "refused"}
    BY <1>2 DEF ValidateTokens, ParseWord, ParseRedirect, ParseHeredoc, ParsePipe, ParseAnd,
       Parsed, ParseMoves, AtToken
  <2>2. phase \in Listed
    BY <2>1 DEF Listed
  <2> QED
    BY <2>1, <2>2, TypedFixed DEF KeepInv, Listed
<1> QED
  BY <1>1, <1>2, TokenizeKeepsLetters, ExpandKeepsLetters, MergeKeepsLetters DEF Next

-----------------------------------------------------------------------------
(* The letters in the commands *)

\* The texts of one part of the command at i.
Part(cs, i, part) == Texts(cs[i])[part]

LEMMA PartsAre ==
  ASSUME NEW cs, NEW i
  PROVE  /\ Parts = {"args", "files", "delimiter"}
         /\ Part(cs, i, "args") = cs[i].args
         /\ Part(cs, i, "files") = [j \in DOMAIN cs[i].redirects |-> cs[i].redirects[j].file]
         /\ Part(cs, i, "delimiter") = cs[i].delimiter
BY DEF Part, Texts, Parts

LEMMA PartIs ==
  ASSUME NEW V, NEW cs \in Seq(CommandOf(V)), NEW i \in 1 .. Len(cs), NEW part \in Parts
  PROVE  Part(cs, i, part) \in Seq(V)
<1> DEFINE R == [file : V, type : FileType]  r == cs[i].redirects
           fs == [j \in DOMAIN r |-> r[j].file]
<1>1. cs[i] \in CommandOf(V)
  BY ElementOfSeq
<1>2. cs[i].args \in Seq(V) /\ cs[i].delimiter \in Seq(V) /\ r \in Seq(R)
  BY <1>1 DEF CommandOf
<1> HIDE DEF r
<1>3. fs \in Seq(V)
  <2>1. Len(r) \in Nat /\ DOMAIN r = 1 .. Len(r) /\ \A j \in 1 .. Len(r) : r[j] \in R
    BY <1>2, LenProperties, ElementOfSeq
  <2>2. \A j \in 1 .. Len(r) : r[j].file \in V
    BY <2>1
  <2>3. fs \in [1 .. Len(r) -> V]
    BY <2>1, <2>2
  <2> HIDE DEF fs
  <2> QED
    BY <2>1, <2>3, SeqDef
<1> QED
  BY <1>2, <1>3, PartsAre DEF r

\* What the places of a character in the commands are.
Place(i, part, j, k) == << <<i, part>>, <<j, k>> >>

LEMMA HeldIs ==
  ASSUME NEW x, NEW cs, NEW z
  PROVE  z \in Held(x, cs) <=>
           \E i \in DOMAIN cs : \E part \in Parts : \E j \in DOMAIN Part(cs, i, part) :
             \E k \in Marks(x, Part(cs, i, part)[j]) : z = Place(i, part, j, k)
<1>1. ASSUME z \in Held(x, cs)
      PROVE  \E i \in DOMAIN cs : \E part \in Parts : \E j \in DOMAIN Part(cs, i, part) :
               \E k \in Marks(x, Part(cs, i, part)[j]) : z = Place(i, part, j, k)
  <2>1. PICK i \in DOMAIN cs, part \in Parts :
          z \in {<<i, part>>} \X Places(x, Part(cs, i, part))
    BY <1>1 DEF Held, Part
  <2>2. PICK p \in Places(x, Part(cs, i, part)) : z = << <<i, part>>, p >>
    BY <2>1
  <2>3. PICK j \in DOMAIN Part(cs, i, part) : p \in {j} \X Marks(x, Part(cs, i, part)[j])
    BY <2>2 DEF Places
  <2>4. PICK k \in Marks(x, Part(cs, i, part)[j]) : p = <<j, k>>
    BY <2>3
  <2> QED
    BY <2>2, <2>4 DEF Place
<1>2. ASSUME NEW i \in DOMAIN cs, NEW part \in Parts, NEW j \in DOMAIN Part(cs, i, part),
             NEW k \in Marks(x, Part(cs, i, part)[j]), z = Place(i, part, j, k)
      PROVE  z \in Held(x, cs)
  <2>1. <<j, k>> \in {j} \X Marks(x, Part(cs, i, part)[j])
    OBVIOUS
  <2>2. <<j, k>> \in Places(x, Part(cs, i, part))
    BY <2>1 DEF Places
  <2> DEFINE p == <<j, k>>
  <2> HIDE DEF p
  <2>3. z \in {<<i, part>>} \X Places(x, Part(cs, i, part))
    BY <1>2, <2>2 DEF Place, p
  <2> DEFINE F(n, q) == {<<n, q>>} \X Places(x, Part(cs, n, q))
  <2>4. z \in F(i, part)
    BY <2>3
  <2>5. Held(x, cs) = UNION {F(n, q) : n \in DOMAIN cs, q \in Parts}
    BY DEF Held, Part
  <2> HIDE DEF F
  <2> QED
    BY <1>2, <2>4, <2>5
<1> QED
  BY <1>1, <1>2

\* A text more in one part of one command.
LEMMA HeldGrows ==
  ASSUME NEW V, NEW cs \in Seq(CommandOf(V)), NEW ds \in Seq(CommandOf(V)), Len(ds) = Len(cs),
         NEW l \in 1 .. Len(cs), NEW part \in Parts, NEW v \in V, v \in Text,
         \A i \in 1 .. Len(cs) : \A q \in Parts :
           i # l \/ q # part => Part(ds, i, q) = Part(cs, i, q),
         Part(ds, l, part) = Append(Part(cs, l, part), v),
         NEW x, IsFiniteSet(Held(x, cs))
  PROVE  /\ IsFiniteSet(Held(x, ds))
         /\ Cardinality(Held(x, ds)) = Cardinality(Held(x, cs)) + Count(x, v)
<1> DEFINE a == Part(cs, l, part)  b == Part(ds, l, part)  m == Len(a) + 1  M == Marks(x, v)
           New == {<<l, part>>} \X ({m} \X M)
<1>1. DOMAIN cs = 1 .. Len(cs) /\ DOMAIN ds = 1 .. Len(cs) /\ l \in DOMAIN cs
  BY LenProperties
<1>2. a \in Seq(V) /\ Len(a) \in Nat /\ DOMAIN a = 1 .. Len(a) /\ m = Len(a) + 1
  BY PartIs, LenProperties
<1>3. /\ b = Append(a, v)
      /\ DOMAIN b = 1 .. m /\ b[m] = v /\ \A j \in 1 .. Len(a) : b[j] = a[j]
  <2>1. Append(a, v) \in Seq(V) /\ Len(Append(a, v)) = Len(a) + 1
        /\ (\A j \in 1 .. Len(a) : Append(a, v)[j] = a[j]) /\ Append(a, v)[Len(a) + 1] = v
    BY <1>2, AppendProperties
  <2>2. DOMAIN Append(a, v) = 1 .. Len(a) + 1
    BY <2>1, LenProperties
  <2> QED
    BY <2>1, <2>2
<1> HIDE DEF a, b, m
<1>4. m \in 1 .. m /\ m \notin 1 .. Len(a) /\ \A j \in 1 .. m : j = m \/ j \in 1 .. Len(a)
  BY <1>2
<1>5. \A j \in 1 .. Len(a) : j \in 1 .. m
  BY <1>2
<1>6. ASSUME NEW z \in New PROVE \E k \in M : z = Place(l, part, m, k)
  BY <1>6 DEF Place
<1>7. ASSUME NEW k \in M PROVE Place(l, part, m, k) \in New
  BY <1>7 DEF Place
<1> HIDE DEF New, M
<1>8. ASSUME NEW z \in Held(x, ds) PROVE z \in Held(x, cs) \cup New
  <2>1. PICK i \in DOMAIN ds, q \in Parts : \E j \in DOMAIN Part(ds, i, q) :
             \E k \in Marks(x, Part(ds, i, q)[j]) : z = Place(i, q, j, k)
    BY <1>8, HeldIs
  <2>2. PICK j \in DOMAIN Part(ds, i, q) :
             \E k \in Marks(x, Part(ds, i, q)[j]) : z = Place(i, q, j, k)
    BY <2>1
  <2>3. PICK k \in Marks(x, Part(ds, i, q)[j]) : z = Place(i, q, j, k)
    BY <2>2
  <2>4. CASE i # l \/ q # part
    <3>1. Part(ds, i, q) = Part(cs, i, q) /\ i \in DOMAIN cs
      BY <1>1, <2>4
    <3> QED
      BY <2>2, <2>3, <3>1, HeldIs
  <2>5. CASE i = l /\ q = part
    <3>1. j \in 1 .. m /\ k \in Marks(x, b[j])
      BY <1>3, <2>2, <2>3, <2>5 DEF b
    <3>2. CASE j = m
      BY <1>3, <1>7, <2>3, <2>5, <3>1, <3>2 DEF M
    <3>3. CASE j \in 1 .. Len(a)
      <4>1. j \in DOMAIN Part(cs, i, q) /\ k \in Marks(x, Part(cs, i, q)[j]) /\ i \in DOMAIN cs
        BY <1>1, <1>2, <1>3, <2>5, <3>1, <3>3 DEF a
      <4> QED
        BY <2>3, <4>1, HeldIs
    <3> QED
      BY <1>4, <3>1, <3>2, <3>3
  <2> QED
    BY <2>4, <2>5
<1>9. ASSUME NEW z \in Held(x, cs) PROVE z \in Held(x, ds) /\ z \notin New
  <2>1. PICK i \in DOMAIN cs, q \in Parts : \E j \in DOMAIN Part(cs, i, q) :
             \E k \in Marks(x, Part(cs, i, q)[j]) : z = Place(i, q, j, k)
    BY <1>9, HeldIs
  <2>2. PICK j \in DOMAIN Part(cs, i, q) :
             \E k \in Marks(x, Part(cs, i, q)[j]) : z = Place(i, q, j, k)
    BY <2>1
  <2>3. PICK k \in Marks(x, Part(cs, i, q)[j]) : z = Place(i, q, j, k)
    BY <2>2
  <2>4. CASE i # l \/ q # part
    <3>1. Part(ds, i, q) = Part(cs, i, q) /\ i \in DOMAIN ds
      BY <1>1, <2>4
    <3>2. z \in Held(x, ds)
      BY <2>2, <2>3, <3>1, HeldIs
    <3>3. z \notin New
      <4> SUFFICES ASSUME z \in New PROVE FALSE
        OBVIOUS
      <4>1. PICK kk \in M : z = Place(l, part, m, kk)
        BY <1>6
      <4> QED
        BY <2>3, <2>4, <4>1 DEF Place
    <3> QED
      BY <3>2, <3>3
  <2>5. CASE i = l /\ q = part
    <3>1. j \in 1 .. Len(a) /\ k \in Marks(x, a[j])
      BY <1>2, <2>2, <2>3, <2>5 DEF a
    <3>2. j \in DOMAIN b /\ k \in Marks(x, b[j])
      BY <1>3, <1>5, <3>1
    <3>3. z \in Held(x, ds)
      <4>1. j \in DOMAIN Part(ds, i, q) /\ k \in Marks(x, Part(ds, i, q)[j]) /\ i \in DOMAIN ds
        BY <1>1, <2>5, <3>2 DEF b
      <4> QED
        BY <2>3, <4>1, HeldIs
    <3>4. z \notin New
      <4> SUFFICES ASSUME z \in New PROVE FALSE
        OBVIOUS
      <4>1. PICK kk \in M : z = Place(l, part, m, kk)
        BY <1>6
      <4>2. j = m
        BY <2>3, <4>1 DEF Place
      <4> QED
        BY <1>4, <3>1, <4>2
    <3> QED
      BY <3>3, <3>4
  <2> QED
    BY <2>4, <2>5
<1>10. ASSUME NEW z \in New PROVE z \in Held(x, ds)
  <2>1. PICK k \in M : z = Place(l, part, m, k)
    BY <1>6, <1>10
  <2>2. m \in DOMAIN Part(ds, l, part) /\ k \in Marks(x, Part(ds, l, part)[m]) /\ l \in DOMAIN ds
    BY <1>1, <1>3, <1>4, <2>1 DEF b, M
  <2> QED
    BY <2>1, <2>2, HeldIs
<1>11. Held(x, ds) = Held(x, cs) \cup New /\ Held(x, cs) \cap New = {}
  BY <1>8, <1>9, <1>10
<1>12. IsFiniteSet(New) /\ Cardinality(New) = Count(x, v)
  <2> DEFINE P == {m} \X M
  <2>1. IsFiniteSet(M) /\ Cardinality(M) = Count(x, v) /\ Count(x, v) \in Nat
    BY CountIs DEF M, Count
  <2>2. IsFiniteSet({m}) /\ Cardinality({m}) = 1
    BY FS_Singleton
  <2>3. IsFiniteSet(P) /\ Cardinality(P) = 1 * Cardinality(M)
    BY <2>1, <2>2, FS_Product
  <2> HIDE DEF P
  <2> DEFINE o == <<l, part>>
  <2> HIDE DEF o
  <2>4. IsFiniteSet({o}) /\ Cardinality({o}) = 1
    BY FS_Singleton
  <2>5. IsFiniteSet({o} \X P) /\ Cardinality({o} \X P) = 1 * Cardinality(P)
    BY <2>3, <2>4, FS_Product
  <2>6. Cardinality({o} \X P) = Count(x, v)
    BY <2>1, <2>3, <2>5
  <2> QED
    BY <2>5, <2>6 DEF New, P, o
<1>13. /\ IsFiniteSet(Held(x, cs) \cup New)
       /\ Cardinality(Held(x, cs) \cup New)
            = Cardinality(Held(x, cs)) + Cardinality(New) - Cardinality(Held(x, cs) \cap New)
  BY <1>12, FS_Union
<1>14. Cardinality(Held(x, cs) \cap New) = 0
  BY <1>11, FS_EmptySet
<1>15. Cardinality(Held(x, cs)) \in Nat /\ Count(x, v) \in Nat
  BY CountIs, FS_CardinalityType
<1> QED
  BY <1>11, <1>12, <1>13, <1>14, <1>15

\* A new command holds nothing.
LEMMA NewHolds ==
  ASSUME NEW cs, NEW ds, NEW n \in Nat, DOMAIN cs = 1 .. n, DOMAIN ds = 1 .. n + 1,
         \A i \in 1 .. n : ds[i] = cs[i], ds[n + 1] = NewCommand, NEW x
  PROVE  Held(x, ds) = Held(x, cs)
<1>1. \A i \in 1 .. n : i \in 1 .. n + 1 /\ i # n + 1
  OBVIOUS
<1>2. \A i \in 1 .. n + 1 : i = n + 1 \/ i \in 1 .. n
  OBVIOUS
<1>3. ASSUME NEW part \in Parts PROVE DOMAIN Part(ds, n + 1, part) = {}
  <2>1. /\ ds[n + 1].args = <<>> /\ ds[n + 1].redirects = <<>> /\ ds[n + 1].delimiter = <<>>
    BY DEF NewCommand
  <2>2. DOMAIN <<>> = {}
    OBVIOUS
  <2> QED
    BY <2>1, <2>2, PartsAre
<1>4. \A i \in 1 .. n, part \in Parts : Part(ds, i, part) = Part(cs, i, part)
  BY DEF Part
<1>5. ASSUME NEW z \in Held(x, ds) PROVE z \in Held(x, cs)
  <2> DEFINE P(i, q) == \E j \in DOMAIN Part(ds, i, q) :
                          \E k \in Marks(x, Part(ds, i, q)[j]) : z = Place(i, q, j, k)
  <2>4. \E i \in DOMAIN ds : \E q \in Parts : P(i, q)
    BY ONLY <1>5, HeldIs
  <2> HIDE DEF P
  <2>5. PICK i \in DOMAIN ds, q \in Parts : P(i, q)
    BY <2>4
  <2>1. \E j \in DOMAIN Part(ds, i, q) :
          \E k \in Marks(x, Part(ds, i, q)[j]) : z = Place(i, q, j, k)
    BY <2>5 DEF P
  <2>2. i \in DOMAIN cs
    BY <1>2, <1>3, <2>1
  <2>3. Part(ds, i, q) = Part(cs, i, q)
    BY <1>4, <2>2
  <2> QED
    BY <2>1, <2>2, <2>3, HeldIs, Zenon
<1>6. ASSUME NEW z \in Held(x, cs) PROVE z \in Held(x, ds)
  <2> DEFINE P(i, q) == \E j \in DOMAIN Part(cs, i, q) :
                          \E k \in Marks(x, Part(cs, i, q)[j]) : z = Place(i, q, j, k)
  <2>4. \E i \in DOMAIN cs : \E q \in Parts : P(i, q)
    BY ONLY <1>6, HeldIs
  <2> HIDE DEF P
  <2>5. PICK i \in DOMAIN cs, q \in Parts : P(i, q)
    BY <2>4
  <2>1. \E j \in DOMAIN Part(cs, i, q) :
          \E k \in Marks(x, Part(cs, i, q)[j]) : z = Place(i, q, j, k)
    BY <2>5 DEF P
  <2>2. i \in DOMAIN ds
    BY <1>1, <2>1
  <2>3. Part(ds, i, q) = Part(cs, i, q)
    BY <1>4, <2>1
  <2> QED
    BY <2>1, <2>2, <2>3, HeldIs, Zenon
<1> QED
  BY <1>5, <1>6

OneHeredoc == Cardinality(Unquoted({"<"})) < 4

\* No delimiter is set before the one << of a line is parsed.
NoDelimiter ==
  (\A i \in 1 .. Len(tokens) : i < cur => tokens[i].type # "heredoc") =>
    \A i \in 1 .. Len(commands) : commands[i].delimiter = <<>>

\* The commands hold a letter as often as the tokens that are parsed.
HeldAsParsed(x) ==
  /\ IsFiniteSet(Held(x, commands))
  /\ \A f : Running(x, tokens, f) => Cardinality(Held(x, commands)) = f[cur - 1]

HeldInv ==
  phase \in {"parse", "parsed"} /\ NoVariables /\ OneHeredoc =>
    NoDelimiter /\ \A x : Letter(x) => HeldAsParsed(x)

LEMMA RunningIs ==
  ASSUME NEW x, NEW ts, NEW f, Running(x, ts, f), NEW i \in 1 .. Len(ts), Len(ts) \in Nat
  PROVE  f[i - 1] \in Nat /\ f[i] = f[i - 1] + Count(x, ts[i].value)
<1>1. i - 1 \in 0 .. Len(ts)
  OBVIOUS
<1> QED
  BY <1>1 DEF Running

\* An operator holds no letter.
LEMMA NoneInOperator ==
  ASSUME NEW x, Letter(x), NEW n, Kept(x, tokens, n), NEW i \in 1 .. Len(tokens),
         tokens[i].type \notin TextType \cup {"command"}
  PROVE  Count(x, tokens[i].value) = 0
<1>1. tokens[i].value \in Text /\ Bare(tokens[i].value)
  BY KeptToken DEF Sound
<1> DEFINE v == tokens[i].value
<1> HIDE DEF v
<1>2. \A j \in 1 .. Len(v) : v[j] # x
  BY <1>1, TextIs DEF Bare, v
<1> QED
  BY <1>1, <1>2, NoneCounted DEF v

\* What is known where a token is parsed.
LEMMA WhileParsing ==
  ASSUME TokensInv, ParseInv, KeepInv, AtToken("parse"), NoVariables, NEW x, Letter(x)
  PROVE  /\ Kept(x, tokens, Count(x, line))
         /\ cur \in 1 .. Len(tokens) /\ Len(tokens) \in Nat
         /\ tokens \in Seq(TextToken) /\ Values \subseteq Text
         /\ commands \in Seq(CommandOf(Values)) /\ Len(commands) \in 1 .. Len(commands)
<1>1. Kept(x, tokens, Count(x, line))
  BY DEF KeepInv, Listed, AtToken
<1>2. cur \in 1 .. Len(tokens) /\ Len(tokens) \in Nat
  BY AtThisToken
<1>3. tokens \in Seq(TextToken)
  BY <1>1 DEF Kept
<1>4. Values \subseteq Text
  BY <1>1, KeptToken DEF Values
<1>5. commands \in Seq(CommandOf(Values)) /\ Len(commands) \in 1 .. Len(commands)
  BY CommandsAre
<1> QED
  BY <1>1, <1>2, <1>3, <1>4, <1>5

LEMMA HeldFixed ==
  ASSUME line' = line, tokens' = tokens
  PROVE  /\ NoVariables' = NoVariables /\ OneHeredoc' = OneHeredoc
         /\ \A x, f : Running(x, tokens, f)' = Running(x, tokens, f')
         /\ \A x : Held(x, commands)' = Held(x, commands')
<1>1. OpenQuote' = OpenQuote
  BY DEF OpenQuote
<1> QED
  BY <1>1 DEF NoVariables, NoDollar, OneHeredoc, Unquoted, Running, Count, Marks, Held, Places,
     Texts, Parts

\* What keeps HeldInv as tokens are parsed.
LEMMA HeldStep ==
  ASSUME TokensInv, ParseInv, KeepInv, HeldInv, AtToken("parse"), NEW n \in {1, 2}, ParseMoves(n),
         cur + n <= Len(tokens) + 1,
         NoVariables /\ OneHeredoc => NoDelimiter',
         \A x : NoVariables /\ OneHeredoc /\ Letter(x) =>
           /\ IsFiniteSet(Held(x, commands'))
           /\ n = 1 => Cardinality(Held(x, commands'))
                         = Cardinality(Held(x, commands)) + Count(x, tokens[cur].value)
           /\ n = 2 => Cardinality(Held(x, commands'))
                         = Cardinality(Held(x, commands)) + Count(x, tokens[cur].value)
                             + Count(x, tokens[cur + 1].value)
  PROVE  HeldInv'
<1>1. phase = "parse" /\ line' = line /\ tokens' = tokens /\ cur' = cur + n
  BY DEF ParseMoves, AtToken
<1>2. ASSUME NoVariables, OneHeredoc, NEW x, Letter(x)
      PROVE  IsFiniteSet(Held(x, commands'))
             /\ \A f : Running(x, tokens, f) => Cardinality(Held(x, commands')) = f[cur' - 1]
  <2>1. cur \in 1 .. Len(tokens) /\ Len(tokens) \in Nat
    BY <1>2, WhileParsing
  <2>2. HeldAsParsed(x)
    BY <1>1, <1>2 DEF HeldInv
  <2> DEFINE h == Cardinality(Held(x, commands))  g == Cardinality(Held(x, commands'))
             c == Count(x, tokens[cur].value)  d == Count(x, tokens[cur + 1].value)
  <2>3. IsFiniteSet(Held(x, commands')) /\ (n = 1 => g = h + c) /\ (n = 2 => g = h + c + d)
    BY <1>2
  <2>4. ASSUME NEW f, Running(x, tokens, f) PROVE g = f[cur' - 1]
    <3>1. h = f[cur - 1]
      BY <2>2, <2>4 DEF HeldAsParsed
    <3>2. f[cur] = f[cur - 1] + c
      BY <2>1, <2>4, RunningIs
    <3>3. CASE n = 1
      <4>1. cur' - 1 = cur
        BY <1>1, <2>1, <3>3
      <4> HIDE DEF g, h, c, d
      <4> QED
        BY <2>3, <3>1, <3>2, <3>3, <4>1
    <3>4. CASE n = 2
      <4> DEFINE i == cur + 1
      <4>1. cur' - 1 = i /\ i \in 1 .. Len(tokens) /\ i - 1 = cur
        BY <1>1, <2>1, <3>4
      <4> HIDE DEF i
      <4>2. f[i] = f[i - 1] + Count(x, tokens[i].value)
        BY <2>1, <2>4, <4>1, RunningIs
      <4>3. f[i] = f[cur] + d
        BY <4>1, <4>2 DEF i
      <4> HIDE DEF g, h, c, d
      <4> QED
        BY <2>3, <3>1, <3>2, <3>4, <4>1, <4>3
    <3> QED
      BY <3>3, <3>4
  <2> QED
    BY <2>3, <2>4
<1>3. ASSUME NoVariables, OneHeredoc, NEW x, Letter(x) PROVE HeldAsParsed(x)'
  BY <1>1, <1>2, <1>3, HeldFixed DEF HeldAsParsed
<1> QED
  BY <1>1, <1>3, HeldFixed DEF HeldInv

\* A step that leaves the commands and is past a token without letters.
LEMMA SkipKeepsHeld ==
  ASSUME TokensInv, ParseInv, KeepInv, HeldInv, AtToken("parse"), ParseMoves(1),
         \A x : Held(x, commands') = Held(x, commands),
         \A i \in 1 .. Len(commands') : \/ i \in 1 .. Len(commands) /\ commands'[i] = commands[i]
                                       \/ commands'[i] = NewCommand,
         \A x : Letter(x) /\ NoVariables => Count(x, tokens[cur].value) = 0
  PROVE  HeldInv'
<1>1. phase = "parse" /\ line' = line /\ tokens' = tokens /\ cur' = cur + 1
      /\ cur \in 1 .. Len(tokens) /\ Len(tokens) \in Nat
  BY AtThisToken DEF ParseMoves, AtToken
<1>2. ASSUME NoVariables, OneHeredoc PROVE NoDelimiter'
  <2> SUFFICES ASSUME \A i \in 1 .. Len(tokens) : i < cur' => tokens[i].type # "heredoc"
               PROVE  \A i \in 1 .. Len(commands') : commands'[i].delimiter = <<>>
    BY <1>1 DEF NoDelimiter
  <2>1. \A i \in 1 .. Len(tokens) : i < cur => tokens[i].type # "heredoc"
    BY <1>1
  <2>2. \A i \in 1 .. Len(commands) : commands[i].delimiter = <<>>
    BY <1>1, <1>2, <2>1 DEF HeldInv, NoDelimiter
  <2> QED
    BY <2>2 DEF NewCommand
<1>3. ASSUME NoVariables, OneHeredoc, NEW x, Letter(x)
      PROVE  /\ IsFiniteSet(Held(x, commands'))
             /\ Cardinality(Held(x, commands'))
                  = Cardinality(Held(x, commands)) + Count(x, tokens[cur].value)
  <2>1. IsFiniteSet(Held(x, commands))
    BY <1>1, <1>3 DEF HeldInv, HeldAsParsed
  <2>2. Cardinality(Held(x, commands)) \in Nat
    BY <2>1, FS_CardinalityType
  <2> QED
    BY <1>3, <2>1, <2>2
<1>4. cur + 1 <= Len(tokens) + 1
  BY <1>1
<1>5. ASSUME NEW x, NoVariables /\ OneHeredoc /\ Letter(x)
      PROVE  /\ IsFiniteSet(Held(x, commands'))
             /\ 1 = 1 => Cardinality(Held(x, commands'))
                         = Cardinality(Held(x, commands)) + Count(x, tokens[cur].value)
             /\ 1 = 2 => Cardinality(Held(x, commands'))
                         = Cardinality(Held(x, commands)) + Count(x, tokens[cur].value)
                             + Count(x, tokens[cur + 1].value)
  BY <1>3, <1>5
<1> QED
  BY <1>2, <1>4, <1>5, HeldStep

\* A step that adds the value of token k to one part of the last command.
LEMMA AddKeepsHeld ==
  ASSUME TokensInv, ParseInv, KeepInv, HeldInv, AtToken("parse"), NEW n \in {1, 2}, ParseMoves(n),
         cur + n <= Len(tokens) + 1,
         NEW c \in CommandOf(Values), WithCommand(c), NEW part \in Parts,
         NoVariables /\ OneHeredoc => NoDelimiter',
         \A q \in Parts : q # part => Texts(c)[q] = Texts(ThisCommand)[q],
         NoVariables /\ OneHeredoc =>
           Texts(c)[part] = Append(Texts(ThisCommand)[part], tokens[cur + n - 1].value),
         n = 2 => ThisToken.type \notin TextType \cup {"command"}
  PROVE  HeldInv'
<1>1. ASSUME NoVariables, OneHeredoc, NEW x, Letter(x)
      PROVE  /\ IsFiniteSet(Held(x, commands'))
             /\ n = 1 => Cardinality(Held(x, commands'))
                         = Cardinality(Held(x, commands)) + Count(x, tokens[cur].value)
             /\ n = 2 => Cardinality(Held(x, commands'))
                         = Cardinality(Held(x, commands)) + Count(x, tokens[cur].value)
                             + Count(x, tokens[cur + 1].value)
  <2> DEFINE k == cur + n - 1  v == tokens[k].value  l == Len(commands)
  <2>1. /\ Kept(x, tokens, Count(x, line))
        /\ cur \in 1 .. Len(tokens) /\ Len(tokens) \in Nat
        /\ tokens \in Seq(TextToken) /\ Values \subseteq Text
        /\ commands \in Seq(CommandOf(Values)) /\ l \in 1 .. l
    BY <1>1, WhileParsing
  <2>2. k \in 1 .. Len(tokens) /\ (n = 1 => k = cur) /\ (n = 2 => k = cur + 1)
    BY <2>1
  <2>3. v \in Values /\ v \in Text
    BY <2>1, <2>2 DEF Values
  <2>4. Texts(c)[part] = Append(Texts(ThisCommand)[part], v)
    BY <1>1
  <2>5. /\ commands' \in Seq(CommandOf(Values)) /\ Len(commands') = l /\ ThisCommand = commands[l]
        /\ \A i \in 1 .. l : commands'[i] = IF i = l THEN c ELSE commands[i]
    <3>1. l >= 1 /\ commands \in Seq(CommandOf(Values))
      BY <2>1
    <3> QED
      BY <3>1, LastReplaced, CommandsAre DEF WithCommand
  <2>6. IsFiniteSet(Held(x, commands))
    BY <1>1 DEF HeldInv, HeldAsParsed, AtToken
  <2>7. \A i \in 1 .. l : \A q \in Parts :
          i # l \/ q # part => Part(commands', i, q) = Part(commands, i, q)
    BY <2>5 DEF Part
  <2>8. Part(commands', l, part) = Append(Part(commands, l, part), v)
    BY <2>1, <2>4, <2>5 DEF Part
  <2> HIDE DEF v, k
  <2> DEFINE ds == commands'
  <2> HIDE DEF ds
  <2>9. /\ IsFiniteSet(Held(x, ds))
        /\ Cardinality(Held(x, ds)) = Cardinality(Held(x, commands)) + Count(x, v)
    <3>1. ds \in Seq(CommandOf(Values)) /\ Len(ds) = Len(commands)
      BY <2>5 DEF ds
    <3>2. \A i \in 1 .. Len(commands) : \A q \in Parts :
            i # l \/ q # part => Part(ds, i, q) = Part(commands, i, q)
      BY <2>7 DEF ds
    <3>3. Part(ds, l, part) = Append(Part(commands, l, part), v)
      BY <2>8 DEF ds
    <3>4. commands \in Seq(CommandOf(Values)) /\ l \in 1 .. Len(commands) /\ part \in Parts
      BY <2>1
    <3> HIDE DEF l
    <3> QED
      BY ONLY <2>3, <2>6, <3>1, <3>2, <3>3, <3>4, HeldGrows
  <2>10. n = 2 => Count(x, tokens[cur].value) = 0
    BY <1>1, <2>1, NoneInOperator DEF ThisToken
  <2>11. Cardinality(Held(x, commands)) \in Nat /\ Count(x, v) \in Nat
    BY <2>3, <2>6, CountIs, FS_CardinalityType
  <2>12. CASE n = 1
    <3>1. v = tokens[cur].value
      BY <2>2, <2>12 DEF v
    <3> QED
      BY <2>9, <2>12, <3>1 DEF ds
  <2>13. CASE n = 2
    <3>1. v = tokens[cur + 1].value
      BY <2>2, <2>13 DEF v
    <3> QED
      BY <2>9, <2>10, <2>11, <2>13, <3>1 DEF ds
  <2> QED
    BY <2>12, <2>13
<1> QED
  BY <1>1, HeldStep

LEMMA DelimiterStays ==
  ASSUME TokensInv, ParseInv, AtToken("parse"), NEW n \in {1, 2}, ParseMoves(n),
         cur + n <= Len(tokens) + 1, NoDelimiter,
         NEW c \in CommandOf(Values), WithCommand(c), c.delimiter = ThisCommand.delimiter
  PROVE  NoDelimiter'
<1>1. tokens' = tokens /\ cur' = cur + n /\ cur \in Nat
  BY DEF ParseMoves, TokensInv
<1>2. /\ Len(commands') = Len(commands) /\ Len(commands) \in Nat /\ ThisCommand = commands[Len(commands)]
      /\ \A i \in 1 .. Len(commands) : commands'[i] = IF i = Len(commands) THEN c ELSE commands[i]
  <2>1. /\ commands \in Seq(CommandOf(Values)) /\ Len(commands) >= 1 /\ Len(commands) \in Nat
        /\ ThisCommand = commands[Len(commands)]
    BY CommandsAre
  <2> QED
    BY <2>1, LastReplaced DEF WithCommand
<1> SUFFICES ASSUME \A i \in 1 .. Len(tokens) : i < cur' => tokens[i].type # "heredoc"
             PROVE  \A i \in 1 .. Len(commands) : commands'[i].delimiter = <<>>
  BY <1>1, <1>2 DEF NoDelimiter
<1>3. \A i \in 1 .. Len(tokens) : i < cur => tokens[i].type # "heredoc"
  BY <1>1
<1>4. \A i \in 1 .. Len(commands) : commands[i].delimiter = <<>>
  BY <1>3 DEF NoDelimiter
<1> QED
  BY <1>2, <1>4

LEMMA WordKeepsHeld ==
  ASSUME TokensInv, ParseInv, KeepInv, HeldInv, ParseWord
  PROVE  HeldInv'
<1>1. AtToken("parse") /\ ThisToken.type \in TextType \cup {"command"} /\ ParseMoves(1)
  BY DEF ParseWord
<1>2. /\ cur \in 1 .. Len(tokens) /\ Len(tokens) \in Nat /\ ThisToken.value \in Values
      /\ ThisToken = tokens[cur] /\ cur + 1 <= Len(tokens) + 1 /\ cur + 1 - 1 = cur
  BY <1>1, AtThisToken DEF ThisToken
<1>3. CASE ThisToken.value = <<>>
  <2>1. commands' = commands
    BY <1>3 DEF ParseWord
  <2>2. Len(commands) \in Nat
    BY <1>1, CommandsAre
  <2>3. ASSUME NEW x, Letter(x) /\ NoVariables PROVE Count(x, tokens[cur].value) = 0
    <3>1. <<>> \in Text /\ Len(<<>>) = 0
      BY Short, EmptySeq
    <3> DEFINE e == <<>>
    <3> HIDE DEF e
    <3>2. \A i \in 1 .. Len(e) : e[i] # x
      BY <3>1 DEF e
    <3>3. Count(x, e) = 0
      BY <3>1, <3>2, NoneCounted DEF e
    <3> QED
      BY <1>2, <1>3, <3>3 DEF e
  <2>4. \A x : Held(x, commands') = Held(x, commands)
    BY <2>1
  <2>5. \A i \in 1 .. Len(commands') : \/ i \in 1 .. Len(commands) /\ commands'[i] = commands[i]
                                       \/ commands'[i] = NewCommand
    BY <2>1
  <2> QED
    BY <1>1, <2>3, <2>4, <2>5, SkipKeepsHeld
<1>4. CASE ThisToken.value # <<>>
  <2> DEFINE v == ThisToken.value
             a == Append(ThisCommand.args, v)
             c == [ThisCommand EXCEPT !.args = a]
  <2>1. WithCommand(c)
    BY <1>4 DEF ParseWord
  <2>2. ThisCommand \in CommandOf(Values) /\ ThisCommand.args \in Seq(Values)
    BY <1>1, CommandsAre DEF CommandOf
  <2>3. a \in Seq(Values)
    BY <1>2, <2>2, AppendProperties
  <2> HIDE DEF a
  <2>4. /\ c \in CommandOf(Values) /\ c.args = a /\ c.redirects = ThisCommand.redirects
        /\ c.delimiter = ThisCommand.delimiter
    BY <2>2, <2>3 DEF CommandOf
  <2> HIDE DEF c
  <2>5. /\ \A q \in Parts : q # "args" => Texts(c)[q] = Texts(ThisCommand)[q]
        /\ Texts(c)["args"] = Append(Texts(ThisCommand)["args"], v) /\ "args" \in Parts
    BY <2>4 DEF Texts, Parts, a
  <2>6. NoVariables /\ OneHeredoc => NoDelimiter'
    BY <1>1, <1>2, <2>1, <2>4, DelimiterStays DEF HeldInv, AtToken
  <2>7. Texts(c)["args"] = Append(Texts(ThisCommand)["args"], tokens[cur + 1 - 1].value)
    BY <1>2, <2>5
  <2> QED
    BY <1>1, <1>2, <2>1, <2>4, <2>5, <2>6, <2>7, AddKeepsHeld
<1> QED
  BY <1>3, <1>4

\* The files of one redirection more.
Files(r) == [j \in DOMAIN r |-> r[j].file]

LEMMA FileAppended ==
  ASSUME NEW V, NEW r \in Seq([file : V, type : FileType]), NEW e \in [file : V, type : FileType]
  PROVE  Files(Append(r, e)) = Append(Files(r), e.file)
<1> DEFINE R == [file : V, type : FileType]  s == Append(r, e)  f == Files(r)  g == Files(s)
           h == Append(f, e.file)  n == Len(r)
<1>1. /\ n \in Nat /\ s \in Seq(R) /\ Len(s) = n + 1
      /\ (\A i \in 1 .. n : s[i] = r[i]) /\ s[n + 1] = e
  BY LenProperties, AppendProperties
<1>2. DOMAIN r = 1 .. n /\ DOMAIN s = 1 .. n + 1 /\ e.file \in V
      /\ \A i \in 1 .. n : r[i].file \in V
  <2>1. \A i \in 1 .. n : r[i] \in R
    BY ElementOfSeq
  <2> QED
    BY <1>1, <2>1, LenProperties
<1> HIDE DEF s, n
<1>3. f \in [1 .. n -> V] /\ \A i \in 1 .. n : f[i] = r[i].file
  BY <1>2 DEF Files
<1>4. DOMAIN g = 1 .. n + 1 /\ g = [j \in 1 .. n + 1 |-> s[j].file]
  BY <1>2 DEF Files
<1>5. f \in Seq(V) /\ Len(f) = n
  <2>1. f \in Seq(V)
    BY <1>1, <1>3, SeqDef
  <2>2. DOMAIN f = 1 .. n
    BY <1>3
  <2> QED
    BY <1>1, <2>1, <2>2, LenProperties
<1> HIDE DEF f, g
<1>6. /\ h \in Seq(V) /\ Len(h) = n + 1
      /\ (\A i \in 1 .. n : h[i] = f[i]) /\ h[n + 1] = e.file
  BY <1>2, <1>5, AppendProperties
<1> HIDE DEF h
<1>7. h \in [1 .. n + 1 -> V]
  BY <1>1, <1>6, LenProperties, ElementOfSeq
<1>8. ASSUME NEW i \in 1 .. n + 1 PROVE h[i] = s[i].file
  <2>1. i \in 1 .. n \/ i = n + 1
    BY <1>1
  <2> QED
    BY <1>1, <1>3, <1>6, <2>1
<1>9. h = g
  BY <1>4, <1>7, <1>8
<1> QED
  BY <1>9 DEF h, g, f, s

LEMMA RedirectKeepsHeld ==
  ASSUME TokensInv, ParseInv, KeepInv, HeldInv, ParseRedirect
  PROVE  HeldInv'
<1>1. AtToken("parse") /\ ThisToken.type \in FileType /\ ParseMoves(2)
  BY DEF ParseRedirect
<1>2. cur \in 1 .. Len(tokens) /\ Len(tokens) \in Nat
  BY <1>1, AtThisToken
<1>3. Valid /\ ThisCommand \in CommandOf(Values)
  BY <1>1, CommandsAre
<1>4. TypeAt(cur + 1) \in TextType /\ cur + 1 \in 1 .. Len(tokens) /\ tokens[cur + 1].value \in Values
  BY <1>1, <1>3, TextFollows
<1>5. cur + 2 <= Len(tokens) + 1 /\ cur + 2 - 1 = cur + 1
  BY <1>2, <1>4
<1> DEFINE v == tokens[cur + 1].value
           e == [file |-> v, type |-> ThisToken.type]
           r == ThisCommand.redirects
           a == Append(r, e)
           c == [ThisCommand EXCEPT !.redirects = a]
<1>6. WithCommand(c)
  BY <1>4 DEF ParseRedirect, AddRedir
<1> HIDE DEF v
<1>7. e \in [file : Values, type : FileType] /\ e.file = v
  BY <1>1, <1>4 DEF v
<1> HIDE DEF e
<1>8. r \in Seq([file : Values, type : FileType])
  BY <1>3 DEF CommandOf
<1> HIDE DEF r
<1>9. a \in Seq([file : Values, type : FileType]) /\ Files(a) = Append(Files(r), v)
  BY <1>7, <1>8, AppendProperties, FileAppended
<1> HIDE DEF a
<1>10. /\ c \in CommandOf(Values) /\ c.args = ThisCommand.args /\ c.redirects = a
       /\ c.delimiter = ThisCommand.delimiter
  BY <1>3, <1>9 DEF CommandOf
<1> HIDE DEF c
<1>11. /\ \A q \in Parts : q # "files" => Texts(c)[q] = Texts(ThisCommand)[q]
       /\ Texts(c)["files"] = Files(a) /\ Texts(ThisCommand)["files"] = Files(r)
       /\ "files" \in Parts
  BY <1>10 DEF Texts, Parts, Files, r
<1>12. NoVariables /\ OneHeredoc => NoDelimiter'
  BY <1>1, <1>5, <1>6, <1>10, DelimiterStays DEF HeldInv, AtToken
<1>13. Texts(c)["files"] = Append(Texts(ThisCommand)["files"], tokens[cur + 2 - 1].value)
  BY <1>5, <1>9, <1>11 DEF v
<1>14. ThisToken.type \notin TextType \cup {"command"}
  BY <1>1 DEF FileType, TextType
<1> QED
  BY <1>1, <1>5, <1>6, <1>10, <1>11, <1>12, <1>13, <1>14, AddKeepsHeld

\* With fewer than four unquoted <, the << that is parsed is the first.
LEMMA FirstHeredoc ==
  ASSUME TokensInv, PosInv, LexInv, AtToken("parse"), OneHeredoc, ThisToken.type = "heredoc",
         NEW i \in 1 .. Len(tokens), i < cur
  PROVE  tokens[i].type # "heredoc"
<1> SUFFICES ASSUME tokens[i].type = "heredoc" PROVE FALSE
  OBVIOUS
<1> DEFINE S == OfType(tokens, {"heredoc"})  n == Cardinality(S)
<1>1. PICK V : tokens \in Seq(ReadyOf(V))
  BY DEF TokensInv, AtToken
<1>2. IsFiniteSet(S) /\ n \in Nat
  BY <1>1, OfTypeIs
<1>3. 2 * n <= Cardinality(Unquoted({"<"}))
  <2>1. "heredoc" \in Kind /\ Types("heredoc") = {"heredoc"} /\ Chars("heredoc") = {"<"}
        /\ Weight("heredoc") = 2
    BY DEF Kind, Types, Chars, Weight
  <2>2. Weighed(tokens, "heredoc") <= Cardinality(Unquoted(Chars("heredoc")))
    BY <2>1 DEF LexInv, AtToken
  <2> QED
    BY <2>1, <2>2 DEF Weighed
<1>4. Cardinality(Unquoted({"<"})) \in Nat
  BY UnquotedIs
<1>5. i \in S /\ cur \in S /\ i # cur
  BY AtThisToken DEF OfType, ThisToken, TokensInv
<1>6. n >= 2
  <2> DEFINE B == {i} \cup {cur}
  <2>1. B \in SUBSET S
    BY <1>5
  <2>2. Cardinality(B) <= n
    BY <1>2, <2>1, FS_Subset
  <2>3. Cardinality(B) = 1 + 1
    <3>1. IsFiniteSet({i}) /\ Cardinality({i}) = 1
      BY FS_Singleton
    <3>2. cur \notin {i}
      BY <1>5
    <3> DEFINE A == {i}
    <3> HIDE DEF A
    <3>3. Cardinality(A \cup {cur}) = IF cur \in A THEN Cardinality(A) ELSE Cardinality(A) + 1
      BY <3>1, FS_AddElement DEF A
    <3> QED
      BY <3>1, <3>2, <3>3 DEF A
  <2> HIDE DEF B, n
  <2> QED
    BY <1>2, <2>2, <2>3
<1> HIDE DEF n
<1> QED
  BY <1>2, <1>3, <1>4, <1>6 DEF OneHeredoc

LEMMA HeredocKeepsHeld ==
  ASSUME TokensInv, ParseInv, PosInv, LexInv, KeepInv, HeldInv, ParseHeredoc
  PROVE  HeldInv'
<1>1. AtToken("parse") /\ ThisToken.type = "heredoc" /\ ParseMoves(2)
  BY DEF ParseHeredoc
<1>2. cur \in 1 .. Len(tokens) /\ Len(tokens) \in Nat
  BY <1>1, AtThisToken
<1>3. /\ Valid /\ ThisCommand \in CommandOf(Values)
      /\ Len(commands) >= 1 /\ Len(commands) \in Nat /\ ThisCommand = commands[Len(commands)]
  BY <1>1, CommandsAre
<1>4. TypeAt(cur + 1) \in TextType /\ cur + 1 \in 1 .. Len(tokens) /\ tokens[cur + 1].value \in Values
  BY <1>1, <1>3, TextFollows
<1>5. cur + 2 <= Len(tokens) + 1 /\ cur + 2 - 1 = cur + 1
  BY <1>2, <1>4
<1> DEFINE v == tokens[cur + 1].value
           d == << v >>
           e == TypeAt(cur + 1) = "word"
           c == [ThisCommand EXCEPT !.delimiter = d, !.expand = e]
<1>6. WithCommand(c)
  BY <1>4 DEF ParseHeredoc
<1> HIDE DEF v
<1>7. d \in Seq(Values) /\ d = Append(<<>>, v) /\ e \in BOOLEAN
  <2>1. v \in Values
    BY <1>4 DEF v
  <2> QED
    BY <2>1
<1> HIDE DEF d, e
<1>8. /\ c \in CommandOf(Values) /\ c.args = ThisCommand.args
      /\ c.redirects = ThisCommand.redirects /\ c.delimiter = d
  BY <1>3, <1>7 DEF CommandOf
<1> HIDE DEF c
<1>9. /\ \A q \in Parts : q # "delimiter" => Texts(c)[q] = Texts(ThisCommand)[q]
      /\ Texts(c)["delimiter"] = d /\ Texts(ThisCommand)["delimiter"] = ThisCommand.delimiter
      /\ "delimiter" \in Parts
  BY <1>8 DEF Texts, Parts
<1>10. NoVariables /\ OneHeredoc => ThisCommand.delimiter = <<>>
  <2> SUFFICES ASSUME NoVariables, OneHeredoc PROVE ThisCommand.delimiter = <<>>
    OBVIOUS
  <2>1. NoDelimiter
    BY <1>1 DEF HeldInv, AtToken
  <2>2. \A i \in 1 .. Len(tokens) : i < cur => tokens[i].type # "heredoc"
    BY <1>1, FirstHeredoc
  <2>3. Len(commands) \in 1 .. Len(commands)
    BY <1>3
  <2> QED
    BY <1>3, <2>1, <2>2, <2>3 DEF NoDelimiter
<1>11. NoVariables /\ OneHeredoc =>
         Texts(c)["delimiter"] = Append(Texts(ThisCommand)["delimiter"], tokens[cur + 2 - 1].value)
  BY <1>5, <1>7, <1>9, <1>10 DEF v
<1>12. NoDelimiter'
  <2>1. tokens' = tokens /\ cur' = cur + 2
    BY <1>1 DEF ParseMoves
  <2>2. cur < cur' /\ tokens[cur].type = "heredoc"
    BY <1>1, <1>2, <2>1 DEF ThisToken
  <2> QED
    BY <1>2, <2>1, <2>2 DEF NoDelimiter
<1>13. ThisToken.type \notin TextType \cup {"command"}
  BY <1>1 DEF TextType
<1> QED
  BY <1>1, <1>5, <1>6, <1>8, <1>9, <1>11, <1>12, <1>13, AddKeepsHeld

LEMMA OperatorKeepsHeld ==
  ASSUME TokensInv, ParseInv, KeepInv, HeldInv, ParsePipe \/ ParseAnd
  PROVE  HeldInv'
<1>1. /\ AtToken("parse") /\ ParseMoves(1)
      /\ ThisToken.type \in {"pipe", "and", "amp"}
  BY DEF ParsePipe, ParseAnd
<1>2. /\ commands \in Seq(CommandOf(Values)) /\ Len(commands) \in Nat
      /\ DOMAIN commands = 1 .. Len(commands)
  BY <1>1, CommandsAre, LenProperties
<1>3. ASSUME NEW x, Letter(x) /\ NoVariables PROVE Count(x, tokens[cur].value) = 0
  <2>1. ThisToken.type \notin TextType \cup {"command"}
    BY <1>1 DEF TextType
  <2>2. Kept(x, tokens, Count(x, line)) /\ cur \in 1 .. Len(tokens)
    BY <1>1, <1>3, WhileParsing
  <2> QED
    BY <1>3, <2>1, <2>2, NoneInOperator DEF ThisToken
<1>4. CASE commands' = commands
  <2>1. \A x : Held(x, commands') = Held(x, commands)
    BY <1>4
  <2>2. \A i \in 1 .. Len(commands') : \/ i \in 1 .. Len(commands) /\ commands'[i] = commands[i]
                                       \/ commands'[i] = NewCommand
    BY <1>4
  <2> QED
    BY <1>1, <1>3, <2>1, <2>2, SkipKeepsHeld
<1>5. CASE commands' = Append(commands, NewCommand)
  <2> DEFINE n == NewCommand  l == Len(commands)
  <2>1. n \in CommandOf(Values)
    <3>1. /\ <<>> \in Seq(Values) /\ <<>> \in Seq([file : Values, type : FileType])
      BY EmptySeq
    <3> QED
      BY <3>1 DEF NewCommand, CommandOf
  <2> HIDE DEF n
  <2>2. /\ Append(commands, n) \in Seq(CommandOf(Values)) /\ Len(Append(commands, n)) = l + 1
        /\ \A i \in 1 .. l : Append(commands, n)[i] = commands[i]
        /\ Append(commands, n)[l + 1] = n
    BY <1>2, <2>1, AppendProperties
  <2> DEFINE ds == Append(commands, n)
  <2>3. DOMAIN ds = 1 .. l + 1
    BY <2>2, LenProperties
  <2> HIDE DEF ds
  <2>4. ds[l + 1] = NewCommand /\ Len(ds) = l + 1 /\ \A i \in 1 .. l : ds[i] = commands[i]
    BY <2>2 DEF ds, n
  <2>5. \A x : Held(x, ds) = Held(x, commands)
    BY <1>2, <2>3, <2>4, NewHolds
  <2>6. \A i \in 1 .. Len(ds) : \/ i \in 1 .. Len(commands) /\ ds[i] = commands[i]
                                \/ ds[i] = NewCommand
    BY <1>2, <2>4
  <2>7. commands' = ds
    BY <1>5 DEF ds, n
  <2> QED
    BY <1>1, <1>3, <2>5, <2>6, <2>7, SkipKeepsHeld
<1> QED
  BY <1>4, <1>5 DEF ParsePipe, ParseAnd

LEMMA ValidateStartsHeld ==
  ASSUME TokensInv, ParseInv, ValidateTokens
  PROVE  HeldInv'
<1>1. phase = "validate" /\ cur = 1 /\ cur' = 1 /\ tokens' = tokens /\ line' = line
  BY DEF ValidateTokens, ParseInv
<1>2. CASE ~Valid
  BY <1>2 DEF ValidateTokens, HeldInv
<1>3. CASE Valid
  <2> DEFINE n == NewCommand  s == << n >>
  <2>1. phase' = "parse" /\ commands' = s
    BY <1>3 DEF ValidateTokens
  <2> HIDE DEF n
  <2>2. Len(s) = 1 /\ s[1] = n /\ DOMAIN s = 1 .. 1
    OBVIOUS
  <2> HIDE DEF s
  <2>3. ASSUME NEW x PROVE Held(x, s) = {}
    <3> DEFINE e == <<>>
    <3>1. DOMAIN e = 1 .. 0 /\ e \in Seq({}) /\ DOMAIN e = {}
      BY EmptySeq
    <3> HIDE DEF e
    <3>2. Held(x, s) = Held(x, e)
      <4>1. 0 \in Nat /\ DOMAIN s = 1 .. 0 + 1 /\ s[0 + 1] = NewCommand /\ \A i \in 1 .. 0 : s[i] = e[i]
        BY <2>2 DEF n
      <4> QED
        BY <3>1, <4>1, NewHolds
    <3>3. Held(x, e) = {}
      BY <3>1 DEF Held
    <3> QED
      BY <3>2, <3>3
  <2>4. NoDelimiter'
    <3>1. \A i \in 1 .. Len(s) : s[i].delimiter = <<>>
      BY <2>2 DEF NewCommand, n
    <3> QED
      BY <2>1, <3>1 DEF NoDelimiter
  <2>5. ASSUME NEW x
        PROVE  IsFiniteSet(Held(x, s)) /\ \A f : Running(x, tokens, f) => Cardinality(Held(x, s)) = f[1 - 1]
    BY <2>3, FS_EmptySet DEF Running
  <2>6. \A x : HeldAsParsed(x)'
    BY <1>1, <2>1, <2>5, HeldFixed DEF HeldAsParsed
  <2> QED
    BY <2>4, <2>6 DEF HeldInv
<1> QED
  BY <1>2, <1>3

LEMMA HeldIsKept ==
  ASSUME TokensInv, ParseInv, PosInv, LexInv, KeepInv, HeldInv, [Next]_vars
  PROVE  HeldInv'
<1>1. CASE UNCHANGED vars \/ Parsed
  <2>1. /\ line' = line /\ tokens' = tokens /\ cur' = cur /\ commands' = commands
        /\ phase' = phase \/ (phase = "parse" /\ phase' = "parsed")
    BY <1>1 DEF vars, Parsed
  <2>2. NoDelimiter' = NoDelimiter
    BY <2>1 DEF NoDelimiter
  <2>3. \A x : HeldAsParsed(x)' = HeldAsParsed(x)
    BY <2>1, HeldFixed DEF HeldAsParsed
  <2> QED
    BY <2>1, <2>2, <2>3, HeldFixed DEF HeldInv
<1>2. CASE Tokenize
  <2>1. phase' \in {"tokenize", "unclosed"}
    BY <1>2 DEF Tokenize, Operator, Word, Quoted, Unclosed
  <2> QED
    BY <2>1 DEF HeldInv
<1>3. CASE Tokenized \/ DropDollar \/ ExpandToken \/ ExpansionDone \/ MergeToken
           \/ CheckFormatCommand
  <2>1. phase' \in {"blank", "expand", "undefined", "merge", "validate"}
    BY <1>3 DEF Tokenized, DropDollar, ExpandToken, ExpansionDone, MergeToken, CheckFormatCommand,
       AtToken
  <2> QED
    BY <2>1 DEF HeldInv
<1> QED
  BY <1>1, <1>2, <1>3, ValidateStartsHeld, WordKeepsHeld, RedirectKeepsHeld, HeredocKeepsHeld,
     OperatorKeepsHeld DEF Next

-----------------------------------------------------------------------------
(* The reading of a line, character by character *)

LexemeSet == [kind : {"word", "pipe", "in", "out", "append", "heredoc"}, text : Text]

State == [open : BOOLEAN, text : Text, double : Characters \cup {End}, lexemes : Seq(LexemeSet)]

\* Reading looks at one character after the other.
LEMMA ReadSteps ==
  ASSUME line \in Seq(Characters)
  PROVE  /\ Reading[0] = Nothing
         /\ \A i \in 1 .. Len(line) : Reading[i] = Read(Reading[i - 1], i)
<1> DEFINE n == Len(line)
           e(f, i) == IF i = 0 THEN Nothing ELSE Read(f[i - 1], i)
           P(f, m) == f = [i \in 0 .. m |-> e(f, i)]
           T == {m \in 0 .. n : \E g : P(g, m)}
<1>1. n \in Nat
  BY LineIs
<1>2. 0 \in T
  <2> DEFINE g == [i \in 0 .. 0 |-> Nothing]
  <2>1. \A i \in 0 .. 0 : i = 0
    OBVIOUS
  <2>2. P(g, 0)
    BY <2>1
  <2>3. 0 \in 0 .. n
    BY <1>1
  <2> HIDE DEF P, g
  <2> QED
    BY <2>2, <2>3
<1>3. ASSUME NEW m \in 0 .. n - 1, m \in T PROVE m + 1 \in T
  <2>1. PICK g : P(g, m)
    BY <1>3
  <2> DEFINE h == [i \in 0 .. m + 1 |-> IF i = m + 1 THEN Read(g[m], m + 1) ELSE g[i]]
  <2>2. \A i \in 0 .. m : g[i] = e(g, i)
    BY <2>1
  <2>3. m \in Nat /\ m + 1 \in 0 .. n /\ \A i \in 0 .. m : h[i] = g[i]
    BY <1>1, <1>3
  <2>4. h[m + 1] = Read(g[m], m + 1)
    BY <2>3
  <2> HIDE DEF h
  <2>5. ASSUME NEW i \in 0 .. m + 1 PROVE h[i] = e(h, i)
    <3>1. CASE i = m + 1
      <4>1. i # 0 /\ i - 1 = m /\ h[m] = g[m]
        BY <2>3, <3>1
      <4> QED
        BY <2>4, <3>1, <4>1
    <3>2. CASE i \in 1 .. m
      <4>1. i \in 0 .. m /\ i - 1 \in 0 .. m /\ i # 0
        BY <2>3, <3>2
      <4>2. h[i] = g[i] /\ h[i - 1] = g[i - 1]
        BY <2>3, <4>1
      <4>3. g[i] = e(g, i)
        BY <2>2, <4>1
      <4> QED
        BY <4>1, <4>2, <4>3
    <3>3. CASE i = 0
      <4>1. 0 \in 0 .. m
        BY <2>3
      <4>2. h[0] = g[0] /\ g[0] = e(g, 0)
        BY <2>2, <2>3, <4>1
      <4> QED
        BY <3>3, <4>2
    <3> QED
      BY <2>3, <3>1, <3>2, <3>3
  <2>6. h = [i \in 0 .. m + 1 |-> h[i]]
    BY DEF h
  <2> HIDE DEF e
  <2>7. P(h, m + 1)
    BY <2>5, <2>6
  <2> HIDE DEF P
  <2> QED
    BY <2>3, <2>7
<1>4. n \in T
  <2> HIDE DEF T, n
  <2>1. \A k \in 0 .. n : k \in T
    BY <1>1, <1>2, <1>3, UpTo
  <2> QED
    BY <1>1, <2>1
<1>5. Reading = CHOOSE f : P(f, n)
  BY DEF Reading
<1>6. P(Reading, n)
  <2>1. \E g : P(g, n)
    BY <1>4
  <2> HIDE DEF P
  <2> QED
    BY <1>5, <2>1
<1>7. \A i \in 0 .. n : Reading[i] = e(Reading, i)
  <2> DEFINE rd == Reading
  <2>1. rd = [i \in 0 .. n |-> e(rd, i)]
    BY <1>6
  <2> HIDE DEF rd, n, e
  <2>2. \A i \in 0 .. n : rd[i] = e(rd, i)
    BY <2>1
  <2> QED
    BY <2>2 DEF rd
<1>8. 0 \in 0 .. n /\ \A i \in 1 .. n : i \in 0 .. n /\ i # 0
  BY <1>1
<1> HIDE DEF n
<1>9. Reading[0] = Nothing
  BY <1>7, <1>8
<1>10. \A i \in 1 .. n : Reading[i] = Read(Reading[i - 1], i)
  BY <1>7, <1>8
<1> QED
  BY <1>9, <1>10 DEF n

\* What each character does to the words and operators read so far.
LEMMA ReadIs ==
  ASSUME line \in Seq(Characters), NEW i \in 1 .. Len(line), NEW s
  PROVE  /\ OpenQuote[i] # NoQuote /\ At(i) = OpenQuote[i] => Read(s, i) = s
         /\ OpenQuote[i] # NoQuote /\ At(i) # OpenQuote[i] =>
              Read(s, i) = [s EXCEPT !.text = Append(@, At(i))]
         /\ OpenQuote[i] = NoQuote /\ At(i) \in Quotes => Read(s, i) = Opened(s)
         /\ OpenQuote[i] = NoQuote /\ At(i) \in Blanks => Read(s, i) = Ended(s)
         /\ OpenQuote[i] = NoQuote /\ At(i) \in Operators => Read(s, i) = ReadOperator(s, At(i))
         /\ OpenQuote[i] = NoQuote /\ At(i) \notin Quotes \cup Blanks \cup Operators =>
              Read(s, i) = [Opened(s) EXCEPT !.text = Append(@, At(i))]
<1> DEFINE c == line[i]  oq == OpenQuote[i]
           kept == [s EXCEPT !.text = Append(@, c)]
           more == [Opened(s) EXCEPT !.text = Append(@, c)]
           ended == Ended(s)  opened == Opened(s)  op == ReadOperator(s, c)
<1>1. At(i) = c
  BY LineIs
<1>2. /\ c \in Blanks => c \notin Quotes /\ c \notin Operators
      /\ c \in Operators => c \notin Quotes
  BY DEF Blanks, Quotes, Operators, Redirects
<1>3. Read(s, i) = CASE oq # NoQuote /\ Closes(i)    -> s
                     [] oq # NoQuote /\ ~Closes(i)   -> kept
                     [] ~(oq # NoQuote) /\ c \in Quotes    -> opened
                     [] ~(oq # NoQuote) /\ c \in Blanks    -> ended
                     [] ~(oq # NoQuote) /\ c \in Operators -> op
                     [] OTHER -> more
  BY DEF Read
<1>4. Closes(i) <=> oq # NoQuote /\ c = oq
  BY DEF Closes
<1> HIDE DEF c, oq, kept, more, ended, opened, op
<1>5. /\ oq # NoQuote /\ c = oq => Read(s, i) = s
      /\ oq # NoQuote /\ c # oq => Read(s, i) = kept
      /\ oq = NoQuote /\ c \in Quotes => Read(s, i) = opened
      /\ oq = NoQuote /\ c \in Blanks => Read(s, i) = ended
      /\ oq = NoQuote /\ c \in Operators => Read(s, i) = op
      /\ oq = NoQuote /\ c \notin Quotes \cup Blanks \cup Operators => Read(s, i) = more
  BY <1>2, <1>3, <1>4
<1> QED
  BY <1>1, <1>5 DEF c, oq, kept, more, ended, opened, op

LEMMA FrontOfAppended ==
  ASSUME NEW S, NEW s \in Seq(S), NEW c \in S
  PROVE  Front(Append(s, c)) = s /\ Last(Append(s, c)) = c
<1> DEFINE r == Append(s, c)  n == Len(s)
<1>1. /\ r \in Seq(S) /\ Len(r) = n + 1 /\ (\A i \in 1 .. n : r[i] = s[i]) /\ r[n + 1] = c
  BY AppendProperties
<1>2. n \in Nat /\ \A i \in 1 .. n : s[i] \in S
  BY LenProperties, ElementOfSeq
<1> HIDE DEF r
<1>3. Last(r) = c /\ Front(r) = SubSeq(r, 1, n)
  <2>1. Len(r) - 1 = n
    BY <1>1, <1>2
  <2> QED
    BY <1>1, <2>1 DEF Last, Front
<1>4. SubSeq(r, 1, n) = s
  <2> HIDE DEF n
  <2>1. \A i \in 1 .. n : r[i] \in S
    BY <1>1, <1>2
  <2>2. /\ SubSeq(r, 1, n) \in Seq(S)
        /\ Len(SubSeq(r, 1, n)) = IF 1 <= n THEN n - 1 + 1 ELSE 0
        /\ \A i \in 1 .. n - 1 + 1 : SubSeq(r, 1, n)[i] = r[1 + i - 1]
    BY <1>2, <2>1, SubSeqProperties
  <2> DEFINE q == SubSeq(r, 1, n)
  <2>3. q \in Seq(S) /\ Len(q) = n /\ \A i \in 1 .. n : q[i] = s[i]
    BY <1>1, <1>2, <2>2
  <2> HIDE DEF q
  <2>4. q = s
    BY <2>3, SeqEqual DEF n
  <2> QED
    BY <2>4 DEF q
<1> QED
  BY <1>3, <1>4 DEF r

LEMMA SameState ==
  ASSUME NEW s \in State, NEW t \in State, s.open = t.open, s.text = t.text,
         s.double = t.double, s.lexemes = t.lexemes
  PROVE  s = t
BY DEF State

LEMMA NothingIs == Nothing \in State
<1>1. <<>> \in Text /\ <<>> \in Seq(LexemeSet)
  BY Short, EmptySeq
<1> QED
  BY <1>1 DEF Nothing, State

LEMMA OpenedIs ==
  ASSUME NEW s \in State
  PROVE  /\ Opened(s) \in State /\ Opened(s).open /\ Opened(s).text = s.text
         /\ Opened(s).double = End /\ Opened(s).lexemes = s.lexemes
BY DEF Opened, State

LEMMA LexemeIs ==
  ASSUME NEW v \in Text
  PROVE  /\ Lexeme("word", v) \in LexemeSet
         /\ \A c : Lexeme(Single(c), <<>>) \in LexemeSet /\ Lexeme(Double(c), <<>>) \in LexemeSet
<1>1. Lexeme("word", v) \in LexemeSet
  BY DEF Lexeme, LexemeSet
<1>2. ASSUME NEW c PROVE Single(c) \in {"pipe", "in", "out"} /\ Double(c) \in {"heredoc", "append"}
  BY DEF Single, Double
<1>3. ASSUME NEW c PROVE Lexeme(Single(c), <<>>) \in LexemeSet /\ Lexeme(Double(c), <<>>) \in LexemeSet
  BY <1>2, Short DEF Lexeme, LexemeSet
<1> QED
  BY <1>1, <1>3

LEMMA EndedIs ==
  ASSUME NEW s \in State
  PROVE  /\ Ended(s) \in State /\ ~Ended(s).open /\ Ended(s).text = <<>> /\ Ended(s).double = End
         /\ s.open => Ended(s).lexemes = Append(s.lexemes, Lexeme("word", s.text))
         /\ ~s.open => Ended(s).lexemes = s.lexemes
         /\ Ended(Ended(s)) = Ended(s)
<1> DEFINE more == Append(s.lexemes, Lexeme("word", s.text))
<1>1. s.lexemes \in Seq(LexemeSet) /\ s.text \in Text /\ s.open \in BOOLEAN
  BY DEF State
<1>2. more \in Seq(LexemeSet)
  BY <1>1, LexemeIs, AppendProperties
<1> DEFINE ls == IF s.open THEN more ELSE s.lexemes
<1>3. Ended(s) = [s EXCEPT !.open = FALSE, !.text = <<>>, !.double = End, !.lexemes = ls]
  BY DEF Ended
<1>4. (s.open => ls = more) /\ (~s.open => ls = s.lexemes) /\ ls \in Seq(LexemeSet)
  BY <1>1, <1>2
<1> HIDE DEF ls
<1>5. /\ Ended(s) \in State /\ ~Ended(s).open /\ Ended(s).text = <<>> /\ Ended(s).double = End
      /\ Ended(s).lexemes = ls
  BY <1>3, <1>4, Short DEF State
<1> DEFINE t == Ended(s)
<1> HIDE DEF t
<1>6. t \in State /\ ~t.open /\ t.text = <<>> /\ t.double = End => Ended(t) = t
  BY DEF Ended, State
<1> HIDE DEF more
<1>7. Ended(Ended(s)) = Ended(s)
  BY <1>5, <1>6 DEF t
<1> QED
  BY <1>4, <1>5, <1>7 DEF more

\* A text that is read goes to the open word, or opens one.
With(s, v) == [s EXCEPT !.open = TRUE, !.text = @ \o v, !.double = End]

LEMMA WithIs ==
  ASSUME NEW s \in State, NEW v \in Text
  PROVE  /\ With(s, v) \in State /\ With(s, v).open /\ With(s, v).text = s.text \o v
         /\ With(s, v).double = End /\ With(s, v).lexemes = s.lexemes
<1> DEFINE w == s.text \o v
<1>1. s.text \in Text
  BY DEF State
<1>2. w \in Text
  BY <1>1, Concatenated
<1>3. With(s, v) = [s EXCEPT !.open = TRUE, !.text = w, !.double = End]
  BY DEF With
<1> HIDE DEF w
<1>4. /\ With(s, v) \in State /\ With(s, v).open /\ With(s, v).text = w
      /\ With(s, v).double = End /\ With(s, v).lexemes = s.lexemes
  BY <1>2, <1>3 DEF State
<1> QED
  BY <1>4 DEF w

LEMMA TextsJoined ==
  ASSUME NEW t \in Text, NEW v \in Text, NEW w \in Text
  PROVE  (t \o v) \o w = t \o (v \o w)
<1>1. t \in Seq(STRING) /\ v \in Seq(STRING) /\ w \in Seq(STRING)
  BY DEF Text
<1> QED
  BY ONLY <1>1, ConcatAssociative

LEMMA WithMore ==
  ASSUME NEW s \in State, NEW v \in Text, NEW w \in Text
  PROVE  With(With(s, v), w) = With(s, v \o w)
<1> DEFINE t == s.text  q == With(s, v)  u == v \o w
           a == With(q, w)  b == With(s, u)
<1>1. u \in Text /\ t \in Text /\ q \in State /\ q.text = t \o v /\ q.lexemes = s.lexemes
  BY Concatenated, WithIs DEF State
<1>2. (t \o v) \o w = t \o u
  BY <1>1, TextsJoined
<1> HIDE DEF q, u
<1>3. a \in State /\ a.open /\ a.text = q.text \o w /\ a.double = End /\ a.lexemes = q.lexemes
  BY <1>1, WithIs
<1>4. b \in State /\ b.open /\ b.text = t \o u /\ b.double = End /\ b.lexemes = s.lexemes
  BY <1>1, WithIs
<1> HIDE DEF a, b, t
<1>5. a.open = b.open
  BY <1>3, <1>4 DEF State
<1>6. a = b
  BY <1>1, <1>2, <1>3, <1>4, <1>5, SameState
<1> QED
  BY <1>6 DEF a, b, q, u

LEMMA OneMore ==
  ASSUME NEW s \in State, NEW c \in STRING
  PROVE  /\ [Opened(s) EXCEPT !.text = Append(@, c)] = With(s, << c >>)
         /\ s.open /\ s.double = End => [s EXCEPT !.text = Append(@, c)] = With(s, << c >>)
<1>1. s.text \in Text /\ << c >> \in Text
  BY Short DEF State
<1>2. Append(s.text, c) = s.text \o << c >>
  BY <1>1, AppendIsConcat DEF Text
<1> DEFINE u == s.text \o << c >>
<1>3. u \in Text
  BY <1>1, Concatenated
<1>4. Opened(s) \in State /\ Opened(s).text = s.text /\ Opened(s) = [s EXCEPT !.open = TRUE, !.double = End]
  BY OpenedIs DEF Opened
<1>5. With(s, << c >>) = [s EXCEPT !.open = TRUE, !.text = u, !.double = End]
  BY DEF With
<1>6. [Opened(s) EXCEPT !.text = Append(@, c)] = [Opened(s) EXCEPT !.text = u]
  BY <1>2, <1>4
<1>7. [s EXCEPT !.text = Append(@, c)] = [s EXCEPT !.text = u]
  BY <1>2
<1> HIDE DEF u
<1>8. [Opened(s) EXCEPT !.text = u] = [s EXCEPT !.open = TRUE, !.text = u, !.double = End]
  BY <1>3, <1>4 DEF State
<1>9. s.open /\ s.double = End => [s EXCEPT !.text = u] = [s EXCEPT !.open = TRUE, !.text = u, !.double = End]
  BY <1>3 DEF State
<1> QED
  BY <1>5, <1>6, <1>7, <1>8, <1>9

LEMMA ReadOperatorIs ==
  ASSUME NEW s \in State, NEW c \in Characters
  PROVE  LET r == ReadOperator(s, c)
             ls == Ended(s).lexemes
         IN  /\ r \in State /\ ~r.open /\ r.text = <<>>
             /\ c = s.double => r.double = End /\ r.lexemes = Append(Front(ls), Lexeme(Double(c), <<>>))
             /\ c # s.double => /\ r.double = IF c = "|" THEN End ELSE c
                                /\ r.lexemes = Append(ls, Lexeme(Single(c), <<>>))
<1> DEFINE e == Ended(s)  ls == e.lexemes  r == ReadOperator(s, c)
           x == Append(Front(ls), Lexeme(Double(c), <<>>))
           y == Append(ls, Lexeme(Single(c), <<>>))
           d == IF c = "|" THEN End ELSE c
<1>1. e \in State /\ ~e.open /\ e.text = <<>> /\ e.double = End
  BY EndedIs
<1>2. r = IF c = s.double THEN [e EXCEPT !.lexemes = x] ELSE [e EXCEPT !.lexemes = y, !.double = d]
  BY DEF ReadOperator
<1>3. ls \in Seq(LexemeSet) /\ <<>> \in Text
  <2> HIDE DEF e
  <2> QED
    BY <1>1, Short DEF State
<1>4. Lexeme(Single(c), <<>>) \in LexemeSet /\ Lexeme(Double(c), <<>>) \in LexemeSet
  BY <1>3, LexemeIs
<1> HIDE DEF e, r
<1>5. Front(ls) \in Seq(LexemeSet)
  <2> DEFINE n == Len(ls) - 1
  <2>1. n \in Int /\ \A i \in 1 .. n : ls[i] \in LexemeSet
    BY <1>3, LenProperties, ElementOfSeq
  <2>2. Front(ls) = SubSeq(ls, 1, n)
    BY DEF Front
  <2> HIDE DEF n, ls
  <2>3. SubSeq(ls, 1, n) \in Seq(LexemeSet)
    BY <2>1, SubSeqProperties
  <2> QED
    BY <2>2, <2>3
<1>6. x \in Seq(LexemeSet) /\ y \in Seq(LexemeSet)
  BY <1>3, <1>4, <1>5, AppendProperties
<1>7. d \in Characters \cup {End}
  OBVIOUS
<1> HIDE DEF x, y, d
<1>8. CASE c = s.double
  <2>1. r = [e EXCEPT !.lexemes = x]
    BY <1>2, <1>8
  <2>2. r \in State /\ ~r.open /\ r.text = <<>> /\ r.double = End /\ r.lexemes = x
    BY <1>1, <1>6, <2>1 DEF State
  <2> QED
    BY <1>8, <2>2 DEF x, e, r
<1>9. CASE c # s.double
  <2>1. r = [e EXCEPT !.lexemes = y, !.double = d]
    BY <1>2, <1>9
  <2>2. r \in State /\ ~r.open /\ r.text = <<>> /\ r.double = d /\ r.lexemes = y
    BY <1>1, <1>6, <1>7, <2>1 DEF State
  <2> QED
    BY <1>9, <2>2 DEF y, d, e, r
<1> QED
  BY <1>8, <1>9

LEMMA ReadIsState ==
  ASSUME line \in Seq(Characters), NEW i \in 1 .. Len(line), NEW s \in State
  PROVE  Read(s, i) \in State
<1> DEFINE c == At(i)
<1>1. c \in STRING /\ c \in Characters
  BY LineIs DEF Characters
<1>2. Opened(s) \in State /\ Ended(s) \in State
  BY OpenedIs, EndedIs
<1>3. ReadOperator(s, c) \in State
  BY <1>1, ReadOperatorIs
<1> DEFINE u == Append(s.text, c)
<1>4. u \in Text
  BY <1>1, AppendProperties DEF State, Text
<1>5. [s EXCEPT !.text = Append(@, c)] \in State
  <2>1. [s EXCEPT !.text = Append(@, c)] = [s EXCEPT !.text = u]
    OBVIOUS
  <2> HIDE DEF u
  <2> QED
    BY <1>4, <2>1 DEF State
<1>6. [Opened(s) EXCEPT !.text = Append(@, c)] \in State
  <2> HIDE DEF c
  <2>1. << c >> \in Text /\ [Opened(s) EXCEPT !.text = Append(@, c)] = With(s, << c >>)
    BY <1>1, OneMore, Short
  <2> QED
    BY <2>1, WithIs
<1> DEFINE r == Read(s, i)  k == [s EXCEPT !.text = Append(@, c)]
           m == [Opened(s) EXCEPT !.text = Append(@, c)]
           op == ReadOperator(s, c)  oq == OpenQuote[i]
<1>7. /\ oq # NoQuote /\ c = oq => r = s
      /\ oq # NoQuote /\ c # oq => r = k
      /\ oq = NoQuote /\ c \in Quotes => r = Opened(s)
      /\ oq = NoQuote /\ c \in Blanks => r = Ended(s)
      /\ oq = NoQuote /\ c \in Operators => r = op
      /\ oq = NoQuote /\ c \notin Quotes \cup Blanks \cup Operators => r = m
  BY ReadIs
<1> HIDE DEF c, r, k, m, op, oq
<1>8. r \in State
  BY <1>2, <1>3, <1>5, <1>6, <1>7 DEF k, m, op
<1> QED
  BY <1>8 DEF r

LEMMA ReadingIs ==
  ASSUME line \in Seq(Characters)
  PROVE  \A i \in 0 .. Len(line) : Reading[i] \in State
<1> DEFINE n == Len(line)
           T == {m \in 0 .. n : Reading[m] \in State}
<1>1. n \in Nat
  BY LineIs
<1>2. 0 \in T
  BY <1>1, ReadSteps, NothingIs
<1>3. ASSUME NEW m \in 0 .. n - 1, m \in T PROVE m + 1 \in T
  <2>1. m + 1 \in 1 .. n /\ m + 1 \in 0 .. n /\ m + 1 - 1 = m
    BY <1>1
  <2> DEFINE i == m + 1
  <2>2. i \in 1 .. Len(line) /\ i - 1 = m /\ Reading[m] \in State /\ i \in 0 .. n
    BY <1>3, <2>1
  <2> HIDE DEF i
  <2>3. Reading[i] = Read(Reading[i - 1], i)
    BY <2>2, ReadSteps
  <2>4. Reading[i] \in State
    BY <2>2, <2>3, ReadIsState
  <2> QED
    BY <2>2, <2>4 DEF i
<1> HIDE DEF T, n
<1>4. \A m \in 0 .. n : m \in T
  BY <1>1, <1>2, <1>3, UpTo
<1> QED
  BY <1>4 DEF T, n

LEMMA PieceGrows ==
  ASSUME PosInv, NEW a \in 1 .. Len(line), NEW b \in a .. Len(line)
  PROVE  Piece(a, b + 1) = Piece(a, b) \o << At(b) >>
<1> DEFINE c == b + 1
<1>1. Len(line) \in Nat /\ b \in 1 .. Len(line) /\ c - 1 = b
  BY LineIs DEF PosInv
<1>2. At(b) = line[b]
  BY <1>1, LineIs DEF PosInv
<1>3. SubSeq(line, a, b) = SubSeq(line, a, b - 1) \o << line[b] >>
  BY SubSeqRecursiveSecond DEF PosInv
<1> HIDE DEF c
<1>4. Piece(a, c) = SubSeq(line, a, b)
  BY <1>1, Zenon DEF Piece
<1> QED
  BY <1>2, <1>3, <1>4 DEF Piece, c

LEMMA EmptyPiece ==
  ASSUME PosInv, NEW a \in 1 .. Len(line) + 1
  PROVE  Piece(a, a) = <<>>
<1> DEFINE m == a - 1
<1>1. m \in Int /\ a \in Int /\ m < a
  BY LineIs DEF PosInv
<1> HIDE DEF m
<1>2. SubSeq(line, a, m) = <<>>
  BY <1>1, SubSeqEmpty
<1> QED
  BY <1>2 DEF m, Piece

\* Blanks end a word.
LEMMA BlanksRead ==
  ASSUME PosInv, NEW a \in 1 .. Len(line) + 1, NEW b \in a .. Len(line) + 1, a < b,
         OpenQuote[a] = NoQuote, \A k \in a .. b - 1 : At(k) \in Blanks
  PROVE  Reading[b - 1] = Ended(Reading[a - 1])
<1> DEFINE n == b - a  s == Reading[a - 1]
           T == {m \in 0 .. n : m = 0 \/ Reading[a + m - 1] = Ended(s)}
<1>1. Len(line) \in Nat /\ n \in Nat \ {0} /\ a \in Nat /\ b \in Nat /\ a + n - 1 = b - 1
  BY LineIs DEF PosInv
<1>2. s \in State
  <2>1. a - 1 \in 0 .. Len(line)
    BY <1>1
  <2> QED
    BY <2>1, ReadingIs DEF PosInv
<1>3. 0 \in T
  BY <1>1
<1>4. ASSUME NEW m \in 0 .. n - 1, m \in T PROVE m + 1 \in T
  <2> DEFINE i == a + m
  <2>1. /\ i \in 1 .. Len(line) /\ i \in a .. b - 1 /\ m + 1 \in 0 .. n /\ i = a + (m + 1) - 1
        /\ i - 1 = a + m - 1 /\ i \in a .. Len(line) + 1
    BY <1>1
  <2>2. OpenQuote[i] = NoQuote
    <3>1. \A k \in a .. i - 1 : At(k) \notin Quotes
      <4>1. \A k \in a .. i - 1 : k \in a .. b - 1
        BY <1>1, <2>1
      <4> QED
        BY <4>1 DEF Blanks, Quotes
    <3> HIDE DEF i
    <3> QED
      BY <2>1, <3>1, QuoteStays
  <2>3. At(i) \in Blanks
    BY <2>1
  <2>4. m = 0 \/ Reading[i - 1] = Ended(s)
    BY <1>4, <2>1
  <2>5. m = 0 => i - 1 = a - 1
    BY <1>1
  <2> HIDE DEF i
  <2>6. Reading[i] = Ended(Reading[i - 1])
    BY <2>1, <2>2, <2>3, ReadSteps, ReadIs DEF PosInv
  <2>7. Reading[i] = Ended(s)
    <3>1. CASE m = 0
      BY <2>5, <2>6, <3>1
    <3>2. CASE Reading[i - 1] = Ended(s)
      <4> HIDE DEF s
      <4> QED
        BY <1>2, <2>6, <3>2, EndedIs
    <3> QED
      BY <2>4, <3>1, <3>2
  <2> QED
    BY <2>1, <2>7
<1> HIDE DEF T, n
<1>5. \A m \in 0 .. n : m \in T
  BY <1>1, <1>3, <1>4, UpTo
<1>6. n \in T /\ n # 0
  BY <1>1, <1>5
<1> QED
  BY <1>1, <1>6 DEF T

\* A part of the line each character of which is added to a text.
LEMMA PartRead ==
  ASSUME PosInv, NEW a \in 1 .. Len(line) + 1, NEW b \in a .. Len(line) + 1, a < b,
         NEW S \in SUBSET State, Reading[a - 1] \in S,
         \A s \in S, k \in a .. b - 1 : Read(s, k) = With(s, << At(k) >>) /\ Read(s, k) \in S
  PROVE  Reading[b - 1] = With(Reading[a - 1], Piece(a, b))
<1> DEFINE n == b - a  s == Reading[a - 1]
           T == {m \in 0 .. n : /\ Reading[a + m - 1] \in S
                                /\ m = 0 \/ Reading[a + m - 1] = With(s, Piece(a, a + m))}
<1>1. Len(line) \in Nat /\ n \in Nat \ {0} /\ a \in Nat /\ b \in Nat /\ a + n - 1 = b - 1 /\ a + n = b
      /\ a + 0 - 1 = a - 1 /\ a \in 1 .. Len(line)
  BY LineIs DEF PosInv
<1>2. s \in State /\ s \in S
  OBVIOUS
<1>3. 0 \in T
  BY <1>1
<1>4. ASSUME NEW m \in 0 .. n - 1, m \in T PROVE m + 1 \in T
  <2> DEFINE i == a + m
  <2>1. /\ i \in 1 .. Len(line) /\ i \in a .. b - 1 /\ m + 1 \in 0 .. n /\ i = a + (m + 1) - 1
        /\ i - 1 = a + m - 1 /\ i \in a .. Len(line) + 1 /\ i \in a .. Len(line) /\ i + 1 = a + (m + 1)
    BY <1>1
  <2>2. Reading[i - 1] \in S /\ (m = 0 \/ Reading[i - 1] = With(s, Piece(a, i)))
    BY <1>4, <2>1
  <2>3. m = 0 => i = a
    BY <1>1
  <2> DEFINE v == << At(i) >>
  <2>4. At(i) \in STRING /\ v \in Text /\ Piece(a, i) \in Text
    <3>1. At(i) \in STRING
      BY <2>1, LineIs DEF PosInv
    <3> HIDE DEF i
    <3> QED
      BY <2>1, <3>1, Short, PieceIs
  <2> HIDE DEF i
  <2>5. Reading[i] = With(Reading[i - 1], v) /\ Reading[i] \in S
    BY <2>1, <2>2, ReadSteps DEF PosInv
  <2>6. Piece(a, i + 1) = Piece(a, i) \o v
    BY <1>1, <2>1, PieceGrows
  <2> HIDE DEF v, s
  <2>7. Reading[i] = With(s, Piece(a, i + 1))
    <3>1. CASE m = 0
      <4>1. Piece(a, i) = <<>> /\ <<>> \o v = v
        BY <2>3, <2>4, <3>1, EmptyPiece, ConcatEmptySeq DEF Text
      <4> QED
        BY <2>3, <2>5, <2>6, <3>1, <4>1 DEF s
    <3>2. CASE Reading[i - 1] = With(s, Piece(a, i))
      BY <1>2, <2>4, <2>5, <2>6, <3>2, WithMore
    <3> QED
      BY <2>2, <3>1, <3>2
  <2> QED
    BY <2>1, <2>5, <2>7
<1> HIDE DEF T, n
<1>5. \A m \in 0 .. n : m \in T
  BY <1>1, <1>3, <1>4, UpTo
<1>6. n \in T /\ n # 0
  BY <1>1, <1>5
<1> QED
  BY <1>1, <1>6 DEF T

\* A word without quotes.
LEMMA WordRead ==
  ASSUME PosInv, NEW a \in 1 .. Len(line) + 1, NEW b \in a .. Len(line) + 1, a < b,
         OpenQuote[a] = NoQuote, \A k \in a .. b - 1 : At(k) \notin Quotes \cup Blanks \cup Operators
  PROVE  Reading[b - 1] = With(Reading[a - 1], Piece(a, b))
<1>1. Len(line) \in Nat /\ a \in Nat /\ b \in Nat /\ a - 1 \in 0 .. Len(line)
  BY LineIs DEF PosInv
<1>2. ASSUME NEW s \in State, NEW k \in a .. b - 1
      PROVE  Read(s, k) = With(s, << At(k) >>) /\ Read(s, k) \in State
  <2>1. k \in 1 .. Len(line) /\ k \in a .. Len(line) + 1 /\ \A j \in a .. k - 1 : j \in a .. b - 1
    BY <1>1
  <2>2. OpenQuote[k] = NoQuote
    <3>1. \A j \in a .. k - 1 : At(j) \notin Quotes
      BY <2>1
    <3> QED
      BY <2>1, <3>1, QuoteStays
  <2>3. At(k) \in STRING
    BY <2>1, LineIs DEF PosInv
  <2>4. Read(s, k) = [Opened(s) EXCEPT !.text = Append(@, At(k))]
    BY <2>1, <2>2, ReadIs DEF PosInv
  <2> DEFINE c == At(k)
  <2> HIDE DEF c
  <2>5. [Opened(s) EXCEPT !.text = Append(@, c)] = With(s, << c >>)
    BY <2>3, OneMore DEF c
  <2> QED
    BY <2>1, <2>4, <2>5, ReadIsState DEF c, PosInv
<1>3. Reading[a - 1] \in State
  BY <1>1, ReadingIs DEF PosInv
<1> QED
  BY <1>2, <1>3, PartRead

\* The text between two quotes.
LEMMA InsideRead ==
  ASSUME PosInv, NEW a \in 1 .. Len(line) + 1, NEW b \in a .. Len(line) + 1, a < b,
         OpenQuote[a] # NoQuote, \A k \in a .. b - 1 : At(k) # OpenQuote[a],
         Reading[a - 1].open, Reading[a - 1].double = End
  PROVE  Reading[b - 1] = With(Reading[a - 1], Piece(a, b))
<1> DEFINE S == {s \in State : s.open /\ s.double = End}
<1>1. Len(line) \in Nat /\ a \in Nat /\ b \in Nat /\ a - 1 \in 0 .. Len(line)
  BY LineIs DEF PosInv
<1>2. ASSUME NEW s \in S, NEW k \in a .. b - 1
      PROVE  Read(s, k) = With(s, << At(k) >>) /\ Read(s, k) \in S
  <2>1. k \in 1 .. Len(line) /\ k \in a .. Len(line) + 1 /\ \A j \in a .. k - 1 : j \in a .. b - 1
    BY <1>1
  <2>2. OpenQuote[k] = OpenQuote[a]
    <3>1. \A j \in a .. k - 1 : At(j) # OpenQuote[a]
      BY <2>1
    <3> QED
      BY <2>1, <3>1, QuoteStays
  <2>3. At(k) \in STRING /\ s \in State /\ s.open /\ s.double = End
    BY <2>1, LineIs DEF PosInv
  <2>4. Read(s, k) = [s EXCEPT !.text = Append(@, At(k))]
    BY <2>1, <2>2, ReadIs DEF PosInv
  <2> DEFINE c == At(k)
  <2> HIDE DEF c
  <2>5. [s EXCEPT !.text = Append(@, c)] = With(s, << c >>)
    BY <2>3, OneMore DEF c
  <2>6. With(s, << c >>) \in S
    <3>1. << c >> \in Text
      BY <2>3, Short DEF c
    <3> QED
      BY <2>3, <3>1, WithIs
  <2> QED
    BY <2>4, <2>5, <2>6 DEF c
<1>3. Reading[a - 1] \in S
  BY <1>1, ReadingIs DEF PosInv
<1>4. S \in SUBSET State
  OBVIOUS
<1> HIDE DEF S
<1> QED
  BY <1>2, <1>3, <1>4, PartRead

-----------------------------------------------------------------------------
(* The reading of a list of tokens *)

\* The tokens of a line without variables, and and &.
PlainTokens ==
  {t \in [value : Text, type : TextType \cup FileType \cup {"heredoc", "pipe"}, consecutive : BOOLEAN] :
     /\ NoDollar(t.value)
     /\ t.type \in TextType => t.value # <<>>
     /\ t.type \notin TextType => ~t.consecutive}

\* A text goes to the word that is open; it ends the word unless it is joined
\* to what follows.
Take(s, t) ==
  IF t.type \notin TextType THEN [s EXCEPT !.lexemes = Append(@, Lexeme(t.type, <<>>))]
  ELSE IF t.consecutive THEN With(s, t.value) ELSE Ended(With(s, t.value))

\* g[i] is what the first i tokens amount to; to a text that is joined to what
\* follows comes a text.
Taking(ts, g) ==
  /\ g \in [0 .. Len(ts) -> State] /\ g[0] = Nothing
  /\ \A i \in 1 .. Len(ts) : /\ g[i] = Take(g[i - 1], ts[i])
                             /\ g[i - 1].open => ts[i].type \in TextType

Reads(ts, r) == ts \in Seq(PlainTokens) /\ \E g : Taking(ts, g) /\ g[Len(ts)] = r

LEMMA PlainTokenIs ==
  ASSUME NEW t \in PlainTokens
  PROVE  /\ t.value \in Text /\ t.consecutive \in BOOLEAN /\ NoDollar(t.value)
         /\ t.type \in TextType \cup FileType \cup {"heredoc", "pipe"}
         /\ t.type \in TextType => t.value # <<>>
         /\ t.type \notin TextType => ~t.consecutive
BY DEF PlainTokens

LEMMA TakeIs ==
  ASSUME NEW s \in State, NEW t \in PlainTokens
  PROVE  /\ Take(s, t) \in State
         /\ t.type \in TextType /\ t.consecutive => Take(s, t) = With(s, t.value) /\ Take(s, t).open
         /\ t.type \in TextType /\ ~t.consecutive =>
              /\ Take(s, t) = Ended(With(s, t.value)) /\ ~Take(s, t).open
              /\ Take(s, t).lexemes = Append(s.lexemes, Lexeme("word", s.text \o t.value))
         /\ t.type \notin TextType =>
              /\ Take(s, t).open = s.open /\ Take(s, t).text = s.text /\ Take(s, t).double = s.double
              /\ Take(s, t).lexemes = Append(s.lexemes, Lexeme(t.type, <<>>))
<1> DEFINE w == With(s, t.value)  e == Ended(w)  ls == Append(s.lexemes, Lexeme(t.type, <<>>))
           o == [s EXCEPT !.lexemes = ls]
<1>1. /\ t.value \in Text /\ t.consecutive \in BOOLEAN
      /\ t.type \in TextType \cup FileType \cup {"heredoc", "pipe"}
  BY PlainTokenIs
<1>2. w \in State /\ w.open /\ w.text = s.text \o t.value /\ w.lexemes = s.lexemes
  BY <1>1, WithIs
<1>3. Take(s, t) = IF t.type \notin TextType THEN o ELSE IF t.consecutive THEN w ELSE e
  BY DEF Take
<1>4. t.type \notin TextType =>
        /\ o \in State /\ o.open = s.open /\ o.text = s.text /\ o.double = s.double
        /\ o.lexemes = ls
  <2> SUFFICES ASSUME t.type \notin TextType
               PROVE  /\ o \in State /\ o.open = s.open /\ o.text = s.text /\ o.double = s.double
                      /\ o.lexemes = ls
    OBVIOUS
  <2>1. Lexeme(t.type, <<>>) \in LexemeSet
    BY <1>1, Short DEF Lexeme, LexemeSet, FileType
  <2>2. ls \in Seq(LexemeSet)
    BY <2>1, AppendProperties DEF State
  <2> HIDE DEF ls
  <2> QED
    BY <2>2 DEF State
<1> HIDE DEF w
<1>5. e \in State /\ ~e.open /\ e.lexemes = Append(w.lexemes, Lexeme("word", w.text))
  BY <1>2, EndedIs
<1> HIDE DEF e, o
<1>6. CASE t.type \notin TextType
  BY <1>3, <1>4, <1>6
<1>7. CASE t.type \in TextType /\ t.consecutive
  BY <1>2, <1>3, <1>7 DEF w
<1>8. CASE t.type \in TextType /\ ~t.consecutive
  <2>1. Take(s, t) = e
    BY <1>3, <1>8
  <2>2. Take(s, t).lexemes = Append(s.lexemes, Lexeme("word", s.text \o t.value))
    BY <1>2, <1>5, <2>1
  <2> QED
    BY <1>5, <1>8, <2>1, <2>2 DEF e, w
<1> QED
  BY <1>1, <1>6, <1>7, <1>8

LEMMA ReadsIs ==
  ASSUME NEW ts, NEW r, Reads(ts, r)
  PROVE  /\ ts \in Seq(PlainTokens) /\ Len(ts) \in Nat /\ DOMAIN ts = 1 .. Len(ts) /\ r \in State
         /\ \A i \in 1 .. Len(ts) : ts[i] \in PlainTokens
<1>1. ts \in Seq(PlainTokens)
  BY DEF Reads
<1>2. /\ Len(ts) \in Nat /\ DOMAIN ts = 1 .. Len(ts)
      /\ \A i \in 1 .. Len(ts) : ts[i] \in PlainTokens
  BY <1>1, LenProperties, ElementOfSeq
<1>3. PICK g : Taking(ts, g) /\ g[Len(ts)] = r
  BY DEF Reads
<1>4. r \in State
  BY <1>2, <1>3 DEF Taking
<1> QED
  BY <1>1, <1>2, <1>4

LEMMA NothingReads == Reads(<<>>, Nothing)
<1> DEFINE s == <<>>  g == [i \in 0 .. 0 |-> Nothing]
<1>1. s \in Seq(PlainTokens) /\ Len(s) = 0
  BY EmptySeq
<1> HIDE DEF s
<1>2. g \in [0 .. Len(s) -> State] /\ g[0] = Nothing
  BY <1>1, NothingIs
<1> HIDE DEF g
<1>3. Taking(s, g) /\ g[Len(s)] = Nothing
  BY <1>1, <1>2 DEF Taking
<1>4. Reads(s, Nothing)
  BY <1>1, <1>3 DEF Reads
<1> QED
  BY <1>4 DEF s

LEMMA AppendedReads ==
  ASSUME NEW s, NEW r, Reads(s, r), NEW t \in PlainTokens, r.open => t.type \in TextType
  PROVE  Reads(Append(s, t), Take(r, t))
<1> DEFINE q == Append(s, t)  l == Len(s)  v == Take(r, t)
<1>1. s \in Seq(PlainTokens) /\ l \in Nat /\ r \in State
  BY ReadsIs
<1>2. q \in Seq(PlainTokens) /\ Len(q) = l + 1 /\ (\A i \in 1 .. l : q[i] = s[i]) /\ q[l + 1] = t
  BY <1>1, AppendProperties
<1>3. v \in State
  BY <1>1, TakeIs
<1>4. PICK f : Taking(s, f) /\ f[l] = r
  BY DEF Reads
<1> DEFINE g == [i \in 0 .. l + 1 |-> IF i <= l THEN f[i] ELSE v]
<1>5. /\ f \in [0 .. l -> State] /\ f[0] = Nothing
      /\ \A i \in 1 .. l : f[i] = Take(f[i - 1], s[i]) /\ (f[i - 1].open => s[i].type \in TextType)
  BY <1>4 DEF Taking
<1> HIDE DEF q, l, v
<1>6. g \in [0 .. l + 1 -> State] /\ g[0] = Nothing /\ g[l + 1] = v /\ \A i \in 0 .. l : g[i] = f[i]
  BY <1>1, <1>3, <1>5
<1> HIDE DEF g
<1>7. ASSUME NEW i \in 1 .. l + 1
      PROVE  g[i] = Take(g[i - 1], q[i]) /\ (g[i - 1].open => q[i].type \in TextType)
  <2>1. CASE i \in 1 .. l
    <3>1. i - 1 \in 0 .. l /\ i \in 0 .. l /\ i \in 1 .. l
      BY <1>1, <2>1
    <3> QED
      BY <1>2, <1>5, <1>6, <3>1
  <2>2. CASE i = l + 1
    <3>1. i - 1 = l /\ l \in 0 .. l
      BY <1>1, <2>2
    <3> QED
      BY <1>2, <1>4, <1>6, <2>2, <3>1 DEF v
  <2> QED
    BY <1>1, <2>1, <2>2
<1>8. Taking(q, g) /\ g[Len(q)] = v
  BY <1>2, <1>6, <1>7 DEF Taking
<1>9. Reads(q, v)
  BY <1>2, <1>8 DEF Reads
<1> QED
  BY <1>9 DEF q, v

LEMMA MergedTake ==
  ASSUME NEW s \in State, NEW t \in PlainTokens, NEW u \in PlainTokens, NEW m \in PlainTokens,
         t.type \in TextType, t.consecutive, u.type \in TextType, m.type \in TextType,
         m.value = t.value \o u.value, m.consecutive = u.consecutive
  PROVE  Take(Take(s, t), u) = Take(s, m)
<1>1. t.value \in Text /\ u.value \in Text /\ m.value \in Text /\ u.consecutive \in BOOLEAN
  BY PlainTokenIs
<1>2. Take(s, t) = With(s, t.value) /\ Take(s, t) \in State
  BY TakeIs
<1>3. With(With(s, t.value), u.value) = With(s, m.value)
  BY <1>1, WithMore
<1> DEFINE a == Take(s, t)
<1> HIDE DEF a
<1>4. With(a, u.value) = With(s, m.value) /\ a \in State
  BY <1>2, <1>3 DEF a
<1>5. CASE u.consecutive
  <2>1. Take(a, u) = With(a, u.value)
    BY <1>4, <1>5, TakeIs
  <2>2. Take(s, m) = With(s, m.value)
    BY <1>5, TakeIs
  <2> QED
    BY <1>4, <2>1, <2>2 DEF a
<1>6. CASE ~u.consecutive
  <2>1. Take(a, u) = Ended(With(a, u.value))
    BY <1>4, <1>6, TakeIs
  <2>2. Take(s, m) = Ended(With(s, m.value))
    BY <1>6, TakeIs
  <2> QED
    BY <1>4, <2>1, <2>2 DEF a
<1> QED
  BY <1>5, <1>6

\* Two tokens that are joined read as the one they become.
LEMMA JoinedReads ==
  ASSUME NEW s, NEW r, Reads(s, r), NEW k \in 1 .. Len(s) - 1,
         s[k].consecutive, NEW q, NEW m, Len(q) = Len(s) - 1, q[k] = m,
         \A i \in 1 .. Len(s) - 1 : /\ i < k => q[i] = s[i]
                                    /\ i > k => q[i] = s[i + 1],
         q \in [1 .. Len(s) - 1 -> {s[i] : i \in 1 .. Len(s)} \cup {m}],
         m = Merged(s[k], s[k + 1])
  PROVE  Reads(q, r) /\ m \in PlainTokens
<1> DEFINE l == Len(s)
<1>1. s \in Seq(PlainTokens) /\ l \in Nat /\ r \in State /\ \A i \in 1 .. l : s[i] \in PlainTokens
  BY ReadsIs
<1>2. PICK f : Taking(s, f) /\ f[l] = r
  BY DEF Reads
<1>3. /\ f \in [0 .. l -> State] /\ f[0] = Nothing
      /\ \A i \in 1 .. l : f[i] = Take(f[i - 1], s[i]) /\ (f[i - 1].open => s[i].type \in TextType)
  BY <1>2 DEF Taking
<1> HIDE DEF l
<1>4. k \in 1 .. l - 1 /\ Len(q) = l - 1 /\ k \in 1 .. l /\ k + 1 \in 1 .. l /\ k - 1 \in 0 .. l /\ k \in 0 .. l
      /\ k + 1 - 1 = k
  BY <1>1 DEF l
<1> DEFINE t == s[k]  u == s[k + 1]
<1>5. /\ t \in PlainTokens /\ u \in PlainTokens /\ t.consecutive /\ t.type \in TextType
      /\ f[k] = Take(f[k - 1], t) /\ f[k + 1] = Take(f[k], u)
      /\ f[k - 1] \in State
  BY <1>1, <1>3, <1>4, PlainTokenIs
<1>6. u.type \in TextType
  <2>1. f[k].open
    <3> HIDE DEF t, u
    <3> QED
      BY <1>5, TakeIs
  <2> QED
    BY <1>3, <1>4, <2>1
<1>7. m \in PlainTokens /\ m.type = t.type /\ m.value = t.value \o u.value /\ m.consecutive = u.consecutive
  <2> DEFINE w == t.value \o u.value
  <2>1. t.value \in Text /\ u.value \in Text /\ t.value # <<>> /\ NoDollar(t.value) /\ NoDollar(u.value)
        /\ u.consecutive \in BOOLEAN
    <3> HIDE DEF t, u
    <3> QED
      BY <1>5, <1>6, PlainTokenIs
  <2>2. w \in Text /\ NoDollar(w)
    BY <2>1, NoDollarJoined
  <2>3. w # <<>>
    <3>1. t.value \in Seq(STRING) /\ u.value \in Seq(STRING)
      BY <2>1 DEF Text
    <3> HIDE DEF t, u
    <3> QED
      BY <2>1, <3>1, ConcatEqualIffEmpty
  <2>4. m = [t EXCEPT !.value = w, !.consecutive = u.consecutive]
    BY DEF Merged
  <2> HIDE DEF w, t, u
  <2>5. m \in PlainTokens /\ m.type = t.type /\ m.value = w /\ m.consecutive = u.consecutive
    BY <1>5, <2>1, <2>2, <2>3, <2>4 DEF PlainTokens
  <2> QED
    BY <2>5 DEF w
<1>8. f[k + 1] = Take(f[k - 1], m)
  <2> DEFINE a == f[k - 1]
  <2> HIDE DEF t, u, a
  <2>1. Take(Take(a, t), u) = Take(a, m)
    BY <1>5, <1>6, <1>7, MergedTake DEF a
  <2> QED
    BY <1>5, <2>1 DEF a
<1> HIDE DEF t, u
<1> DEFINE g == [i \in 0 .. l - 1 |-> IF i < k THEN f[i] ELSE f[i + 1]]
<1>9. /\ g \in [0 .. l - 1 -> State]
      /\ \A i \in 0 .. l - 1 : /\ i < k => g[i] = f[i]
                               /\ i >= k => g[i] = f[i + 1]
  <2>1. \A i \in 0 .. l - 1 : i \in 0 .. l /\ i + 1 \in 0 .. l
    BY ONLY <1>1
  <2>2. \A i \in 0 .. l - 1 : f[i] \in State /\ f[i + 1] \in State
    BY ONLY <1>3, <2>1
  <2>3. g \in [0 .. l - 1 -> State]
    BY ONLY <2>2
  <2>4. \A i \in 0 .. l - 1 : i >= k => ~(i < k)
    BY ONLY <1>4
  <2>5. \A i \in 0 .. l - 1 : /\ i < k => g[i] = f[i]
                              /\ i >= k => g[i] = f[i + 1]
    BY ONLY <2>4
  <2> QED
    BY <2>3, <2>5
<1> HIDE DEF g
<1>10. ASSUME NEW i \in 1 .. l - 1
       PROVE  /\ g[i] = Take(g[i - 1], q[i]) /\ (g[i - 1].open => q[i].type \in TextType)
              /\ q[i] \in PlainTokens
  <2>1. i \in 0 .. l - 1 /\ i - 1 \in 0 .. l - 1 /\ i \in 1 .. l /\ i + 1 \in 1 .. l
    BY <1>1
  <2>2. i \in 1 .. Len(s) - 1
    BY DEF l
  <2>3. CASE i < k
    <3>1. q[i] = s[i] /\ g[i] = f[i] /\ g[i - 1] = f[i - 1]
      BY <1>4, <1>9, <2>1, <2>2, <2>3
    <3> QED
      BY <1>1, <1>3, <2>1, <3>1
  <2>4. CASE i = k
    <3>1. g[i] = f[k + 1] /\ g[i - 1] = f[k - 1] /\ q[i] = m
      BY <1>4, <1>9, <2>1, <2>4
    <3> QED
      BY <1>5, <1>7, <1>8, <3>1
  <2>5. CASE i > k
    <3>1. q[i] = s[i + 1] /\ g[i] = f[i + 1] /\ g[i - 1] = f[i - 1 + 1] /\ i - 1 + 1 = i
      BY <1>4, <1>9, <2>1, <2>2, <2>5
    <3>2. f[i + 1] = Take(f[i + 1 - 1], s[i + 1]) /\ i + 1 - 1 = i
          /\ (f[i + 1 - 1].open => s[i + 1].type \in TextType)
      BY <1>3, <2>1
    <3> QED
      BY <1>1, <2>1, <3>1, <3>2
  <2>6. i < k \/ i = k \/ i > k
    BY <1>4
  <2> QED
    BY <2>3, <2>4, <2>5, <2>6
<1>11. g[0] = Nothing /\ g[l - 1] = r
  <2>1. 0 \in 0 .. l - 1 /\ 0 < k /\ l - 1 \in 0 .. l - 1 /\ l - 1 >= k /\ l - 1 + 1 = l
    BY <1>1, <1>4
  <2> QED
    BY <1>2, <1>3, <1>9, <2>1
<1>12. q \in Seq(PlainTokens)
  <2>1. q \in [1 .. l - 1 -> PlainTokens] /\ l - 1 \in Nat
    BY <1>1, <1>4, <1>10 DEF l
  <2> QED
    BY <2>1
<1>13. Taking(q, g) /\ g[Len(q)] = r
  BY <1>4, <1>9, <1>10, <1>11 DEF Taking
<1> QED
  BY <1>7, <1>12, <1>13 DEF Reads

-----------------------------------------------------------------------------
(* The lexer and the reading of the line *)

Stops == Blanks \cup Operators \cup {End}

\* The tokens so far amount to what has been read before p: a word is open in
\* both, or the lexer has ended one that the next character ends.  An operator
\* that the next character may double is none that it doubles.
Agree(r, p) ==
  LET s == Reading[p - 1]
  IN \/ /\ r.open /\ r = s /\ At(p) \notin Stops
     \/ /\ ~r.open /\ r = Ended(s)
        /\ s.open => At(p) \in Stops
        /\ ~s.open => s.text = <<>>
        /\ At(p) \in Operators => At(p) # s.double

LEMMA PlainIs ==
  ASSUME PosInv, Plain
  PROVE  /\ NoVariables
         /\ \A i \in 1 .. Len(line) :
              /\ At(i) # "$" /\ At(i) # "&"
              /\ OpenQuote[i] = NoQuote /\ At(i) \in Quotes => At(i + 1) # At(i)
              /\ OpenQuote[i] # NoQuote /\ At(i) = OpenQuote[i] => At(i + 1) \notin Operators
              /\ OpenQuote[i] = NoQuote /\ At(i) \in Redirects /\ At(i + 1) \notin Operators
                   /\ FileEnd(i + 1) > i + 1 => At(FileEnd(i + 1)) \notin Quotes
              /\ OpenQuote[i] = NoQuote /\ At(i) \in Quotes /\ i > 1 /\ OpenQuote[i - 1] = NoQuote
                   /\ At(i - 1) \notin Blanks \cup Operators =>
                 ~(At(i + 1) \in Quotes /\ At(i + 2) \in Blanks)
<1>1. /\ Len(line) \in Nat /\ DOMAIN line = 1 .. Len(line)
      /\ \A i \in 1 .. Len(line) : At(i) = line[i]
  BY LineIs DEF PosInv
<1>2. ~Beyond /\ ~EmptyQuotes /\ ~QuotedOperator /\ ~GluedFile /\ ~QuotesAndBlank
  BY DEF Plain
<1>3. \A i \in 1 .. Len(line) : At(i) # "$" /\ At(i) # "&"
  BY <1>1, <1>2 DEF Beyond
<1>4. NoVariables
  BY <1>1, <1>3 DEF NoVariables, NoDollar
<1>5. ASSUME NEW i \in 1 .. Len(line), OpenQuote[i] = NoQuote, At(i) \in Quotes
      PROVE  At(i + 1) # At(i)
  BY <1>1, <1>2, <1>5 DEF EmptyQuotes, Unquoted
<1>6. ASSUME NEW i \in 1 .. Len(line), OpenQuote[i] # NoQuote, At(i) = OpenQuote[i]
      PROVE  At(i + 1) \notin Operators
  BY <1>1, <1>2, <1>6 DEF QuotedOperator, Closes
<1>7. ASSUME NEW i \in 1 .. Len(line), OpenQuote[i] = NoQuote, At(i) \in Redirects,
             At(i + 1) \notin Operators, FileEnd(i + 1) > i + 1
      PROVE  At(FileEnd(i + 1)) \notin Quotes
  BY <1>1, <1>2, <1>7 DEF GluedFile, Unquoted
<1>8. ASSUME NEW i \in 1 .. Len(line), OpenQuote[i] = NoQuote, At(i) \in Quotes, i > 1,
             OpenQuote[i - 1] = NoQuote, At(i - 1) \notin Blanks \cup Operators,
             At(i + 1) \in Quotes, At(i + 2) \in Blanks
      PROVE  FALSE
  <2>1. i - 1 \in 1 .. Len(line)
    BY <1>1, <1>8
  <2>2. i \in Unquoted(Quotes) /\ ~Closes(i - 1) /\ line[i - 1] \notin Blanks \cup Operators
    BY <1>1, <1>8, <2>1 DEF Unquoted, Closes
  <2> QED
    BY <1>2, <1>8, <2>2 DEF QuotesAndBlank
<1> QED
  BY <1>3, <1>4, <1>5, <1>6, <1>7, <1>8

\* Only blanks are passed before a token.
LEMMA PlainStart ==
  ASSUME PosInv, Plain, OpenQuote[pos] = NoQuote
  PROVE  /\ Start \in pos .. Len(line) + 1 /\ Start \in 1 .. Len(line) + 1 /\ pos \in 1 .. Len(line) + 1
         /\ At(Start) \notin Blanks /\ OpenQuote[Start] = NoQuote
         /\ \A k \in pos .. Start - 1 : At(k) \in Blanks
<1> DEFINE b == PastBlanks(pos)
<1>1. Len(line) \in Nat /\ pos \in 1 .. Len(line) + 1 /\ pos \in Nat
  BY LineIs DEF PosInv
<1>2. b \in pos .. Len(line) + 1 /\ At(b) \notin Blanks /\ \A k \in pos .. b - 1 : At(k) \in Blanks
  BY <1>1, PastBlanksIs DEF PosInv
<1> HIDE DEF b
<1>3. OpenQuote[b] = NoQuote
  <2>1. \A k \in pos .. b - 1 : At(k) \notin Quotes
    BY <1>2 DEF Blanks, Quotes
  <2> QED
    BY <1>1, <1>2, <2>1, QuoteStays
<1>4. ~(At(b) \in Quotes /\ At(b) = At(b + 1))
  <2> SUFFICES ASSUME At(b) \in Quotes, At(b) = At(b + 1) PROVE FALSE
    OBVIOUS
  <2>1. At(b) # End
    BY DEF Quotes, End
  <2>2. b \in 1 .. Len(line)
    BY <1>1, <1>2, <2>1, InLine DEF PosInv
  <2> QED
    BY <1>3, <2>2, PlainIs
<1>5. Start = b
  BY <1>4 DEF Start, PastEmptyQuotes, b
<1> QED
  BY <1>1, <1>2, <1>3, <1>5

LEMMA StartAgrees ==
  ASSUME PosInv, Plain, OpenQuote[pos] = NoQuote, NEW r \in State, Agree(r, pos)
  PROVE  Agree(r, Start)
<1> DEFINE b == Start  s == Reading[pos - 1]  e == Reading[b - 1]
<1>1. /\ b \in pos .. Len(line) + 1 /\ b \in 1 .. Len(line) + 1 /\ pos \in 1 .. Len(line) + 1
      /\ At(b) \notin Blanks /\ OpenQuote[b] = NoQuote
      /\ \A k \in pos .. b - 1 : At(k) \in Blanks
  BY PlainStart
<1>2. Len(line) \in Nat
  BY LineIs DEF PosInv
<1> HIDE DEF b
<1>3. CASE b = pos
  BY <1>3 DEF b
<1>4. CASE b # pos
  <2>1. pos < b /\ pos \in pos .. b - 1 /\ pos - 1 \in 0 .. Len(line)
    BY <1>1, <1>2, <1>4
  <2>2. At(pos) \in Blanks /\ s \in State
    BY <1>1, <2>1, ReadingIs DEF PosInv
  <2>3. ~r.open /\ r = Ended(s)
    BY <2>2 DEF Agree, Stops
  <2>4. e = Ended(s)
    BY <1>1, <2>1, BlanksRead
  <2>5. ~e.open /\ e.text = <<>> /\ e.double = End /\ Ended(e) = e
    BY <2>2, <2>4, EndedIs
  <2>6. End \notin Operators
    BY DEF End, Operators, Redirects
  <2>7. Agree(r, b)
    <3> HIDE DEF s
    <3> QED
      BY <2>3, <2>4, <2>5, <2>6 DEF Agree
  <2> QED
    BY <2>7 DEF b
<1> QED
  BY <1>3, <1>4

LEMMA OpenedWith ==
  ASSUME NEW s \in State
  PROVE  Opened(s) = With(s, <<>>)
<1>1. <<>> \in Text /\ s.text \in Seq(STRING)
  BY Short DEF State, Text
<1>2. s.text \o <<>> = s.text
  BY <1>1, ConcatEmptySeq
<1>3. /\ With(s, <<>>) \in State /\ With(s, <<>>).open /\ With(s, <<>>).text = s.text \o <<>>
      /\ With(s, <<>>).double = End /\ With(s, <<>>).lexemes = s.lexemes
  BY <1>1, WithIs
<1>4. /\ Opened(s) \in State /\ Opened(s).open /\ Opened(s).text = s.text
      /\ Opened(s).double = End /\ Opened(s).lexemes = s.lexemes
  BY OpenedIs
<1> DEFINE a == Opened(s)  b == With(s, <<>>)
<1> HIDE DEF a, b
<1>5. a \in State /\ b \in State /\ a.open = b.open /\ a.text = b.text /\ a.double = b.double
      /\ a.lexemes = b.lexemes
  <2>1. a \in State /\ b \in State /\ a.open /\ b.open
    BY <1>3, <1>4 DEF a, b
  <2>2. a.open = b.open
    BY <2>1 DEF State
  <2> QED
    BY <1>2, <1>3, <1>4, <2>1, <2>2 DEF a, b
<1>6. a = b
  BY <1>5, SameState
<1> QED
  BY <1>6 DEF a, b

\* Where a text goes on or begins, it goes to the same word in both.
LEMMA SameWord ==
  ASSUME PosInv, NEW r \in State, NEW p \in 1 .. Len(line) + 1, Agree(r, p), At(p) \notin Stops,
         NEW v \in Text
  PROVE  With(Reading[p - 1], v) = With(r, v)
<1> DEFINE s == Reading[p - 1]  a == With(s, v)  b == With(r, v)
<1>1. s \in State
  <2>1. p - 1 \in 0 .. Len(line)
    BY LineIs DEF PosInv
  <2> QED
    BY <2>1, ReadingIs DEF PosInv
<1>2. r = s \/ (~s.open /\ s.text = <<>> /\ r = Ended(s))
  BY DEF Agree
<1> HIDE DEF s
<1>3. CASE r = s
  BY <1>3 DEF s
<1>4. CASE ~s.open /\ s.text = <<>> /\ r = Ended(s)
  <2>1. r.text = <<>> /\ r.lexemes = s.lexemes
    BY <1>1, <1>4, EndedIs
  <2>2. /\ a \in State /\ a.open /\ a.text = s.text \o v /\ a.double = End /\ a.lexemes = s.lexemes
        /\ b \in State /\ b.open /\ b.text = r.text \o v /\ b.double = End /\ b.lexemes = r.lexemes
    BY <1>1, WithIs
  <2> HIDE DEF a, b
  <2>3. a.open = b.open
    BY <2>2 DEF State
  <2>4. a.text = b.text
    BY <1>4, <2>1, <2>2
  <2>5. a = b
    BY <2>1, <2>2, <2>3, <2>4, SameState
  <2> QED
    BY <2>5 DEF a, b, s
<1> QED
  BY <1>2, <1>3, <1>4

LEMMA TextAgrees ==
  ASSUME PosInv, NEW r \in State, NEW t \in PlainTokens, t.type \in TextType,
         NEW p \in 1 .. Len(line) + 1, Reading[p - 1] = With(r, t.value),
         t.consecutive <=> At(p) \notin Stops
  PROVE  Agree(Take(r, t), p)
<1> DEFINE s == Reading[p - 1]  u == Take(r, t)
<1>1. t.value \in Text
  BY PlainTokenIs
<1>2. s = With(r, t.value) /\ s.open /\ s.double = End
  BY <1>1, WithIs
<1>3. End \notin Operators
  BY DEF End, Operators, Redirects
<1>4. CASE t.consecutive
  <2>1. u = With(r, t.value) /\ u.open
    BY <1>4, TakeIs
  <2> HIDE DEF u
  <2>2. Agree(u, p)
    BY <1>2, <1>4, <2>1 DEF Agree
  <2> QED
    BY <2>2 DEF u
<1>5. CASE ~t.consecutive
  <2>1. u = Ended(With(r, t.value)) /\ ~u.open
    BY <1>5, TakeIs
  <2> HIDE DEF u
  <2>2. u = Ended(s) /\ At(p) \in Stops /\ (At(p) \in Operators => At(p) # s.double)
    BY <1>2, <1>3, <1>5, <2>1
  <2> HIDE DEF s
  <2>3. Agree(u, p)
    BY <1>2, <2>1, <2>2 DEF Agree, s
  <2> QED
    BY <2>3 DEF u
<1> QED
  BY <1>4, <1>5

\* A part of a line without variables is the value of a text, and one without
\* letters that of an operator.
LEMMA PieceIsPlain ==
  ASSUME PosInv, NoVariables, NEW a \in 1 .. Len(line) + 1, NEW b \in a .. Len(line) + 1, a < b,
         NEW type \in TextType \cup FileType \cup {"heredoc", "pipe"}, NEW c \in BOOLEAN,
         type \in TextType \/ (~c /\ \A k \in a .. b - 1 : At(k) \in Operators)
  PROVE  LET t == Token(Piece(a, b), type, c)
         IN  t \in PlainTokens /\ t.value = Piece(a, b) /\ t.type = type /\ t.consecutive = c
<1> DEFINE v == Piece(a, b)  t == Token(v, type, c)
<1>1. v \in Text /\ Len(v) = b - a /\ b - a > 0
  BY PieceIs, LineIs DEF PosInv
<1>2. v # <<>>
  BY <1>1
<1>3. type \in TokenType
  BY DEF TokenType, TextType, FileType
<1>4. t \in TextToken /\ Sound(t) /\ t.value = v
  BY <1>3, PieceSound
<1> HIDE DEF v
<1>5. t.type = type /\ t.consecutive = c
  BY DEF Token
<1>6. t = [value |-> v, type |-> type, consecutive |-> c]
  BY DEF Token
<1>7. NoDollar(v)
  <2> HIDE DEF t
  <2> QED
    BY <1>4 DEF Sound
<1>8. type \notin TextType => ~c
  OBVIOUS
<1>9. v \in Text
  BY <1>1
<1> HIDE DEF t
<1>10. t \in PlainTokens
  BY <1>2, <1>6, <1>7, <1>8, <1>9 DEF PlainTokens
<1> QED
  BY <1>4, <1>5, <1>10 DEF v, t

\* A word, as the lexer and the reading go on from the same place.
LEMMA WordAgrees ==
  ASSUME PosInv, Plain, NEW ts, NEW r, Reads(ts, r),
         NEW a \in 1 .. Len(line) + 1, NEW b \in a .. Len(line) + 1, a < b,
         OpenQuote[a] = NoQuote, Agree(r, a),
         \A k \in a .. b - 1 : At(k) \notin Quotes \cup Blanks \cup Operators,
         NEW c \in BOOLEAN, c <=> At(b) \notin Stops
  PROVE  \E q : Reads(Append(ts, Token(Piece(a, b), "word", c)), q) /\ Agree(q, b)
<1> DEFINE t == Token(Piece(a, b), "word", c)
<1>1. /\ Len(line) \in Nat /\ a \in a .. b - 1 /\ a \in 1 .. Len(line) /\ b \in 1 .. Len(line) + 1
  BY LineIs DEF PosInv
<1>2. r \in State
  BY ReadsIs
<1>3. t \in PlainTokens /\ t.value = Piece(a, b) /\ t.type = "word" /\ t.consecutive = c
  <2>1. "word" \in TextType
    BY DEF TextType
  <2> QED
    BY <2>1, PieceIsPlain, PlainIs
<1> HIDE DEF t
<1>4. t.type \in TextType
  BY <1>3 DEF TextType
<1>5. Reads(Append(ts, t), Take(r, t))
  BY <1>2, <1>3, <1>4, AppendedReads
<1>6. At(a) \notin Stops
  <2>1. At(a) # End
    BY <1>1, LineIs DEF PosInv
  <2> QED
    BY <1>1, <2>1 DEF Stops
<1>7. Piece(a, b) \in Text
  BY PieceIs
<1>8. Reading[b - 1] = With(r, t.value)
  <2>1. Reading[b - 1] = With(Reading[a - 1], Piece(a, b))
    BY WordRead
  <2>2. With(Reading[a - 1], Piece(a, b)) = With(r, Piece(a, b))
    BY <1>2, <1>6, <1>7, SameWord
  <2> QED
    BY <1>3, <2>1, <2>2
<1>9. Agree(Take(r, t), b)
  BY <1>1, <1>2, <1>3, <1>4, <1>8, TextAgrees
<1> QED
  BY <1>5, <1>9 DEF t

LEMMA WordReads ==
  ASSUME PosInv, Plain, OpenQuote[pos] = NoQuote, NEW r, Reads(tokens, r), Agree(r, pos), Word
  PROVE  \E q : Reads(tokens', q) /\ Agree(q, pos')
<1> DEFINE a == Start  stops == Blanks \cup Operators \cup Quotes  b == StopAt(a, stops)
           t == Token(Piece(a, b), "word", JoinsWord(b))
<1>1. pos' = b /\ tokens' = IF b = a THEN tokens ELSE Append(tokens, t)
  BY DEF Word, Piece
<1>2. At(a) \notin Operators \cup Quotes
  BY DEF Word
<1>3. /\ a \in 1 .. Len(line) + 1 /\ OpenQuote[a] = NoQuote /\ Len(line) \in Nat
  BY PlainStart, LineIs DEF PosInv
<1>4. r \in State
  BY ReadsIs
<1>5. Agree(r, a)
  BY <1>4, StartAgrees
<1> HIDE DEF a
<1>6. /\ b \in a .. Len(line) + 1 /\ At(b) \in stops \cup {End}
      /\ \A k \in a .. b - 1 : At(k) \notin stops
  BY <1>3, StopAtIs DEF PosInv
<1> HIDE DEF b
<1>7. CASE b = a
  BY <1>1, <1>5, <1>7
<1>8. CASE b # a
  <2>1. a < b /\ b - 1 \in a .. b - 1 /\ b - 1 \in 1 .. Len(line) + 1 /\ b > 1 /\ b \in 1 .. Len(line) + 1
        /\ b - 1 \in a .. Len(line) + 1 /\ b - 1 \in 1 .. Len(line)
    BY <1>3, <1>6, <1>8
  <2> DEFINE c == b - 1
  <2>2. OpenQuote[c] = NoQuote /\ OpenQuote[b] = NoQuote
    <3>1. /\ \A k \in a .. b - 1 : At(k) \notin Quotes
          /\ \A k \in a .. c - 1 : At(k) \notin Quotes
      <4>1. \A k \in a .. c - 1 : k \in a .. b - 1
        BY <2>1
      <4> QED
        BY <1>6, <4>1
    <3>2. OpenQuote[b] = NoQuote
      BY <1>3, <1>6, <3>1, QuoteStays
    <3>3. c \in a .. Len(line) + 1
      BY <2>1
    <3> HIDE DEF c
    <3>4. OpenQuote[c] = NoQuote
      BY <1>3, <3>1, <3>3, QuoteStays
    <3> QED
      BY <3>2, <3>4
  <2>3. JoinsWord(b) <=> At(b) \notin Stops
    <3>1. At(b) \notin Stops => At(b) \in Quotes /\ At(b) # End
      BY <1>6 DEF Stops
    <3>2. At(b) \notin Stops => b \in 1 .. Len(line)
      BY <2>1, <3>1, InLine DEF PosInv
    <3>3. At(b - 1) \notin Blanks \cup Operators
      BY <1>6, <2>1
    <3>4. At(b) \notin Stops => ~(At(b + 1) \in Quotes /\ At(b + 2) \in Blanks)
      BY <2>1, <2>2, <3>1, <3>2, <3>3, PlainIs
    <3> QED
      BY <3>4 DEF JoinsWord, Stops
  <2>4. JoinsWord(b) \in BOOLEAN
    BY DEF JoinsWord
  <2>5. \E q : Reads(Append(tokens, t), q) /\ Agree(q, b)
    <3>1. \A k \in a .. b - 1 : At(k) \notin Quotes \cup Blanks \cup Operators
      BY <1>6
    <3> QED
      BY <1>3, <1>5, <1>6, <2>1, <2>3, <2>4, <3>1, WordAgrees
  <2> QED
    BY <1>1, <1>8, <2>5
<1> QED
  BY <1>7, <1>8

LEMMA QuotedReads ==
  ASSUME PosInv, Plain, OpenQuote[pos] = NoQuote, NEW r, Reads(tokens, r), Agree(r, pos), Quoted
  PROVE  \E q : Reads(tokens', q) /\ Agree(q, pos')
<1> DEFINE a == Start  i == a + 1  c == ClosedAt(i)
           type == IF At(i - 1) = "'" THEN "single" ELSE "double"
           t == Token(QuotedText(i), type, JoinsQuoted(PastQuoted(i)))
<1>1. At(i - 1) \in Quotes /\ At(c) # End /\ pos' = PastQuoted(i) /\ tokens' = Append(tokens, t)
  BY DEF Quoted
<1>2. /\ a \in 1 .. Len(line) + 1 /\ OpenQuote[a] = NoQuote /\ Len(line) \in Nat
  BY PlainStart, LineIs DEF PosInv
<1>3. r \in State
  BY ReadsIs
<1>4. Agree(r, a)
  BY <1>3, StartAgrees
<1> HIDE DEF a
<1>5. i - 1 = a /\ At(a) # End
  <2>1. i - 1 = a
    BY <1>2
  <2> QED
    BY <1>1, <2>1 DEF Quotes, End
<1>6. a \in 1 .. Len(line) /\ i \in 1 .. Len(line) + 1
  BY <1>2, <1>5, InLine DEF PosInv
<1>7. /\ c \in i .. Len(line) + 1 /\ At(c) \in {At(a)} \cup {End}
      /\ \A k \in i .. c - 1 : At(k) \notin {At(a)}
  BY <1>5, <1>6, StopAtIs DEF ClosedAt, PosInv
<1>8. At(i) # At(a)
  BY <1>1, <1>2, <1>5, <1>6, PlainIs
<1>9. At(c) = At(a) /\ \A k \in i .. c - 1 : At(k) # At(a)
  BY <1>1, <1>7
<1>10. QuotedText(i) = Piece(i, c) /\ PastQuoted(i) = c + 1
  BY <1>5, <1>8 DEF QuotedText, PastQuoted, Piece
<1> HIDE DEF c
<1>11. c \in 1 .. Len(line) /\ i < c /\ c \in i .. Len(line) + 1 /\ c + 1 \in 1 .. Len(line) + 1 /\ a < c
       /\ c + 1 - 1 = c /\ c - 1 \in 1 .. Len(line)
  <2>1. c # i
    BY <1>8, <1>9
  <2>2. c \in 1 .. Len(line)
    <3>1. c \in Int /\ c >= 1
      BY <1>6, <1>7
    <3> QED
      BY <1>1, <3>1, InLine DEF PosInv
  <2> QED
    BY <1>6, <1>7, <2>1, <2>2
<1>12. OpenQuote[i] = At(a) /\ At(a) # NoQuote
  <2>1. At(a) \in Quotes
    BY <1>1, <1>5
  <2> QED
    BY <1>2, <1>6, <2>1, QuoteTurns DEF Quotes, NoQuote
<1> DEFINE v == Piece(i, c)
<1>13. v \in Text
  BY <1>6, <1>11, PieceIs
<1>14. Reading[i - 1] = With(r, <<>>)
  <2>1. Reading[a] = Read(Reading[a - 1], a)
    BY <1>6, ReadSteps DEF PosInv
  <2>2. Reading[a] = Opened(Reading[a - 1])
    BY <1>1, <1>2, <1>5, <1>6, <2>1, ReadIs DEF PosInv
  <2>3. Reading[a - 1] \in State
    <3>1. a - 1 \in 0 .. Len(line)
      BY <1>6
    <3> QED
      BY <3>1, ReadingIs DEF PosInv
  <2>4. Opened(Reading[a - 1]) = With(Reading[a - 1], <<>>)
    BY <2>3, OpenedWith
  <2>5. At(a) \notin Stops
    BY <1>1, <1>5 DEF Stops, Quotes, Blanks, Operators, Redirects, End
  <2>6. With(Reading[a - 1], <<>>) = With(r, <<>>)
    BY <1>2, <1>3, <1>4, <2>5, Short, SameWord
  <2> QED
    BY <1>5, <2>2, <2>4, <2>6
<1>15. Reading[c - 1] = With(With(r, <<>>), v)
  <2>1. Reading[i - 1].open /\ Reading[i - 1].double = End
    BY <1>3, <1>14, Short, WithIs
  <2> HIDE DEF i
  <2>2. OpenQuote[i] # NoQuote /\ \A k \in i .. c - 1 : At(k) # OpenQuote[i]
    BY <1>9, <1>12
  <2>3. Reading[c - 1] = With(Reading[i - 1], Piece(i, c))
    BY <1>6, <1>11, <2>1, <2>2, InsideRead
  <2> QED
    BY <1>14, <2>3
<1>16. OpenQuote[c] = At(a)
  <2> HIDE DEF i
  <2>1. OpenQuote[c] = OpenQuote[i]
    BY <1>6, <1>7, <1>9, <1>12, QuoteStays
  <2> QED
    BY <1>12, <2>1
<1>17. Reading[c] = Reading[c - 1]
  <2>1. Reading[c] = Read(Reading[c - 1], c)
    BY <1>11, ReadSteps DEF PosInv
  <2> QED
    BY <1>9, <1>11, <1>12, <1>16, <2>1, ReadIs DEF PosInv
<1>18. Reading[c + 1 - 1] = With(r, v)
  <2> HIDE DEF v
  <2>1. With(With(r, <<>>), v) = With(r, <<>> \o v)
    BY <1>3, <1>13, Short, WithMore
  <2>2. <<>> \o v = v
    BY <1>13, ConcatEmptySeq DEF Text
  <2> QED
    BY <1>11, <1>15, <1>17, <2>1, <2>2
<1>19. JoinsQuoted(c + 1) <=> At(c + 1) \notin Stops
  <2>1. At(c + 1) \notin Operators
    BY <1>9, <1>11, <1>12, <1>16, PlainIs
  <2> QED
    BY <2>1 DEF JoinsQuoted, Stops
<1>20. JoinsQuoted(c + 1) \in BOOLEAN /\ type \in TextType
  BY DEF JoinsQuoted, TextType
<1> DEFINE j == JoinsQuoted(c + 1)
<1> HIDE DEF j, type
<1>21. t = Token(v, type, j)
  BY <1>10 DEF j
<1>22. t \in PlainTokens /\ t.value = v /\ t.type = type /\ t.consecutive = j
  <2> HIDE DEF i, t
  <2>1. j \in BOOLEAN /\ NoVariables
    BY <1>20, PlainIs DEF j
  <2>2. Token(Piece(i, c), type, j) \in PlainTokens /\ Token(Piece(i, c), type, j).value = Piece(i, c)
        /\ Token(Piece(i, c), type, j).type = type /\ Token(Piece(i, c), type, j).consecutive = j
    BY <1>6, <1>11, <1>20, <2>1, PieceIsPlain
  <2> QED
    BY <1>21, <2>2
<1> HIDE DEF t, v
<1>23. t.type \in TextType
  BY <1>20, <1>22
<1>24. Reads(Append(tokens, t), Take(r, t))
  BY <1>22, <1>23, AppendedReads
<1> DEFINE p == c + 1
<1>25. p \in 1 .. Len(line) + 1 /\ Reading[p - 1] = With(r, t.value) /\ (t.consecutive <=> At(p) \notin Stops)
  BY <1>11, <1>18, <1>19, <1>22 DEF j
<1> HIDE DEF p
<1>26. Agree(Take(r, t), p)
  BY <1>3, <1>22, <1>23, <1>25, TextAgrees
<1> QED
  BY <1>1, <1>10, <1>24, <1>26 DEF p

LEMMA EndIs ==
  /\ End \notin Operators /\ End \notin Quotes /\ End \notin Blanks
  /\ \A c \in Operators : c \notin Quotes /\ c \notin Blanks
BY DEF End, Operators, Redirects, Quotes, Blanks

\* What an operator is read as, one character or two.
LEMMA OperatorRead ==
  ASSUME PosInv, Plain, NEW a \in 1 .. Len(line), OpenQuote[a] = NoQuote, At(a) \in Operators,
         NEW r \in State, Agree(r, a), NEW b, b = IF Doubled(a) THEN a + 2 ELSE a + 1
  PROVE  LET s == Reading[b - 1]
         IN  /\ s \in State /\ ~s.open /\ s.text = <<>>
             /\ s.lexemes = Append(r.lexemes, Lexeme(OperatorType(a), <<>>))
             /\ At(b) \in Operators => At(b) # s.double
             /\ ~r.open /\ r.text = <<>> /\ r.double = End
             /\ OperatorType(a) \in FileType \cup {"heredoc", "pipe"}
             /\ b - 1 \in 1 .. Len(line) /\ OpenQuote[b - 1] = NoQuote /\ OpenQuote[b] = NoQuote
             /\ At(b - 1) = At(a)
<1> DEFINE c == At(a)  s0 == Reading[a - 1]  s1 == Reading[a]
           x == Lexeme(Single(c), <<>>)  y == Lexeme(Double(c), <<>>)
<1>1. /\ Len(line) \in Nat /\ a - 1 \in 0 .. Len(line) /\ c \in Characters /\ c # End
      /\ a \in 0 .. Len(line)
  <2>1. c \in STRING /\ c # End
    BY LineIs DEF PosInv
  <2> QED
    BY <2>1, LineIs DEF PosInv, Characters
<1>2. s0 \in State /\ s1 \in State
  BY <1>1, ReadingIs DEF PosInv
<1>3. c \in {"<", ">", "|"}
  BY PlainIs DEF Operators, Redirects
<1>4. c \notin Quotes
  BY EndIs
<1>5. ~r.open /\ r = Ended(s0) /\ c # s0.double
  BY DEF Agree, Stops
<1>6. r.text = <<>> /\ r.double = End /\ r.lexemes \in Seq(LexemeSet)
  <2>1. r.text = <<>> /\ r.double = End
    BY <1>2, <1>5, EndedIs
  <2> QED
    BY <2>1 DEF State
<1>7. OpenQuote[a + 1] = NoQuote
  BY <1>1, <1>4, QuoteSteps DEF PosInv
<1>8. s1 = ReadOperator(s0, c)
  <2>1. Reading[a] = Read(Reading[a - 1], a)
    BY ReadSteps DEF PosInv
  <2> QED
    BY <2>1, ReadIs DEF PosInv
<1> HIDE DEF s0, s1, c
<1>9. /\ ~s1.open /\ s1.text = <<>> /\ s1.double = (IF c = "|" THEN End ELSE c)
      /\ s1.lexemes = Append(r.lexemes, x)
  <2>1. LET q == ReadOperator(s0, c)
            ls == Ended(s0).lexemes
        IN  /\ q \in State /\ ~q.open /\ q.text = <<>>
            /\ c # s0.double => /\ q.double = IF c = "|" THEN End ELSE c
                                /\ q.lexemes = Append(ls, Lexeme(Single(c), <<>>))
    BY <1>1, <1>2, ReadOperatorIs
  <2> HIDE DEF x
  <2> QED
    BY <1>5, <1>8, <2>1 DEF x
<1>10. CASE ~Doubled(a)
  <2>1. b = a + 1 /\ b - 1 = a
    BY <1>1, <1>10
  <2>2. OperatorType(a) = Single(c) /\ OperatorType(a) \in FileType \cup {"heredoc", "pipe"}
    <3>1. OperatorType(a) = CASE c = "|" -> "pipe" [] c = "<" -> "in" [] c = ">" -> "out"
                              [] c = "&" -> "amp"
      BY <1>10 DEF OperatorType, c
    <3> QED
      BY <1>3, <3>1 DEF Single, FileType
  <2>3. c # "|" => At(b) # c
    BY <1>10, <2>1 DEF Doubled, c
  <2>4. At(b) \in Operators => At(b) # s1.double
    BY <1>9, <2>3, EndIs
  <2>5. OpenQuote[b] = NoQuote /\ OpenQuote[b - 1] = NoQuote /\ At(b - 1) = At(a) /\ b - 1 \in 1 .. Len(line)
    BY <1>7, <2>1
  <2>6. Reading[b - 1] = s1
    BY <2>1 DEF s1
  <2> HIDE DEF x
  <2>7. s1.lexemes = Append(r.lexemes, Lexeme(OperatorType(a), <<>>))
    BY <1>9, <2>2 DEF x
  <2> QED
    BY <1>2, <1>5, <1>6, <1>9, <2>2, <2>4, <2>5, <2>6, <2>7
<1>11. CASE Doubled(a)
  <2>1. b = a + 2 /\ b - 1 = a + 1 /\ c # "|" /\ At(a + 1) = c
    BY <1>1, <1>11 DEF Doubled, c
  <2>2. OperatorType(a) = Double(c) /\ OperatorType(a) \in FileType \cup {"heredoc", "pipe"}
    <3>1. OperatorType(a) = CASE c = "|" -> "pipe" [] c = "<" -> "heredoc" [] c = ">" -> "append"
                              [] c = "&" -> "and"
      BY <1>11 DEF OperatorType, c
    <3> QED
      BY <1>3, <2>1, <3>1 DEF Double, FileType
  <2> DEFINE d == a + 1  s2 == Reading[d]
  <2>3. d \in 1 .. Len(line) /\ d - 1 = a /\ d + 1 = b /\ d \in 0 .. Len(line)
    <3>1. d \in 1 .. Len(line)
      BY <1>1, <2>1, InLine DEF PosInv
    <3> QED
      BY <1>1, <2>1, <3>1
  <2>4. OpenQuote[d] = NoQuote /\ At(d) = c
    BY <1>7, <2>1
  <2> HIDE DEF d
  <2>5. OpenQuote[b] = NoQuote
    BY <1>4, <2>3, <2>4, QuoteSteps DEF PosInv
  <2>6. s2 = ReadOperator(s1, c) /\ s2 \in State
    <3>1. Reading[d] = Read(Reading[d - 1], d)
      BY <2>3, ReadSteps DEF PosInv
    <3>2. At(d) \in Operators
      BY <1>3, <2>4 DEF Operators, Redirects
    <3> QED
      BY <2>3, <2>4, <3>1, <3>2, ReadIs, ReadingIs DEF PosInv, s1
  <2> HIDE DEF s2
  <2>7. s1.double = c
    BY <1>9, <2>1
  <2>8. ~s2.open /\ s2.text = <<>> /\ s2.double = End /\ s2.lexemes = Append(Front(s1.lexemes), y)
    <3>1. LET q == ReadOperator(s1, c)
              ls == Ended(s1).lexemes
          IN  /\ q \in State /\ ~q.open /\ q.text = <<>>
              /\ c = s1.double => q.double = End /\ q.lexemes = Append(Front(ls), Lexeme(Double(c), <<>>))
      BY <1>1, <1>2, ReadOperatorIs
    <3>2. Ended(s1).lexemes = s1.lexemes
      BY <1>2, <1>9, EndedIs
    <3> HIDE DEF y
    <3> QED
      BY <2>6, <2>7, <3>1, <3>2 DEF y
  <2>9. Front(s1.lexemes) = r.lexemes
    <3>1. x \in LexemeSet
      BY Short, LexemeIs
    <3> HIDE DEF x
    <3>2. Front(Append(r.lexemes, x)) = r.lexemes
      BY <1>6, <3>1, FrontOfAppended
    <3> QED
      BY <1>9, <3>2
  <2>10. Reading[b - 1] = s2 /\ At(b - 1) = At(a) /\ OpenQuote[b - 1] = NoQuote /\ b - 1 \in 1 .. Len(line)
    BY <2>1, <2>3, <2>4 DEF s2, d, c
  <2>11. At(b) \in Operators => At(b) # s2.double
    BY <2>8, EndIs
  <2> HIDE DEF y
  <2>12. s2.lexemes = Append(r.lexemes, Lexeme(OperatorType(a), <<>>))
    BY <2>2, <2>8, <2>9 DEF y
  <2> QED
    BY <1>5, <1>6, <2>2, <2>5, <2>6, <2>8, <2>10, <2>11, <2>12
<1> QED
  BY <1>10, <1>11

\* The tokens an operator adds, and where the lexer goes on.
LEMMA OperatorIs ==
  ASSUME PosInv, tokens \in Seq(PlainTokens), Operator, NEW past, NEW next,
         past = IF Doubled(Start) THEN Start + 2 ELSE Start + 1,
         next = IF At(Start) \in Redirects THEN FileEnd(past) ELSE past,
         NEW o \in PlainTokens, o = Token(Piece(Start, past), OperatorType(Start), FALSE)
  PROVE  /\ At(Start) \in Operators /\ pos' = next
         /\ \/ tokens' = Append(tokens, o) /\ Piece(past, next) = <<>>
            \/ /\ tokens' = Append(Append(tokens, o), Token(Piece(past, next), "word", FALSE))
               /\ Piece(past, next) # <<>>
<1> DEFINE file == Piece(past, next)
           w     == Token(file, "word", FALSE)
           rest  == IF file = <<>> THEN <<>> ELSE << w >>
           r     == Append(tokens, o)
<1>1. At(Start) \in Operators /\ pos' = next /\ tokens' = tokens \o << o >> \o rest
  BY Zenon DEF Operator, Piece
<1>2. tokens \o << o >> = r /\ r \in Seq(PlainTokens)
  BY AppendIsConcat, AppendProperties
<1> HIDE DEF r, file, w
<1>3. r \o <<>> = r
  BY <1>2, ConcatEmptySeq
<1>4. r \o << w >> = Append(r, w)
  <2> DEFINE S == PlainTokens \cup {w}
  <2>1. r \in Seq(S) /\ w \in S
    BY <1>2, SeqMonotonic
  <2> HIDE DEF S
  <2> QED
    BY <2>1, AppendIsConcat
<1> QED
  BY <1>1, <1>2, <1>3, <1>4 DEF r, w, file

LEMMA OperatorReads ==
  ASSUME PosInv, Plain, OpenQuote[pos] = NoQuote, NEW r, Reads(tokens, r), Agree(r, pos), Operator
  PROVE  \E q : Reads(tokens', q) /\ Agree(q, pos')
<1> DEFINE a == Start  b == IF Doubled(a) THEN a + 2 ELSE a + 1
           e == IF At(a) \in Redirects THEN FileEnd(b) ELSE b
           o == Token(Piece(a, b), OperatorType(a), FALSE)
           s == Reading[b - 1]
<1>1. At(a) \in Operators
  BY DEF Operator
<1>2. r \in State /\ tokens \in Seq(PlainTokens)
  BY ReadsIs
<1>3. /\ OpenQuote[a] = NoQuote /\ Agree(r, a)
  BY <1>2, PlainStart, StartAgrees
<1>4. /\ a \in 1 .. Len(line) /\ b \in a + 1 .. Len(line) + 1 /\ FileEnd(b) \in b .. Len(line) + 1
      /\ Len(line) \in Nat
  BY <1>1, OperatorEnd, LineIs DEF PosInv
<1>5. /\ s \in State /\ ~s.open /\ s.text = <<>>
      /\ s.lexemes = Append(r.lexemes, Lexeme(OperatorType(a), <<>>))
      /\ At(b) \in Operators => At(b) # s.double
      /\ ~r.open /\ r.text = <<>> /\ r.double = End
      /\ OperatorType(a) \in FileType \cup {"heredoc", "pipe"}
      /\ b - 1 \in 1 .. Len(line) /\ OpenQuote[b - 1] = NoQuote /\ OpenQuote[b] = NoQuote
      /\ At(b - 1) = At(a)
  BY <1>1, <1>2, <1>3, <1>4, OperatorRead
<1>6. \A k \in a .. b - 1 : At(k) \in Operators
  <2>1. \A k \in a .. b - 1 : k = a \/ (Doubled(a) /\ k = a + 1)
    BY <1>4
  <2>2. Doubled(a) => At(a + 1) \in Operators
    BY <1>1 DEF Doubled
  <2> QED
    BY <1>1, <2>1, <2>2
<1>7. o \in PlainTokens /\ o.type = OperatorType(a) /\ o.type \notin TextType
  <2> HIDE DEF b, a
  <2>1. NoVariables /\ a < b /\ a \in 1 .. Len(line) + 1 /\ b \in a .. Len(line) + 1
    BY <1>4, PlainIs
  <2>2. o \in PlainTokens /\ o.type = OperatorType(a)
    BY <1>5, <1>6, <2>1, PieceIsPlain
  <2> HIDE DEF o
  <2> QED
    BY <1>5, <2>2 DEF TextType, FileType
<1>8. /\ pos' = e
      /\ \/ tokens' = Append(tokens, o) /\ Piece(b, e) = <<>>
         \/ tokens' = Append(Append(tokens, o), Token(Piece(b, e), "word", FALSE)) /\ Piece(b, e) # <<>>
  BY <1>2, <1>7, OperatorIs
<1> DEFINE u == Take(r, o)  ts == Append(tokens, o)
<1> HIDE DEF a, b, o
<1>9. Reads(ts, u)
  BY <1>5, <1>7, AppendedReads
<1>10. u \in State /\ ~u.open /\ u.text = <<>> /\ u.double = End
       /\ u.lexemes = Append(r.lexemes, Lexeme(OperatorType(a), <<>>))
  BY <1>2, <1>5, <1>7, TakeIs
<1> HIDE DEF u, s
<1>11. u = Ended(s)
  <2> DEFINE v == Ended(s)
  <2>1. v \in State /\ ~v.open /\ v.text = <<>> /\ v.double = End /\ v.lexemes = s.lexemes
    BY <1>5, EndedIs
  <2> HIDE DEF v
  <2>2. u.open = v.open
    BY <1>10, <2>1 DEF State
  <2>3. u = v
    BY <1>5, <1>10, <2>1, <2>2, SameState
  <2> QED
    BY <2>3 DEF v
<1>12. Agree(u, b)
  BY <1>5, <1>10, <1>11 DEF Agree, s
<1>13. e \in b .. Len(line) + 1 /\ b \in 1 .. Len(line) + 1
  BY <1>4
<1>14. CASE Piece(b, e) = <<>>
  <2>1. b = e
    <3> HIDE DEF e
    <3>1. Len(Piece(b, e)) = e - b /\ Len(Piece(b, e)) = 0
      BY <1>13, <1>14, PieceIs
    <3> QED
      BY <1>13, <3>1
  <2> HIDE DEF e
  <2> QED
    BY <1>8, <1>9, <1>12, <1>14, <2>1
<1>15. CASE Piece(b, e) # <<>>
  <2>1. b # e
    BY <1>13, <1>15, EmptyPiece
  <2>2. At(a) \in Redirects /\ e = FileEnd(b)
    BY <2>1
  <2> HIDE DEF e
  <2>3. b < e /\ b \in b .. e - 1
    BY <1>13, <2>1
  <2>4. /\ At(e) \in Blanks \cup Quotes \cup Redirects \cup {"|"} \cup {End}
        /\ \A k \in b .. e - 1 : At(k) \notin Blanks \cup Quotes \cup Redirects \cup {"|"}
    BY <1>13, <2>2, StopAtIs DEF FileEnd, PosInv
  <2>5. \A k \in b .. e - 1 : At(k) \notin Quotes \cup Blanks \cup Operators
    <3>1. \A k \in b .. e - 1 : k \in 1 .. Len(line)
      BY <1>4, <1>13
    <3>2. \A k \in b .. e - 1 : At(k) # "&"
      BY <3>1, PlainIs
    <3> QED
      BY <2>4, <3>2 DEF Operators
  <2>6. At(e) \notin Quotes
    <3> DEFINE i == b - 1
    <3>1. i + 1 = b /\ i \in 1 .. Len(line) /\ OpenQuote[i] = NoQuote /\ At(i) \in Redirects
      BY <1>4, <1>5, <2>2
    <3> HIDE DEF i
    <3>2. At(i + 1) \notin Operators /\ FileEnd(i + 1) > i + 1
      BY <2>2, <2>3, <2>5, <3>1
    <3>3. At(FileEnd(i + 1)) \notin Quotes
      BY <3>1, <3>2, PlainIs
    <3> QED
      BY <2>2, <3>1, <3>3
  <2>7. At(e) \in Stops
    BY <2>4, <2>6 DEF Stops, Operators
  <2>8. \E q : Reads(Append(ts, Token(Piece(b, e), "word", FALSE)), q) /\ Agree(q, e)
    <3> HIDE DEF ts
    <3>1. FALSE <=> At(e) \notin Stops
      BY <2>7
    <3> QED
      BY <1>5, <1>9, <1>12, <1>13, <2>3, <2>5, <3>1, WordAgrees
  <2> QED
    BY <1>8, <1>15, <2>8
<1> QED
  BY <1>14, <1>15

-----------------------------------------------------------------------------
(* The reading from the lexer to validate_tokens *)

Closed == OpenQuote[Len(line) + 1] = NoQuote

LexemeOf(t) == Lexeme(IF t.type \in TextType \cup {"command"} THEN "word" ELSE t.type,
                      IF t.type \in TextType \cup {"command"} THEN t.value ELSE <<>>)

\* What merge_consecutive_tokens and check_format_command leave: one token for
\* each lexeme.
ReadyToken ==
  {t \in [value : Text, type : TextType \cup FileType \cup {"heredoc", "pipe", "command"},
          consecutive : BOOLEAN] :
     /\ t.type \in TextType \cup {"command"} => t.value # <<>>
     /\ t.type = "command" => t.value \in CommandWords}

Ready(ts) ==
  /\ ts \in Seq(ReadyToken) /\ Len(Lexemes) = Len(ts) /\ Lexemes \in Seq(LexemeSet)
  /\ \A i \in 1 .. Len(ts) : Lexemes[i] = LexemeOf(ts[i])

AllRead(ts) == \E r : Reads(ts, r) /\ ~r.open /\ r.lexemes = Lexemes

ReadInv ==
  Plain =>
    /\ phase = "tokenize" => \E r : Reads(tokens, r) /\ Agree(r, pos)
    /\ phase = "unclosed" => ~Closed
    /\ phase = "blank" => Closed /\ Lexemes = <<>>
    /\ phase \in {"expand", "merge"} => Closed /\ AllRead(tokens)
    /\ phase = "merge" => \A i \in 1 .. cur - 1 : ~tokens[i].consecutive
    /\ phase \in ReadyPhases => Closed /\ Lexemes # <<>> /\ Ready(tokens)
    /\ phase = "refused" => ~WellFormed(Lexemes)

LEMMA ReadFixed ==
  ASSUME line' = line
  PROVE  /\ Plain' = Plain /\ Closed' = Closed /\ Lexemes' = Lexemes /\ Reading' = Reading
         /\ \A r : Reads(tokens, r)' = Reads(tokens', r)
         /\ \A r : Agree(r, pos)' = Agree(r, pos')
         /\ AllRead(tokens)' = AllRead(tokens')
         /\ Ready(tokens)' = Ready(tokens')
<1>1. OpenQuote' = OpenQuote
  BY DEF OpenQuote
<1>2. Closed' = Closed
  BY <1>1 DEF Closed
<1>3. Reading' = Reading
  BY <1>1 DEF Reading, Read, Closes
<1>4. Lexemes' = Lexemes
  BY <1>3 DEF Lexemes
<1>5. /\ Beyond' = Beyond /\ EmptyQuotes' = EmptyQuotes /\ QuotedOperator' = QuotedOperator
      /\ GluedFile' = GluedFile /\ QuotesAndBlank' = QuotesAndBlank
  BY <1>1 DEF Beyond, EmptyQuotes, QuotedOperator, GluedFile, QuotesAndBlank, Unquoted, Closes,
     At, FileEnd, StopAt
<1>6. CommandWordFile' = CommandWordFile /\ SecondHeredoc' = SecondHeredoc
  BY <1>4 DEF CommandWordFile, SecondHeredoc
<1>7. Plain' = Plain
  BY <1>5, <1>6 DEF Plain
<1>8. \A r : Reads(tokens, r)' = Reads(tokens', r)
  BY DEF Reads, Taking
<1>9. \A r : Agree(r, pos)' = Agree(r, pos')
  BY <1>3 DEF Agree, At
<1>10. AllRead(tokens)' = AllRead(tokens')
  BY <1>4, <1>8 DEF AllRead, Reads, Taking
<1>11. Ready(tokens)' = Ready(tokens')
  BY <1>4 DEF Ready
<1> QED
  BY <1>2, <1>3, <1>4, <1>7, <1>8, <1>9, <1>10, <1>11

LEMMA UnclosedStays ==
  ASSUME PosInv, Plain, OpenQuote[pos] = NoQuote, Unclosed
  PROVE  ~Closed
<1> DEFINE a == Start  i == a + 1  n == Len(line) + 1
<1>1. At(a) \in Quotes /\ At(ClosedAt(i)) = End /\ i - 1 = a
  <2>1. a \in 1 .. Len(line) + 1 /\ Len(line) \in Nat
    BY PlainStart, LineIs DEF PosInv
  <2>2. i - 1 = a
    BY <2>1
  <2> QED
    BY <2>2 DEF Unclosed
<1>2. /\ a \in 1 .. Len(line) + 1 /\ OpenQuote[a] = NoQuote /\ Len(line) \in Nat
  BY PlainStart, LineIs DEF PosInv
<1>3. a \in 1 .. Len(line)
  <2>1. At(a) # End
    BY <1>1 DEF Quotes, End
  <2> HIDE DEF a
  <2> QED
    BY <1>2, <2>1, InLine DEF PosInv
<1> HIDE DEF a
<1>4. OpenQuote[i] = At(a) /\ At(a) # NoQuote
  <2>1. At(a) # NoQuote
    BY <1>1 DEF Quotes, NoQuote
  <2> QED
    BY <1>1, <1>2, <1>3, <2>1, QuoteTurns
<1>5. i \in 1 .. Len(line) + 1
  BY <1>2, <1>3
<1> DEFINE c == ClosedAt(i)
<1>6. /\ c \in i .. Len(line) + 1
      /\ \A k \in i .. c - 1 : At(k) \notin {At(i - 1)}
  BY <1>5, StopAtIs DEF ClosedAt, PosInv
<1>7. At(c) = End
  BY <1>1
<1> HIDE DEF c, i
<1>8. c = n
  BY <1>5, <1>6, <1>7, <1>2, LineIs DEF PosInv
<1>9. n \in i .. Len(line) + 1 /\ \A k \in i .. n - 1 : At(k) # OpenQuote[i]
  BY <1>1, <1>4, <1>6, <1>8
<1> HIDE DEF n
<1>10. OpenQuote[n] = OpenQuote[i]
  BY <1>4, <1>5, <1>9, QuoteStays
<1> QED
  BY <1>4, <1>10 DEF Closed, n

LEMMA TokenizeKeepsReading ==
  ASSUME PosInv, LexInv, ReadInv, Tokenize
  PROVE  ReadInv'
<1>1. line' = line /\ phase = "tokenize"
  BY DEF Tokenize
<1>2. OpenQuote[pos] = NoQuote
  BY <1>1 DEF LexInv
<1>3. CASE Unclosed
  <2>1. phase' = "unclosed"
    BY <1>3 DEF Unclosed
  <2>2. Plain => ~Closed
    BY <1>2, <1>3, UnclosedStays
  <2> QED
    BY <1>1, <2>1, <2>2, ReadFixed DEF ReadInv, ReadyPhases
<1>4. CASE Operator \/ Word \/ Quoted
  <2>1. phase' = "tokenize"
    BY <1>1, <1>4 DEF Operator, Word, Quoted
  <2>2. Plain => \E q : Reads(tokens', q) /\ Agree(q, pos')
    <3> SUFFICES ASSUME Plain PROVE \E q : Reads(tokens', q) /\ Agree(q, pos')
      OBVIOUS
    <3>1. PICK r : Reads(tokens, r) /\ Agree(r, pos)
      BY <1>1 DEF ReadInv
    <3> QED
      BY <1>2, <1>4, <3>1, OperatorReads, WordReads, QuotedReads
  <2>3. Plain' => \E q : Reads(tokens, q)' /\ Agree(q, pos)'
    BY <1>1, <2>2, ReadFixed
  <2> QED
    BY <2>1, <2>3 DEF ReadInv, ReadyPhases
<1> QED
  BY <1>3, <1>4 DEF Tokenize

LEMMA EmptyReads ==
  ASSUME NEW ts, NEW r, Reads(ts, r), ts = <<>>
  PROVE  r = Nothing
<1>1. PICK g : Taking(ts, g) /\ g[Len(ts)] = r
  BY DEF Reads
<1>2. Len(ts) = 0
  OBVIOUS
<1> QED
  BY <1>1, <1>2 DEF Taking

\* At the end of the line all lexemes are read.
LEMMA TokenizedReads ==
  ASSUME PosInv, Plain, OpenQuote[pos] = NoQuote, NEW r, Reads(tokens, r), Agree(r, pos),
         pos > Len(line)
  PROVE  Closed /\ ~r.open /\ r.lexemes = Lexemes
<1>1. Len(line) \in Nat /\ pos = Len(line) + 1
  BY LineIs DEF PosInv
<1>2. Closed
  BY <1>1 DEF Closed
<1>3. At(pos) = End
  BY <1>1, LineIs DEF PosInv
<1>4. At(pos) \in Stops
  BY <1>3 DEF Stops
<1> DEFINE p == pos - 1
<1>5. p = Len(line)
  BY <1>1
<1> HIDE DEF p
<1>6. ~r.open /\ r = Ended(Reading[p])
  BY <1>4 DEF Agree, p
<1> QED
  BY <1>2, <1>5, <1>6 DEF Lexemes

LEMMA TokenizedKeepsReading ==
  ASSUME PosInv, LexInv, ReadInv, Tokenized
  PROVE  ReadInv'
<1>1. /\ line' = line /\ phase = "tokenize" /\ pos > Len(line) /\ tokens' = tokens
      /\ phase' = IF tokens = <<>> THEN "blank" ELSE "expand"
  BY DEF Tokenized
<1>2. OpenQuote[pos] = NoQuote
  BY <1>1 DEF LexInv
<1>3. Plain => Closed /\ AllRead(tokens) /\ (tokens = <<>> => Lexemes = <<>>)
  <2> SUFFICES ASSUME Plain PROVE Closed /\ AllRead(tokens) /\ (tokens = <<>> => Lexemes = <<>>)
    OBVIOUS
  <2>1. PICK r : Reads(tokens, r) /\ Agree(r, pos)
    BY <1>1 DEF ReadInv
  <2>2. Closed /\ ~r.open /\ r.lexemes = Lexemes
    BY <1>1, <1>2, <2>1, TokenizedReads
  <2>3. tokens = <<>> => Lexemes = <<>>
    BY <2>1, <2>2, EmptyReads DEF Nothing
  <2> QED
    BY <2>1, <2>2, <2>3 DEF AllRead
<1>4. Plain' => Closed' /\ AllRead(tokens)' /\ (tokens = <<>> => Lexemes' = <<>>)
  BY <1>1, <1>3, ReadFixed
<1> QED
  BY <1>1, <1>4 DEF ReadInv, ReadyPhases

LEMMA ExpandKeepsReading ==
  ASSUME TokensInv, PosInv, ReadInv, DropDollar \/ ExpandToken \/ ExpansionDone
  PROVE  ReadInv'
<1>1. line' = line /\ phase = "expand"
  BY DEF DropDollar, ExpandToken, ExpansionDone, AtToken
<1>2. CASE ExpansionDone
  <2>1. phase' \in {"undefined", "merge"} /\ tokens' = tokens /\ cur' = 1
    BY <1>2 DEF ExpansionDone
  <2>2. Plain' => Closed' /\ AllRead(tokens)'
    BY <1>1, <2>1, ReadFixed DEF ReadInv
  <2>3. \A i \in 1 .. cur' - 1 : ~tokens'[i].consecutive
    BY <2>1
  <2> QED
    BY <2>1, <2>2, <2>3 DEF ReadInv, ReadyPhases
<1>3. CASE DropDollar \/ ExpandToken
  <2>1. cur <= Len(tokens)
    BY <1>3 DEF DropDollar, ExpandToken, AtToken
  <2>2. Plain => tokens' = tokens /\ phase' = "expand"
    <3> SUFFICES ASSUME Plain PROVE tokens' = tokens /\ phase' = "expand"
      OBVIOUS
    <3>1. PICK r : Reads(tokens, r)
      BY <1>1 DEF ReadInv, AllRead
    <3>2. cur \in 1 .. Len(tokens) /\ tokens \in Seq(PlainTokens)
      BY <2>1, <3>1, ReadsIs DEF TokensInv
    <3> DEFINE t == tokens[cur]  v == t.value
    <3>3. t \in PlainTokens
      BY <3>1, <3>2, ReadsIs
    <3>4. v \in Text /\ NoDollar(v)
      <4> HIDE DEF t
      <4> QED
        BY <3>3, PlainTokenIs
    <3>5. v # Dollar
      <4>1. v = Dollar => Len(v) = 1 /\ v[1] = "$"
        BY DEF Dollar
      <4>2. DOMAIN v = 1 .. Len(v)
        BY <3>4, TextIs
      <4> HIDE DEF v
      <4>3. 1 \in 1 .. 1
        OBVIOUS
      <4> QED
        BY <3>4, <4>1, <4>2, <4>3 DEF NoDollar
    <3>6. ~DropDollar /\ ExpandToken
      BY <1>3, <3>5 DEF DropDollar, DropsDollar
    <3>7. /\ phase' = "expand"
          /\ tokens' = tokens \/ tokens' = [tokens EXCEPT ![cur].value = v]
      BY <1>1, <3>4, <3>6, ExpandedSame DEF ExpandToken
    <3>8. [tokens EXCEPT ![cur].value = v] = tokens
      <4> DEFINE e == [t EXCEPT !.value = v]
      <4>1. e = t
        BY <3>3 DEF PlainTokens
      <4>2. [tokens EXCEPT ![cur].value = v] = [tokens EXCEPT ![cur] = e]
        OBVIOUS
      <4> HIDE DEF e
      <4>3. [tokens EXCEPT ![cur] = tokens[cur]] = tokens
        BY <3>2
      <4> QED
        BY <4>1, <4>2, <4>3
    <3> QED
      BY <3>7, <3>8
  <2>3. Plain' => Plain /\ Closed' /\ AllRead(tokens)'
    BY <1>1, <2>2, ReadFixed DEF ReadInv
  <2> QED
    BY <2>2, <2>3 DEF ReadInv, ReadyPhases
<1> QED
  BY <1>2, <1>3

LEMMA PlainMerges ==
  ASSUME NEW t \in PlainTokens
  PROVE  Merges(t) <=> t.consecutive
<1> DEFINE v == t.value
<1>1. v \in Text /\ NoDollar(v)
  BY PlainTokenIs
<1>2. v # Dollar
  <2>1. v = Dollar => Len(v) = 1 /\ v[1] = "$"
    BY DEF Dollar
  <2>2. DOMAIN v = 1 .. Len(v)
    BY <1>1, TextIs
  <2> HIDE DEF v
  <2>3. 1 \in 1 .. 1
    OBVIOUS
  <2> QED
    BY <1>1, <2>1, <2>2, <2>3 DEF NoDollar
<1> QED
  BY <1>2 DEF Merges

\* Two elements of a list have made place for one.
MadeOne(s, k, m, q) ==
  /\ Len(q) = Len(s) - 1 /\ q[k] = m
  /\ \A i \in 1 .. Len(s) - 1 : /\ i < k => q[i] = s[i]
                                /\ i > k => q[i] = s[i + 1]

LEMMA JoinedOne ==
  ASSUME NEW S, NEW s \in Seq(S), NEW k \in 1 .. Len(s) - 1, NEW m \in S
  PROVE  Joined(s, k, m) \in Seq(S) /\ MadeOne(s, k, m, Joined(s, k, m))
<1> DEFINE q == Joined(s, k, m)
<1>1. /\ q \in Seq(S) /\ Len(q) = Len(s) - 1
      /\ \A i \in 1 .. Len(s) - 1 :
           /\ i < k => q[i] = s[i]
           /\ i = k => q[i] = m
           /\ i > k => q[i] = s[i + 1]
  BY MergedIs
<1> HIDE DEF q
<1> QED
  BY <1>1 DEF q, MadeOne

LEMMA JoinedIs ==
  ASSUME NEW V, NEW s \in Seq(V), NEW k \in 1 .. Len(s) - 1, NEW m
  PROVE  /\ MadeOne(s, k, m, Joined(s, k, m))
         /\ Joined(s, k, m) \in [1 .. Len(s) - 1 -> {s[i] : i \in 1 .. Len(s)} \cup {m}]
<1> DEFINE S == {s[i] : i \in 1 .. Len(s)} \cup {m}  q == Joined(s, k, m)
<1>1. Len(s) \in Nat /\ DOMAIN s = 1 .. Len(s) /\ s = [i \in 1 .. Len(s) |-> s[i]]
  BY LenProperties
<1>2. m \in S /\ \A i \in 1 .. Len(s) : s[i] \in S
  OBVIOUS
<1> HIDE DEF S
<1>3. s \in Seq(S)
  <2>1. s \in [1 .. Len(s) -> S]
    BY <1>1, <1>2
  <2> QED
    BY <1>1, <2>1
<1>4. q \in Seq(S) /\ MadeOne(s, k, m, q)
  BY <1>2, <1>3, JoinedOne
<1> HIDE DEF q
<1>5. q \in [1 .. Len(s) - 1 -> S]
  BY <1>4, LenProperties DEF MadeOne
<1> QED
  BY <1>4, <1>5 DEF q, S

LEMMA MergeKeepsReading ==
  ASSUME TokensInv, PosInv, ReadInv, MergeToken
  PROVE  ReadInv'
<1>1. line' = line /\ phase = "merge" /\ phase' = "merge" /\ cur < Len(tokens)
  BY DEF MergeToken
<1>2. Plain => AllRead(tokens') /\ \A i \in 1 .. cur' - 1 : ~tokens'[i].consecutive
  <2> SUFFICES ASSUME Plain
               PROVE  AllRead(tokens') /\ \A i \in 1 .. cur' - 1 : ~tokens'[i].consecutive
    OBVIOUS
  <2>1. PICK r : Reads(tokens, r) /\ ~r.open /\ r.lexemes = Lexemes
    BY <1>1 DEF ReadInv, AllRead
  <2>2. \A i \in 1 .. cur - 1 : ~tokens[i].consecutive
    BY <1>1 DEF ReadInv
  <2>3. cur \in Nat \ {0} /\ Len(tokens) \in Nat
    BY <2>1, ReadsIs DEF TokensInv
  <2>4. cur \in 1 .. Len(tokens) - 1 /\ cur \in 1 .. Len(tokens)
    BY <1>1, <2>3
  <2>5. /\ tokens \in Seq(PlainTokens) /\ tokens[cur] \in PlainTokens
        /\ \A i \in 1 .. Len(tokens) : tokens[i] \in PlainTokens
    BY <2>1, <2>4, ReadsIs
  <2>6. Merges(tokens[cur]) <=> tokens[cur].consecutive
    <3> DEFINE t == tokens[cur]
    <3>1. t \in PlainTokens
      BY <2>5
    <3> HIDE DEF t
    <3>2. Merges(t) <=> t.consecutive
      BY <3>1, PlainMerges
    <3> QED
      BY <3>2 DEF t
  <2>7. CASE ~Merges(tokens[cur])
    <3>1. tokens' = tokens /\ cur' = cur + 1
      BY <2>7 DEF MergeToken
    <3>2. \A i \in 1 .. cur : ~tokens[i].consecutive
      <4>1. \A i \in 1 .. cur : i = cur \/ i \in 1 .. cur - 1
        BY <2>3
      <4> QED
        BY <2>2, <2>6, <2>7, <4>1
    <3>3. cur' - 1 = cur
      BY <2>3, <3>1
    <3>4. AllRead(tokens)
      BY <2>1 DEF AllRead
    <3>5. AllRead(tokens')
      BY <3>1, <3>4
    <3> QED
      BY <3>1, <3>2, <3>3, <3>5
  <2>8. CASE Merges(tokens[cur])
    <3> DEFINE m == Merged(tokens[cur], tokens[cur + 1])  q == Joined(tokens, cur, m)
    <3>1. tokens' = q /\ cur' = cur
      BY <2>8 DEF MergeToken, Joined
    <3>2. m = Merged(tokens[cur], tokens[cur + 1])
      OBVIOUS
    <3> HIDE DEF m
    <3>3. /\ Len(q) = Len(tokens) - 1 /\ q[cur] = m
          /\ \A i \in 1 .. Len(tokens) - 1 : /\ i < cur => q[i] = tokens[i]
                                             /\ i > cur => q[i] = tokens[i + 1]
          /\ q \in [1 .. Len(tokens) - 1 -> {tokens[i] : i \in 1 .. Len(tokens)} \cup {m}]
      BY <2>4, <2>5, JoinedIs DEF MadeOne
    <3> HIDE DEF q
    <3>4. tokens[cur].consecutive
      BY <2>6, <2>8
    <3>5. Reads(q, r)
      BY ONLY <2>1, <2>4, <3>2, <3>3, <3>4, JoinedReads
    <3>6. \A i \in 1 .. cur - 1 : i \in 1 .. Len(tokens) - 1 /\ i < cur
      BY <2>3, <2>4
    <3>7. \A i \in 1 .. cur - 1 : q[i] = tokens[i]
      BY <3>3, <3>6
    <3> QED
      BY <2>1, <2>2, <3>1, <3>5, <3>7 DEF AllRead
  <2> QED
    BY <2>7, <2>8
<1>3. Plain' => Closed' /\ AllRead(tokens)' /\ \A i \in 1 .. cur' - 1 : ~tokens'[i].consecutive
  BY <1>1, <1>2, ReadFixed DEF ReadInv
<1> QED
  BY <1>1, <1>3 DEF ReadInv, ReadyPhases

\* A list in which nothing is joined holds one token for each lexeme.
LEMMA AllApart ==
  ASSUME NEW ts, NEW r, Reads(ts, r), ~r.open, \A i \in 1 .. Len(ts) - 1 : ~ts[i].consecutive
  PROVE  /\ Len(r.lexemes) = Len(ts) /\ r.lexemes \in Seq(LexemeSet)
         /\ \A i \in 1 .. Len(ts) : r.lexemes[i] = LexemeOf(ts[i])
<1> DEFINE n == Len(ts)
<1>1. /\ ts \in Seq(PlainTokens) /\ n \in Nat /\ r \in State
      /\ \A i \in 1 .. n : ts[i] \in PlainTokens
  BY ReadsIs
<1>2. PICK g : Taking(ts, g) /\ g[n] = r
  BY DEF Reads
<1>3. /\ g \in [0 .. n -> State] /\ g[0] = Nothing
      /\ \A i \in 1 .. n : g[i] = Take(g[i - 1], ts[i])
  BY <1>2 DEF Taking
<1>4. \A i \in 1 .. n - 1 : ~ts[i].consecutive
  OBVIOUS
<1> HIDE DEF n
<1>5. ASSUME NEW i \in 1 .. n
      PROVE  ~ts[i].consecutive
  <2>1. CASE i \in 1 .. n - 1
    BY <1>4, <2>1
  <2>2. CASE i = n
    <3> DEFINE s == g[n - 1]  t == ts[n]
    <3>1. n - 1 \in 0 .. n /\ n \in 1 .. n
      BY <1>1, <2>2
    <3>2. s \in State /\ t \in PlainTokens /\ r = Take(s, t)
      BY <1>1, <1>2, <1>3, <3>1
    <3> HIDE DEF s, t
    <3>3. ~t.consecutive
      BY <3>2, TakeIs, PlainTokenIs
    <3> QED
      BY <2>2, <3>3 DEF t
  <2> QED
    BY <1>1, <2>1, <2>2
<1> DEFINE Good(k) == /\ ~g[k].open /\ g[k].text = <<>> /\ Len(g[k].lexemes) = k
                      /\ \A i \in 1 .. k : g[k].lexemes[i] = LexemeOf(ts[i])
           T == {k \in 0 .. n : Good(k)}
<1>6. 0 \in T
  <2>1. Good(0)
    BY <1>3 DEF Nothing
  <2> QED
    BY <1>1, <2>1
<1>7. ASSUME NEW k \in 0 .. n - 1, k \in T PROVE k + 1 \in T
  <2> DEFINE j == k + 1
  <2>1. j \in 1 .. n /\ j - 1 = k /\ k \in 0 .. n /\ j \in 0 .. n
    BY <1>1
  <2> HIDE DEF j
  <2> DEFINE s == g[k]  t == ts[j]  u == g[j]  ls == s.lexemes  x == LexemeOf(t)
  <2>2. s \in State /\ t \in PlainTokens /\ u = Take(s, t) /\ ~t.consecutive
    BY <1>1, <1>3, <1>5, <2>1
  <2>3. ~s.open /\ s.text = <<>> /\ Len(ls) = k /\ \A i \in 1 .. k : ls[i] = LexemeOf(ts[i])
    BY <1>7
  <2> HIDE DEF s, t, u
  <2>4. ls \in Seq(LexemeSet)
    BY <2>2 DEF State
  <2>5. ~u.open /\ u.text = <<>> /\ u.lexemes = Append(ls, x) /\ x \in LexemeSet
    <3>1. t.value \in Text /\ t.type \in TextType \cup FileType \cup {"heredoc", "pipe"}
      BY <2>2, PlainTokenIs
    <3>2. CASE t.type \in TextType
      <4> DEFINE w == With(s, t.value)
      <4>1. w \in State
        BY <2>2, <3>1, WithIs
      <4>2. u = Ended(w) /\ ~u.open /\ u.lexemes = Append(ls, Lexeme("word", s.text \o t.value))
        BY <2>2, <3>2, TakeIs
      <4> HIDE DEF w
      <4>3. u.text = <<>>
        BY <4>1, <4>2, EndedIs
      <4>4. s.text \o t.value = t.value
        <5>1. t.value \in Seq(STRING)
          BY <3>1 DEF Text
        <5> QED
          BY <2>3, <5>1, ConcatEmptySeq
      <4>5. x = Lexeme("word", t.value)
        BY <3>2 DEF LexemeOf
      <4> QED
        BY <3>1, <4>2, <4>3, <4>4, <4>5, LexemeIs
    <3>3. CASE t.type \notin TextType
      <4>1. ~u.open /\ u.text = <<>> /\ u.lexemes = Append(ls, Lexeme(t.type, <<>>))
        BY <2>2, <2>3, <3>3, TakeIs
      <4>2. t.type \in {"pipe", "in", "out", "append", "heredoc"}
        BY <3>1, <3>3 DEF FileType
      <4>3. x = Lexeme(t.type, <<>>)
        BY <3>3, <4>2 DEF LexemeOf
      <4>4. x \in LexemeSet
        BY <4>2, <4>3, Short DEF Lexeme, LexemeSet
      <4> QED
        BY <4>1, <4>3, <4>4
    <3> QED
      BY <3>2, <3>3
  <2> HIDE DEF x, ls
  <2>6. Len(u.lexemes) = j
    BY <2>1, <2>3, <2>4, <2>5, AppendProperties
  <2>7. ASSUME NEW i \in 1 .. j PROVE u.lexemes[i] = LexemeOf(ts[i])
    <3>1. CASE i \in 1 .. k
      BY <2>1, <2>3, <2>4, <2>5, <3>1, AppendProperties
    <3>2. CASE i = j
      BY <2>1, <2>3, <2>4, <2>5, <3>2, AppendProperties DEF x, t
    <3> QED
      BY <2>1, <3>1, <3>2
  <2>8. Good(j)
    BY <2>5, <2>6, <2>7 DEF u
  <2> QED
    BY <2>1, <2>8 DEF j
<1>8. Good(n)
  <2> HIDE DEF Good
  <2>1. \A k \in 0 .. n : k \in T
    <3> HIDE DEF T
    <3> QED
      BY <1>1, <1>6, <1>7, UpTo
  <2> QED
    BY <1>1, <2>1
<1> QED
  BY <1>1, <1>2, <1>8 DEF n, State

\* check_format_command changes the type of a word, and not what it is.
LEMMA ClassifiedIs ==
  ASSUME NEW t \in PlainTokens
  PROVE  Classified(t) \in ReadyToken /\ LexemeOf(Classified(t)) = LexemeOf(t)
<1>1. /\ t.value \in Text /\ t.consecutive \in BOOLEAN
      /\ t.type \in TextType \cup FileType \cup {"heredoc", "pipe"}
      /\ t.type \in TextType => t.value # <<>>
  BY PlainTokenIs
<1>2. t.type # "command"
  BY <1>1 DEF TextType, FileType
<1> DEFINE u == [t EXCEPT !.type = "command"]
<1>3. CASE t.type = "word" /\ t.value \in CommandWords
  <2>1. Classified(t) = u
    BY <1>3 DEF Classified
  <2>2. u \in [value : Text, type : TextType \cup FileType \cup {"heredoc", "pipe", "command"},
               consecutive : BOOLEAN]
        /\ u.type = "command" /\ u.value = t.value
    BY DEF PlainTokens
  <2>3. t.type \in TextType
    BY <1>3 DEF TextType
  <2> HIDE DEF u
  <2>4. u \in ReadyToken
    BY <1>1, <1>3, <2>2, <2>3 DEF ReadyToken
  <2>5. LexemeOf(u) = Lexeme("word", t.value) /\ LexemeOf(t) = Lexeme("word", t.value)
    BY <2>2, <2>3 DEF LexemeOf
  <2> QED
    BY <2>1, <2>4, <2>5
<1>4. CASE ~(t.type = "word" /\ t.value \in CommandWords)
  <2>1. Classified(t) = t
    BY <1>4 DEF Classified
  <2>2. t \in ReadyToken
    BY <1>1, <1>2 DEF PlainTokens, ReadyToken
  <2> QED
    BY <2>1, <2>2
<1> QED
  BY <1>3, <1>4

LEMMA CheckKeepsReading ==
  ASSUME TokensInv, PosInv, ReadInv, CheckFormatCommand
  PROVE  ReadInv'
<1> DEFINE q == [i \in DOMAIN tokens |-> Classified(tokens[i])]
<1>1. /\ line' = line /\ phase = "merge" /\ phase' = "validate" /\ cur >= Len(tokens)
      /\ tokens' = q
  BY DEF CheckFormatCommand
<1> HIDE DEF q
<1>2. Plain => Lexemes # <<>> /\ Ready(tokens')
  <2> SUFFICES ASSUME Plain PROVE Lexemes # <<>> /\ Ready(tokens')
    OBVIOUS
  <2>1. PICK r : Reads(tokens, r) /\ ~r.open /\ r.lexemes = Lexemes
    BY <1>1 DEF ReadInv, AllRead
  <2>2. \A i \in 1 .. cur - 1 : ~tokens[i].consecutive
    BY <1>1 DEF ReadInv
  <2>3. cur \in Nat \ {0} /\ Len(tokens) \in Nat /\ Len(tokens) >= 1
    BY <1>1, <2>1, ReadsIs DEF TokensInv
  <2>4. \A i \in 1 .. Len(tokens) - 1 : ~tokens[i].consecutive
    <3>1. \A i \in 1 .. Len(tokens) - 1 : i \in 1 .. cur - 1
      BY <1>1, <2>3
    <3> QED
      BY <2>2, <3>1
  <2>5. /\ Len(Lexemes) = Len(tokens) /\ Lexemes \in Seq(LexemeSet)
        /\ \A i \in 1 .. Len(tokens) : Lexemes[i] = LexemeOf(tokens[i])
    BY <2>1, <2>4, AllApart
  <2>6. /\ tokens \in Seq(PlainTokens) /\ DOMAIN tokens = 1 .. Len(tokens)
        /\ \A i \in 1 .. Len(tokens) : tokens[i] \in PlainTokens
    BY <2>1, ReadsIs
  <2>7. ASSUME NEW i \in 1 .. Len(tokens)
        PROVE  q[i] \in ReadyToken /\ LexemeOf(q[i]) = LexemeOf(tokens[i])
    <3> DEFINE t == tokens[i]
    <3>1. t \in PlainTokens /\ q[i] = Classified(t)
      BY <2>6 DEF q
    <3> HIDE DEF t
    <3>2. Classified(t) \in ReadyToken /\ LexemeOf(Classified(t)) = LexemeOf(t)
      BY <3>1, ClassifiedIs
    <3> QED
      BY <3>1, <3>2 DEF t
  <2>8. q \in Seq(ReadyToken) /\ Len(q) = Len(tokens)
    <3>1. q \in [1 .. Len(tokens) -> ReadyToken]
      <4>1. DOMAIN q = 1 .. Len(tokens) /\ q = [i \in DOMAIN q |-> q[i]]
        BY <2>6 DEF q
      <4> QED
        BY <2>7, <4>1
    <3> QED
      BY <2>3, <3>1
  <2>9. Lexemes # <<>>
    <3>1. Len(Lexemes) >= 1
      BY <2>3, <2>5
    <3> DEFINE ls == Lexemes
    <3>2. Len(ls) >= 1
      BY <3>1
    <3> HIDE DEF ls
    <3>3. ls # <<>>
      BY <3>2
    <3> QED
      BY <3>3 DEF ls
  <2>10. Ready(q)
    BY <2>5, <2>7, <2>8 DEF Ready
  <2> QED
    BY <1>1, <2>9, <2>10
<1>3. Plain' => Closed' /\ Lexemes' # <<>> /\ Ready(tokens)'
  BY <1>1, <1>2, ReadFixed DEF ReadInv
<1> QED
  BY <1>1, <1>3 DEF ReadInv, ReadyPhases

\* The tokens are of the kinds of the lexemes.
LEMMA KindsAre ==
  ASSUME Ready(tokens)
  PROVE  /\ Len(tokens) \in Nat /\ DOMAIN tokens = 1 .. Len(tokens) /\ DOMAIN Lexemes = 1 .. Len(tokens)
         /\ Len(Lexemes) = Len(tokens)
         /\ \A i \in 1 .. Len(tokens) :
              /\ tokens[i] \in ReadyToken /\ tokens[i].value \in Text
              /\ TypeAt(i) = tokens[i].type
              /\ tokens[i].type \in TextType \cup FileType \cup {"heredoc", "pipe", "command"}
              /\ tokens[i].type \in TextType \cup {"command"} =>
                   tokens[i].value # <<>> /\ Lexemes[i] = Lexeme("word", tokens[i].value)
              /\ tokens[i].type \notin TextType \cup {"command"} =>
                   Lexemes[i] = Lexeme(tokens[i].type, <<>>)
         /\ \A i : KindAt(Lexemes, i) = IF TypeAt(i) \in TextType \cup {"command"} THEN "word"
                                         ELSE TypeAt(i)
<1>1. /\ Len(tokens) \in Nat /\ DOMAIN tokens = 1 .. Len(tokens) /\ DOMAIN Lexemes = 1 .. Len(tokens)
      /\ Len(Lexemes) = Len(tokens)
  <2>1. /\ tokens \in Seq(ReadyToken) /\ Lexemes \in Seq(LexemeSet) /\ Len(Lexemes) = Len(tokens)
    BY DEF Ready
  <2> QED
    BY <2>1, LenProperties
<1>2. ASSUME NEW i \in 1 .. Len(tokens)
      PROVE   /\ tokens[i] \in ReadyToken /\ tokens[i].value \in Text
              /\ TypeAt(i) = tokens[i].type
              /\ tokens[i].type \in TextType \cup FileType \cup {"heredoc", "pipe", "command"}
              /\ tokens[i].type \in TextType \cup {"command"} =>
                   tokens[i].value # <<>> /\ Lexemes[i] = Lexeme("word", tokens[i].value)
              /\ tokens[i].type \notin TextType \cup {"command"} =>
                   Lexemes[i] = Lexeme(tokens[i].type, <<>>)
  <2> DEFINE t == tokens[i]
  <2>1. t \in ReadyToken /\ Lexemes[i] = LexemeOf(t) /\ TypeAt(i) = t.type
    BY <1>1, ElementOfSeq DEF Ready, TypeAt
  <2> HIDE DEF t
  <2>2. /\ t.value \in Text
        /\ t.type \in TextType \cup FileType \cup {"heredoc", "pipe", "command"}
        /\ t.type \in TextType \cup {"command"} => t.value # <<>>
    BY <2>1 DEF ReadyToken
  <2>3. /\ t.type \in TextType \cup {"command"} => Lexemes[i] = Lexeme("word", t.value)
        /\ t.type \notin TextType \cup {"command"} => Lexemes[i] = Lexeme(t.type, <<>>)
    BY <2>1 DEF LexemeOf
  <2>4. /\ t \in ReadyToken /\ t.value \in Text /\ TypeAt(i) = t.type
        /\ t.type \in TextType \cup {"command"} =>
             t.value # <<>> /\ Lexemes[i] = Lexeme("word", t.value)
    BY <2>1, <2>2, <2>3
  <2> QED
    BY ONLY <2>2, <2>3, <2>4 DEF t
<1>3. ASSUME NEW i
      PROVE  KindAt(Lexemes, i) = IF TypeAt(i) \in TextType \cup {"command"} THEN "word" ELSE TypeAt(i)
  <2>1. CASE i \in 1 .. Len(tokens)
    <3>1. KindAt(Lexemes, i) = Lexemes[i].kind
      BY <1>1, <2>1 DEF KindAt
    <3>2. Lexemes[i].kind = IF TypeAt(i) \in TextType \cup {"command"} THEN "word" ELSE TypeAt(i)
      <4> DEFINE t == tokens[i]  x == Lexemes[i]
      <4>1. /\ TypeAt(i) = t.type
            /\ t.type \in TextType \cup {"command"} => x = Lexeme("word", t.value)
            /\ t.type \notin TextType \cup {"command"} => x = Lexeme(t.type, <<>>)
        BY <1>2, <2>1
      <4> HIDE DEF t, x
      <4>2. x.kind = IF t.type \in TextType \cup {"command"} THEN "word" ELSE t.type
        BY <4>1 DEF Lexeme
      <4> QED
        BY <4>1, <4>2 DEF x
    <3> QED
      BY <3>1, <3>2
  <2>2. CASE i \notin 1 .. Len(tokens)
    <3>1. KindAt(Lexemes, i) = End /\ TypeAt(i) = End
      BY <1>1, <2>2 DEF KindAt, TypeAt
    <3> QED
      BY <3>1 DEF End, TextType
  <2> QED
    BY <2>1, <2>2
<1> QED
  BY <1>1, <1>2, <1>3

\* validate_tokens accepts what the reading takes for well formed.
LEMMA ValidIs ==
  ASSUME Plain, Ready(tokens)
  PROVE  Valid <=> WellFormed(Lexemes)
<1>1. /\ DOMAIN tokens = 1 .. Len(tokens) /\ DOMAIN Lexemes = 1 .. Len(tokens) /\ Len(tokens) \in Nat
      /\ \A i : KindAt(Lexemes, i) = IF TypeAt(i) \in TextType \cup {"command"} THEN "word"
                                      ELSE TypeAt(i)
      /\ \A i \in 1 .. Len(tokens) :
           /\ TypeAt(i) \in TextType \cup FileType \cup {"heredoc", "pipe", "command"}
           /\ KindAt(Lexemes, i) = Lexemes[i].kind
           /\ TypeAt(i) = "command" => Lexemes[i].text \in CommandWords
  <2>1. ASSUME NEW i \in 1 .. Len(tokens)
        PROVE  /\ TypeAt(i) \in TextType \cup FileType \cup {"heredoc", "pipe", "command"}
               /\ KindAt(Lexemes, i) = Lexemes[i].kind
               /\ TypeAt(i) = "command" => Lexemes[i].text \in CommandWords
    <3>1. /\ TypeAt(i) \in TextType \cup FileType \cup {"heredoc", "pipe", "command"}
          /\ TypeAt(i) = tokens[i].type /\ tokens[i] \in ReadyToken
          /\ tokens[i].type \in TextType \cup {"command"} => Lexemes[i] = Lexeme("word", tokens[i].value)
      BY KindsAre
    <3>2. KindAt(Lexemes, i) = Lexemes[i].kind
      BY KindsAre DEF KindAt
    <3>3. TypeAt(i) = "command" => tokens[i].value \in CommandWords
      BY <3>1 DEF ReadyToken
    <3> QED
      BY <3>1, <3>2, <3>3 DEF Lexeme
  <2> QED
    BY <2>1, KindsAre
<1>2. ASSUME NEW i \in 1 .. Len(tokens), TypeAt(i) \in FileType \cup {"heredoc"}
      PROVE  TypeAt(i + 1) # "command"
  <2> SUFFICES ASSUME TypeAt(i + 1) = "command" PROVE FALSE
    OBVIOUS
  <2>1. i + 1 \in 1 .. Len(tokens) /\ i + 1 - 1 = i
    BY <1>1 DEF TypeAt, End
  <2>2. Lexemes[i + 1].text \in CommandWords
    BY <1>1, <2>1
  <2>3. KindAt(Lexemes, i) = TypeAt(i)
    BY <1>1, <1>2 DEF FileType, TextType
  <2> DEFINE j == i + 1
  <2>4. j - 1 = i /\ j \in DOMAIN Lexemes /\ Lexemes[j].text \in CommandWords
    BY <1>1, <2>1, <2>2
  <2> HIDE DEF j
  <2>5. KindAt(Lexemes, j - 1) \in FileType \cup {"heredoc"}
    BY <1>2, <2>3, <2>4
  <2>6. CommandWordFile
    BY <2>4, <2>5 DEF CommandWordFile
  <2> QED
    BY <2>6 DEF Plain
<1>3. KindAt(Lexemes, 1) # "pipe" <=> TypeAt(1) # "pipe"
  BY <1>1 DEF TextType
<1>4. ASSUME NEW i \in 1 .. Len(tokens)
      PROVE  ~(BadPipe(i) \/ BadRedirect(i) \/ BadAnd(i)) <=>
               /\ Lexemes[i].kind = "pipe" => KindAt(Lexemes, i + 1) \notin {"pipe", End}
               /\ Lexemes[i].kind \notin {"pipe", "word"} => KindAt(Lexemes, i + 1) = "word"
  <2> DEFINE j == i + 1
  <2>1. KindAt(Lexemes, j) = IF TypeAt(j) \in TextType \cup {"command"} THEN "word" ELSE TypeAt(j)
    BY <1>1
  <2>2. Lexemes[i].kind = IF TypeAt(i) \in TextType \cup {"command"} THEN "word" ELSE TypeAt(i)
    BY <1>1
  <2>3. TypeAt(i) \in TextType \cup FileType \cup {"heredoc", "pipe", "command"}
    BY <1>1
  <2>4. TypeAt(i) \in FileType \cup {"heredoc"} => TypeAt(j) # "command"
    BY <1>2
  <2>5. ~BadAnd(i)
    BY <2>3 DEF BadAnd, TextType, FileType
  <2>6. BadPipe(i) <=> TypeAt(i) = "pipe" /\ TypeAt(j) \in {End, "pipe"}
    BY DEF BadPipe
  <2>7. BadRedirect(i) <=> TypeAt(i) \in FileType \cup {"heredoc"} /\ TypeAt(j) \notin TextType
    BY DEF BadRedirect
  <2>8. TypeAt(j) # "word" => (KindAt(Lexemes, j) = "word" <=> TypeAt(j) \in TextType \cup {"command"})
    BY <2>1
  <2> HIDE DEF j
  <2> DEFINE a == TypeAt(i)  b == TypeAt(j)  k == KindAt(Lexemes, j)  m == Lexemes[i].kind
  <2>9. /\ k = IF b \in TextType \cup {"command"} THEN "word" ELSE b
        /\ m = IF a \in TextType \cup {"command"} THEN "word" ELSE a
        /\ a \in TextType \cup FileType \cup {"heredoc", "pipe", "command"}
        /\ a \in FileType \cup {"heredoc"} => b # "command"
        /\ BadPipe(i) <=> a = "pipe" /\ b \in {End, "pipe"}
        /\ BadRedirect(i) <=> a \in FileType \cup {"heredoc"} /\ b \notin TextType
    BY <2>1, <2>2, <2>3, <2>4, <2>6, <2>7
  <2> HIDE DEF a, b, k, m
  <2>10. ~(BadPipe(i) \/ BadRedirect(i)) <=>
           /\ m = "pipe" => k \notin {"pipe", End}
           /\ m \notin {"pipe", "word"} => k = "word"
    BY <2>9 DEF TextType, FileType, End
  <2> QED
    BY <2>5, <2>10 DEF k, m, j
<1> QED
  BY <1>1, <1>3, <1>4 DEF Valid, WellFormed

LEMMA ParseKeepsReading ==
  ASSUME ReadInv, ValidateTokens \/ ParseWord \/ ParseRedirect \/ ParseHeredoc \/ ParsePipe
                    \/ ParseAnd \/ Parsed
  PROVE  ReadInv'
<1>1. /\ line' = line /\ tokens' = tokens
      /\ \/ phase \in {"validate", "parse"} /\ phase' \in {"parse", "parsed"}
         \/ phase = "validate" /\ phase' = "refused" /\ ~Valid
  BY DEF ValidateTokens, ParseWord, ParseRedirect, ParseHeredoc, ParsePipe, ParseAnd, Parsed,
         ParseMoves, AtToken
<1>2. phase \in ReadyPhases /\ phase' \in ReadyPhases
  BY <1>1 DEF ReadyPhases
<1>3. Plain => Closed /\ Lexemes # <<>> /\ Ready(tokens)
  BY <1>2 DEF ReadInv
<1>4. Plain /\ phase' = "refused" => ~WellFormed(Lexemes)
  BY <1>1, <1>3, ValidIs
<1>5. WellFormed(Lexemes)' = WellFormed(Lexemes)
  <2>1. Lexemes' = Lexemes
    BY <1>1, ReadFixed
  <2> QED
    BY <2>1 DEF WellFormed, KindAt
<1>6. Plain' => Closed' /\ Lexemes' # <<>> /\ Ready(tokens)' /\ (phase' = "refused" => ~WellFormed(Lexemes)')
  BY <1>1, <1>3, <1>4, <1>5, ReadFixed
<1> QED
  BY <1>1, <1>6 DEF ReadInv

LEMMA ReadingIsKept ==
  ASSUME TokensInv, PosInv, LexInv, ReadInv, [Next]_vars
  PROVE  ReadInv'
<1>1. CASE UNCHANGED vars
  <2>1. line' = line /\ phase' = phase /\ pos' = pos /\ tokens' = tokens /\ cur' = cur
    BY <1>1 DEF vars
  <2>2. Lexemes' = Lexemes
    BY <2>1, ReadFixed
  <2>3. WellFormed(Lexemes)' = WellFormed(Lexemes)
    BY <2>2 DEF WellFormed, KindAt
  <2>4. (\E r : Reads(tokens, r) /\ Agree(r, pos)) => \E r : Reads(tokens, r)' /\ Agree(r, pos)'
    BY <2>1, ReadFixed
  <2> QED
    BY <2>1, <2>2, <2>3, <2>4, ReadFixed DEF ReadInv
<1>2. CASE Next
  BY <1>2, TokenizeKeepsReading, TokenizedKeepsReading, ExpandKeepsReading, MergeKeepsReading,
     CheckKeepsReading, ParseKeepsReading DEF Next
<1> QED
  BY <1>1, <1>2

-----------------------------------------------------------------------------
(* The lexemes and the commands *)

\* Grouping takes one lexeme after the other.
LEMMA GroupSteps ==
  ASSUME NEW ls, Len(ls) \in Nat
  PROVE  /\ Grouping(ls)[0] = <<NewCommand>>
         /\ \A i \in 1 .. Len(ls) : Grouping(ls)[i] = Add(ls, Grouping(ls)[i - 1], i)
<1> DEFINE n == Len(ls)
           e(f, i) == IF i = 0 THEN <<NewCommand>> ELSE Add(ls, f[i - 1], i)
           P(f, m) == f = [i \in 0 .. m |-> e(f, i)]
           T == {m \in 0 .. n : \E g : P(g, m)}
<1>1. n \in Nat
  OBVIOUS
<1>2. 0 \in T
  <2> DEFINE g == [i \in 0 .. 0 |-> <<NewCommand>>]
  <2>1. \A i \in 0 .. 0 : i = 0
    OBVIOUS
  <2>2. P(g, 0)
    BY <2>1
  <2>3. 0 \in 0 .. n
    BY <1>1
  <2> HIDE DEF P, g
  <2> QED
    BY <2>2, <2>3
<1>3. ASSUME NEW m \in 0 .. n - 1, m \in T PROVE m + 1 \in T
  <2>1. PICK g : P(g, m)
    BY <1>3
  <2> DEFINE h == [i \in 0 .. m + 1 |-> IF i = m + 1 THEN Add(ls, g[m], m + 1) ELSE g[i]]
  <2>2. \A i \in 0 .. m : g[i] = e(g, i)
    BY <2>1
  <2>3. m \in Nat /\ m + 1 \in 0 .. n /\ \A i \in 0 .. m : h[i] = g[i]
    BY <1>1, <1>3
  <2>4. h[m + 1] = Add(ls, g[m], m + 1)
    BY <2>3
  <2> HIDE DEF h
  <2>5. ASSUME NEW i \in 0 .. m + 1 PROVE h[i] = e(h, i)
    <3>1. CASE i = m + 1
      <4>1. i # 0 /\ i - 1 = m /\ h[m] = g[m]
        BY <2>3, <3>1
      <4> QED
        BY <2>4, <3>1, <4>1
    <3>2. CASE i \in 1 .. m
      <4>1. i \in 0 .. m /\ i - 1 \in 0 .. m /\ i # 0
        BY <2>3, <3>2
      <4>2. h[i] = g[i] /\ h[i - 1] = g[i - 1]
        BY <2>3, <4>1
      <4>3. g[i] = e(g, i)
        BY <2>2, <4>1
      <4> QED
        BY <4>1, <4>2, <4>3
    <3>3. CASE i = 0
      <4>1. 0 \in 0 .. m
        BY <2>3
      <4>2. h[0] = g[0] /\ g[0] = e(g, 0)
        BY <2>2, <2>3, <4>1
      <4> QED
        BY <3>3, <4>2
    <3> QED
      BY <2>3, <3>1, <3>2, <3>3
  <2>6. h = [i \in 0 .. m + 1 |-> h[i]]
    BY DEF h
  <2> HIDE DEF e
  <2>7. P(h, m + 1)
    BY <2>5, <2>6
  <2> HIDE DEF P
  <2> QED
    BY <2>3, <2>7
<1>4. n \in T
  <2> HIDE DEF T, n
  <2>1. \A k \in 0 .. n : k \in T
    BY <1>1, <1>2, <1>3, UpTo
  <2> QED
    BY <1>1, <2>1
<1>5. Grouping(ls) = CHOOSE f : P(f, n)
  BY DEF Grouping
<1>6. P(Grouping(ls), n)
  <2>1. \E g : P(g, n)
    BY <1>4
  <2> HIDE DEF P
  <2> QED
    BY <1>5, <2>1
<1>7. \A i \in 0 .. n : Grouping(ls)[i] = e(Grouping(ls), i)
  <2> DEFINE rd == Grouping(ls)
  <2>1. rd = [i \in 0 .. n |-> e(rd, i)]
    BY <1>6
  <2> HIDE DEF rd, n, e
  <2>2. \A i \in 0 .. n : rd[i] = e(rd, i)
    BY <2>1
  <2> QED
    BY <2>2 DEF rd
<1>8. 0 \in 0 .. n /\ \A i \in 1 .. n : i \in 0 .. n /\ i # 0
  BY <1>1
<1> HIDE DEF n
<1>9. Grouping(ls)[0] = <<NewCommand>>
  BY <1>7, <1>8
<1>10. \A i \in 1 .. n : Grouping(ls)[i] = Add(ls, Grouping(ls)[i - 1], i)
  BY <1>7, <1>8
<1> QED
  BY <1>9, <1>10 DEF n

\* What words and heredocs add to a command.
WithArg(c, v)       == [c EXCEPT !.args = Append(@, v)]
WithDelimiter(c, v) == [c EXCEPT !.delimiter = Append(@, v)]
WithHeredoc(c, v, x) == [c EXCEPT !.delimiter = << v >>, !.expand = x]

\* What each lexeme does to the commands.
LEMMA AddIs ==
  ASSUME NEW ls, NEW cs, NEW i
  PROVE  /\ ls[i].kind = "pipe" => Add(ls, cs, i) = Append(cs, NewCommand)
         /\ ls[i].kind \in FileType =>
              Add(ls, cs, i) = WithLast(cs, AddRedir(Last(cs), ls[i + 1].text, ls[i].kind))
         /\ ls[i].kind = "heredoc" =>
              Add(ls, cs, i) = WithLast(cs, WithDelimiter(Last(cs), ls[i + 1].text))
         /\ ls[i].kind = "word" /\ KindAt(ls, i - 1) \in FileType \cup {"heredoc"} =>
              Add(ls, cs, i) = cs
         /\ ls[i].kind = "word" /\ KindAt(ls, i - 1) \notin FileType \cup {"heredoc"} =>
              Add(ls, cs, i) = WithLast(cs, WithArg(Last(cs), ls[i].text))
<1> DEFINE kind == ls[i].kind
           a == Append(cs, NewCommand)
           b == WithLast(cs, AddRedir(Last(cs), ls[i + 1].text, kind))
           d == WithLast(cs, WithDelimiter(Last(cs), ls[i + 1].text))
           e == WithLast(cs, WithArg(Last(cs), ls[i].text))
           k == KindAt(ls, i - 1) \in FileType \cup {"heredoc"}
<1>1. Add(ls, cs, i) = CASE kind = "pipe" -> a
                         [] kind \in FileType -> b
                         [] kind = "heredoc" -> d
                         [] kind = "word" /\ k -> cs
                         [] OTHER -> e
  BY DEF Add, WithArg, WithDelimiter
<1> HIDE DEF a, b, d, e, k, kind
<1>2. /\ kind = "pipe" => Add(ls, cs, i) = a
      /\ kind \in FileType => Add(ls, cs, i) = b
      /\ kind = "heredoc" => Add(ls, cs, i) = d
      /\ kind = "word" /\ k => Add(ls, cs, i) = cs
      /\ kind = "word" /\ ~k => Add(ls, cs, i) = e
  BY <1>1 DEF FileType
<1> QED
  BY <1>2 DEF a, b, d, e, k, kind

Plainer(c) == [c EXCEPT !.expand = TRUE]

\* What parse_tokens does to a command is done whatever is known of its heredoc.
LEMMA PlainerIs ==
  ASSUME NEW V, NEW c \in CommandOf(V), NEW v \in V, NEW kind \in FileType, NEW x \in BOOLEAN
  PROVE  /\ Plainer(c) \in CommandOf(V)
         /\ WithArg(c, v) \in CommandOf(V) /\ Plainer(WithArg(c, v)) = WithArg(Plainer(c), v)
         /\ AddRedir(c, v, kind) \in CommandOf(V)
         /\ Plainer(AddRedir(c, v, kind)) = AddRedir(Plainer(c), v, kind)
         /\ WithHeredoc(c, v, x) \in CommandOf(V)
         /\ c.delimiter = <<>> => Plainer(WithHeredoc(c, v, x)) = WithDelimiter(Plainer(c), v)
<1> DEFINE R == [file : V, type : FileType]  r == [file |-> v, type |-> kind]
           A == Seq(V)  S == Seq(R)
           as == Append(c.args, v)  rs == Append(c.redirects, r)  d == << v >>
<1>1. CommandOf(V) = [args : A, redirects : S, delimiter : A, expand : BOOLEAN]
  BY DEF CommandOf
<1>2. r \in R
  OBVIOUS
<1> HIDE DEF r, R
<1>3. as \in A /\ d \in A
  <2>1. c.args \in Seq(V)
    BY <1>1
  <2> QED
    BY <2>1, AppendProperties
<1>4. rs \in S
  <2>1. c.redirects \in Seq(R)
    BY <1>1
  <2> QED
    BY <1>2, <2>1, AppendProperties
<1>5. AddRedir(c, v, kind) = [c EXCEPT !.redirects = rs]
  BY DEF AddRedir, r
<1>6. AddRedir(Plainer(c), v, kind) = [Plainer(c) EXCEPT !.redirects = Append(@, r)]
  BY DEF AddRedir, r
<1>7. Plainer(c).args = c.args /\ Plainer(c).redirects = c.redirects
  BY <1>1 DEF Plainer
<1>8. /\ WithArg(c, v) = [c EXCEPT !.args = as]
      /\ WithArg(Plainer(c), v) = [Plainer(c) EXCEPT !.args = as]
      /\ [Plainer(c) EXCEPT !.redirects = Append(@, r)] = [Plainer(c) EXCEPT !.redirects = rs]
      /\ WithHeredoc(c, v, x) = [c EXCEPT !.delimiter = d, !.expand = x]
  BY <1>7 DEF WithArg, WithHeredoc
<1>13. c.delimiter = <<>> => WithDelimiter(Plainer(c), v) = [Plainer(c) EXCEPT !.delimiter = d]
  <2> SUFFICES ASSUME c.delimiter = <<>>
               PROVE  WithDelimiter(Plainer(c), v) = [Plainer(c) EXCEPT !.delimiter = d]
    OBVIOUS
  <2>1. Plainer(c).delimiter = <<>>
    BY <1>1 DEF Plainer
  <2>2. Append(<<>>, v) = d
    OBVIOUS
  <2> QED
    BY <2>1, <2>2 DEF WithDelimiter
<1> HIDE DEF A, S, as, rs, d
<1>9. /\ Plainer(c) \in CommandOf(V)
      /\ [c EXCEPT !.args = as] \in CommandOf(V)
      /\ [c EXCEPT !.redirects = rs] \in CommandOf(V)
      /\ [c EXCEPT !.delimiter = d, !.expand = x] \in CommandOf(V)
  <2> DEFINE C == CommandOf(V)
  <2>1. C = [args : A, redirects : S, delimiter : A, expand : BOOLEAN] /\ c \in C
    BY <1>1
  <2> HIDE DEF C
  <2>2. Plainer(c) \in C
    BY <2>1 DEF Plainer
  <2>3. [c EXCEPT !.args = as] \in C
    BY <1>3, <2>1
  <2>4. [c EXCEPT !.redirects = rs] \in C
    BY <1>4, <2>1
  <2>5. [c EXCEPT !.delimiter = d, !.expand = x] \in C
    BY <1>3, <2>1
  <2> QED
    BY <2>2, <2>3, <2>4, <2>5 DEF C
<1>10. Plainer([c EXCEPT !.args = as]) = [Plainer(c) EXCEPT !.args = as]
  BY <1>1 DEF Plainer
<1>11. Plainer([c EXCEPT !.redirects = rs]) = [Plainer(c) EXCEPT !.redirects = rs]
  BY <1>1 DEF Plainer
<1>12. Plainer([c EXCEPT !.delimiter = d, !.expand = x]) = [Plainer(c) EXCEPT !.delimiter = d]
  BY <1>1 DEF Plainer
<1> QED
  BY <1>5, <1>6, <1>8, <1>9, <1>10, <1>11, <1>12, <1>13

\* The commands that are plainly read are those of the plain commands.
LEMMA PlainlyIs ==
  ASSUME NEW V, NEW cs \in Seq(CommandOf(V))
  PROVE  /\ Plainly(cs) \in Seq(CommandOf(V)) /\ Len(Plainly(cs)) = Len(cs)
         /\ \A i \in 1 .. Len(cs) : Plainly(cs)[i] = Plainer(cs[i])
<1>1. /\ Len(cs) \in Nat /\ DOMAIN cs = 1 .. Len(cs)
      /\ \A i \in 1 .. Len(cs) : cs[i] \in CommandOf(V)
  BY LenProperties, ElementOfSeq
<1>2. Plainly(cs) = [i \in 1 .. Len(cs) |-> Plainer(cs[i])]
  BY <1>1 DEF Plainly, Plainer
<1>3. \A i \in 1 .. Len(cs) : Plainer(cs[i]) \in CommandOf(V)
  <2> SUFFICES ASSUME NEW i \in 1 .. Len(cs) PROVE Plainer(cs[i]) \in CommandOf(V)
    OBVIOUS
  <2>1. cs[i] \in CommandOf(V)
    BY <1>1
  <2> QED
    BY <2>1 DEF Plainer, CommandOf
<1>4. Plainly(cs) \in [1 .. Len(cs) -> CommandOf(V)]
  BY <1>2, <1>3
<1>5. \A i \in 1 .. Len(cs) : Plainly(cs)[i] = Plainer(cs[i])
  BY <1>2
<1>6. Plainly(cs) \in Seq(CommandOf(V)) /\ Len(Plainly(cs)) = Len(cs)
  BY <1>1, <1>4
<1> QED
  BY <1>5, <1>6

LEMMA PlainlyWith ==
  ASSUME NEW V, NEW cs \in Seq(CommandOf(V)), Len(cs) >= 1, NEW d \in CommandOf(V)
  PROVE  /\ Last(Plainly(cs)) = Plainer(Last(cs))
         /\ Plainly(Append(Front(cs), d)) = WithLast(Plainly(cs), Plainer(d))
<1> DEFINE x == Plainly(cs)  q == Append(Front(cs), d)  e == Plainer(d)  y == Append(Front(x), e)
           z == Plainly(q)  n == Len(cs)  C == CommandOf(V)
<1>1. /\ x \in Seq(C) /\ Len(x) = n /\ \A i \in 1 .. n : x[i] = Plainer(cs[i])
  BY PlainlyIs
<1>2. n \in Nat /\ n >= 1 /\ n \in 1 .. n
  BY LenProperties
<1>3. e \in C
  BY DEF Plainer, CommandOf
<1>4. /\ Last(cs) = cs[n] /\ q \in Seq(C) /\ Len(q) = n
      /\ \A i \in 1 .. n : q[i] = IF i = n THEN d ELSE cs[i]
  <2>1. cs \in Seq(C) /\ Len(cs) >= 1 /\ d \in C
    OBVIOUS
  <2> HIDE DEF C
  <2> QED
    BY <2>1, LastReplaced
<1> HIDE DEF x, e, q
<1>5. /\ Last(x) = x[n] /\ y \in Seq(C) /\ Len(y) = n
      /\ \A i \in 1 .. n : y[i] = IF i = n THEN e ELSE x[i]
  <2>1. x \in Seq(C) /\ Len(x) >= 1 /\ e \in C /\ Len(x) = n
    BY <1>1, <1>2, <1>3
  <2> HIDE DEF n, C
  <2> QED
    BY <2>1, LastReplaced
<1>6. z \in Seq(C) /\ Len(z) = n /\ \A i \in 1 .. n : z[i] = Plainer(q[i])
  BY <1>4, PlainlyIs
<1> HIDE DEF y, z
<1>7. ASSUME NEW i \in 1 .. n PROVE z[i] = y[i]
  <2>1. CASE i = n
    BY <1>4, <1>5, <1>6, <2>1 DEF e
  <2>2. CASE i # n
    BY <1>1, <1>4, <1>5, <1>6, <2>2
  <2> QED
    BY <2>1, <2>2
<1>8. z = y
  <2> HIDE DEF C, n
  <2> QED
    BY <1>5, <1>6, <1>7, SeqEqual
<1>9. Last(x) = Plainer(Last(cs))
  BY <1>1, <1>2, <1>4, <1>5
<1> QED
  BY <1>8, <1>9 DEF x, y, z, q, e, WithLast

LEMMA EmptyCommand ==
  ASSUME NEW V
  PROVE  NewCommand \in CommandOf(V) /\ Plainer(NewCommand) = NewCommand
<1> DEFINE C == CommandOf(V)
<1>1. NewCommand \in C /\ Plainer(NewCommand) = NewCommand
  <2>1. <<>> \in Seq(V) /\ <<>> \in Seq([file : V, type : FileType])
    BY EmptySeq
  <2> DEFINE e == <<>>  A == Seq(V)  S == Seq([file : V, type : FileType])
  <2>2. /\ NewCommand = [args |-> e, redirects |-> e, delimiter |-> e, expand |-> TRUE]
        /\ C = [args : A, redirects : S, delimiter : A, expand : BOOLEAN]
    BY DEF NewCommand, CommandOf
  <2>3. e \in A /\ e \in S
    BY <2>1
  <2> HIDE DEF e, A, S, C
  <2>4. NewCommand \in C
    BY <2>2, <2>3
  <2>5. Plainer(NewCommand) = NewCommand
    <3> DEFINE r == NewCommand
    <3>1. r \in [args : A, redirects : S, delimiter : A, expand : BOOLEAN] /\ r.expand = TRUE
      BY <2>2, <2>4
    <3> HIDE DEF r
    <3>2. [r EXCEPT !.expand = TRUE] = r
      BY <3>1
    <3> QED
      BY <3>2 DEF r, Plainer
  <2> QED
    BY <2>4, <2>5
<1> QED
  BY <1>1

LEMMA PlainlyMore ==
  ASSUME NEW V, NEW cs \in Seq(CommandOf(V))
  PROVE  Plainly(Append(cs, NewCommand)) = Append(Plainly(cs), NewCommand)
<1> DEFINE C == CommandOf(V)  x == Plainly(cs)  q == Append(cs, NewCommand)  z == Plainly(q)
           y == Append(x, NewCommand)  n == Len(cs)
<1>1. NewCommand \in C /\ Plainer(NewCommand) = NewCommand
  BY EmptyCommand
<1>2. n \in Nat
  BY LenProperties
<1>3. x \in Seq(C) /\ Len(x) = n /\ \A i \in 1 .. n : x[i] = Plainer(cs[i])
  BY PlainlyIs
<1>4. /\ q \in Seq(C) /\ Len(q) = n + 1 /\ q[n + 1] = NewCommand
      /\ \A i \in 1 .. n : q[i] = cs[i]
  BY <1>1, AppendProperties
<1> HIDE DEF x, q
<1>5. /\ y \in Seq(C) /\ Len(y) = n + 1 /\ y[n + 1] = NewCommand
      /\ \A i \in 1 .. n : y[i] = x[i]
  BY <1>1, <1>3, AppendProperties
<1>6. z \in Seq(C) /\ Len(z) = n + 1 /\ \A i \in 1 .. n + 1 : z[i] = Plainer(q[i])
  <2>1. z \in Seq(C) /\ Len(z) = Len(q) /\ \A i \in 1 .. Len(q) : z[i] = Plainer(q[i])
    BY <1>4, PlainlyIs
  <2> QED
    BY <1>4, <2>1
<1> HIDE DEF y, z, n
<1>7. ASSUME NEW i \in 1 .. n + 1 PROVE z[i] = y[i]
  <2>1. CASE i = n + 1
    BY <1>1, <1>4, <1>5, <1>6, <2>1
  <2>2. CASE i \in 1 .. n
    BY <1>3, <1>4, <1>5, <1>6, <2>2
  <2> QED
    BY <1>2, <2>1, <2>2
<1>8. z = y
  <2> HIDE DEF C
  <2>1. Len(z) = Len(y) /\ \A i \in 1 .. Len(z) : z[i] = y[i]
    BY <1>5, <1>6, <1>7
  <2> QED
    BY <1>5, <1>6, <2>1, SeqEqual
<1> QED
  BY <1>8 DEF z, y, x, q

FileKinds == FileType \cup {"heredoc"}

\* The command that lexeme p belongs to has a << so far.
HasHeredoc(p) ==
  \E h \in 1 .. p : /\ KindAt(Lexemes, h) = "heredoc"
                    /\ \A m \in h .. p : KindAt(Lexemes, m) # "pipe"

\* The commands so far, plainly read, are those of the lexemes so far, and the
\* last one has a delimiter only by a <<.
GroupedTo(p) == /\ KindAt(Lexemes, p) \notin FileKinds
                /\ Plainly(commands) = Grouping(Lexemes)[p]
                /\ Last(commands).delimiter # <<>> => HasHeredoc(p)

GroupInv ==
  Plain /\ phase \in {"parse", "parsed"} => WellFormed(Lexemes) /\ GroupedTo(cur - 1)

LEMMA GroupFixed ==
  ASSUME line' = line
  PROVE  /\ Plain' = Plain /\ WellFormed(Lexemes)' = WellFormed(Lexemes)
         /\ GroupInv' <=> (Plain /\ phase' \in {"parse", "parsed"} =>
                             /\ WellFormed(Lexemes) /\ KindAt(Lexemes, cur' - 1) \notin FileKinds
                             /\ Plainly(commands') = Grouping(Lexemes)[cur' - 1]
                             /\ Last(commands').delimiter # <<>> => HasHeredoc(cur' - 1))
<1>1. Plain' = Plain /\ Lexemes' = Lexemes
  BY ReadFixed
<1>2. WellFormed(Lexemes)' = WellFormed(Lexemes)
  BY <1>1 DEF WellFormed, KindAt
<1>3. KindAt(Lexemes, cur - 1)' = KindAt(Lexemes, cur' - 1)
  BY <1>1 DEF KindAt
<1>4. Grouping(Lexemes)' = Grouping(Lexemes)
  BY <1>1 DEF Grouping, Add
<1>5. (Grouping(Lexemes)[cur - 1])' = Grouping(Lexemes)[cur' - 1]
  BY <1>4
<1>6. Plainly(commands)' = Plainly(commands')
  BY DEF Plainly
<1>8. HasHeredoc(cur - 1)' <=> HasHeredoc(cur' - 1)
  BY <1>1 DEF HasHeredoc, KindAt
<1>9. (Last(commands).delimiter)' = Last(commands').delimiter
  BY DEF Last
<1>7. GroupedTo(cur - 1)' <=> /\ KindAt(Lexemes, cur' - 1) \notin FileKinds
                              /\ Plainly(commands') = Grouping(Lexemes)[cur' - 1]
                              /\ Last(commands').delimiter # <<>> => HasHeredoc(cur' - 1)
  BY <1>3, <1>5, <1>6, <1>8, <1>9 DEF GroupedTo, FileKinds
<1> QED
  BY <1>1, <1>2, <1>7 DEF GroupInv

\* A << is of the command until a pipe comes.
LEMMA HeredocStays ==
  ASSUME NEW p \in Nat, KindAt(Lexemes, p + 1) # "pipe",
         HasHeredoc(p) \/ KindAt(Lexemes, p + 1) = "heredoc"
  PROVE  HasHeredoc(p + 1)
<1> DEFINE q == p + 1
<1>1. q \in Nat /\ q \in 1 .. q /\ 1 .. p \subseteq 1 .. q
  OBVIOUS
<1>2. CASE KindAt(Lexemes, q) = "heredoc"
  <2>1. \A m \in q .. q : m = q
    OBVIOUS
  <2> QED
    BY <1>1, <1>2, <2>1 DEF HasHeredoc
<1>3. CASE HasHeredoc(p)
  <2>1. PICK h \in 1 .. p : /\ KindAt(Lexemes, h) = "heredoc"
                            /\ \A m \in h .. p : KindAt(Lexemes, m) # "pipe"
    BY <1>3 DEF HasHeredoc
  <2>2. \A m \in h .. q : m \in h .. p \/ m = q
    OBVIOUS
  <2>3. \A m \in h .. q : KindAt(Lexemes, m) # "pipe"
    BY <2>1, <2>2
  <2> QED
    BY <1>1, <2>1, <2>3 DEF HasHeredoc
<1> QED
  BY <1>2, <1>3

\* At a token that is parsed.
LEMMA AtLexeme ==
  ASSUME TokensInv, ParseInv, ReadInv, GroupInv, Plain, AtToken("parse")
  PROVE  /\ Ready(tokens) /\ WellFormed(Lexemes) /\ cur \in 1 .. Len(tokens)
         /\ cur \in 1 .. Len(Lexemes) /\ Len(Lexemes) = Len(tokens) /\ Len(tokens) \in Nat
         /\ KindAt(Lexemes, cur - 1) \notin FileKinds
         /\ Grouping(Lexemes)[cur] = Add(Lexemes, Plainly(commands), cur)
         /\ commands \in Seq(CommandOf(Values)) /\ Len(commands) >= 1
         /\ ThisCommand = Last(commands) /\ ThisCommand \in CommandOf(Values)
         /\ Last(Plainly(commands)) = Plainer(ThisCommand)
         /\ ThisToken.value \in Values /\ ThisToken = tokens[cur] /\ TypeAt(cur) = ThisToken.type
         /\ ThisToken.type \in TextType \cup {"command"} =>
              ThisToken.value # <<>> /\ Lexemes[cur] = Lexeme("word", ThisToken.value)
         /\ ThisToken.type \notin TextType \cup {"command"} =>
              Lexemes[cur] = Lexeme(ThisToken.type, <<>>) /\ KindAt(Lexemes, cur) = ThisToken.type
         /\ ThisToken.type \in TextType \cup FileType \cup {"heredoc", "pipe", "command"}
         /\ ThisCommand.delimiter # <<>> => HasHeredoc(cur - 1)
<1>1. phase = "parse"
  BY DEF AtToken
<1>2. Ready(tokens) /\ WellFormed(Lexemes) /\ GroupedTo(cur - 1)
  BY <1>1 DEF ReadInv, GroupInv, ReadyPhases
<1>3. cur \in 1 .. Len(tokens) /\ Len(Lexemes) = Len(tokens) /\ Len(tokens) \in Nat
  BY <1>2, AtThisToken, KindsAre
<1>4. Grouping(Lexemes)[cur] = Add(Lexemes, Plainly(commands), cur)
  <2> DEFINE ls == Lexemes  g == Grouping(ls)
  <2>1. Len(ls) \in Nat /\ cur \in 1 .. Len(ls) /\ Plainly(commands) = g[cur - 1]
    BY <1>2, <1>3 DEF GroupedTo
  <2> HIDE DEF ls
  <2>2. g[cur] = Add(ls, g[cur - 1], cur)
    BY <2>1, GroupSteps
  <2> QED
    BY <2>1, <2>2 DEF ls
<1>5. /\ commands \in Seq(CommandOf(Values)) /\ Len(commands) >= 1
      /\ ThisCommand = Last(commands) /\ ThisCommand \in CommandOf(Values)
  BY CommandsAre DEF ThisCommand
<1>6. Last(Plainly(commands)) = Plainer(ThisCommand)
  <2> DEFINE V == Values
  <2>1. commands \in Seq(CommandOf(V)) /\ Len(commands) >= 1 /\ ThisCommand \in CommandOf(V)
    BY <1>5
  <2> HIDE DEF V
  <2> QED
    BY <1>5, <2>1, PlainlyWith
<1>7. ThisToken.value \in Values /\ ThisToken = tokens[cur] /\ TypeAt(cur) = ThisToken.type
  BY AtThisToken DEF ThisToken
<1>8. /\ ThisToken.type \in TextType \cup {"command"} =>
           ThisToken.value # <<>> /\ Lexemes[cur] = Lexeme("word", ThisToken.value)
      /\ ThisToken.type \notin TextType \cup {"command"} => Lexemes[cur] = Lexeme(ThisToken.type, <<>>)
      /\ ThisToken.type \in TextType \cup FileType \cup {"heredoc", "pipe", "command"}
  BY <1>2, <1>3, <1>7, KindsAre
<1>9. ThisToken.type \notin TextType \cup {"command"} => KindAt(Lexemes, cur) = ThisToken.type
  BY <1>2, <1>7, KindsAre
<1> QED
  BY <1>2, <1>3, <1>4, <1>5, <1>6, <1>7, <1>8, <1>9 DEF GroupedTo

LEMMA WordKeepsGroups ==
  ASSUME TokensInv, ParseInv, ReadInv, GroupInv, ParseWord
  PROVE  GroupInv'
<1>1. /\ line' = line /\ phase' = phase /\ cur' = cur + 1 /\ AtToken("parse")
      /\ ThisToken.type \in TextType \cup {"command"}
  BY DEF ParseWord, ParseMoves
<1>2. SUFFICES ASSUME Plain
               PROVE  /\ WellFormed(Lexemes) /\ KindAt(Lexemes, cur' - 1) \notin FileKinds
                      /\ Plainly(commands') = Grouping(Lexemes)[cur' - 1]
                      /\ Last(commands').delimiter # <<>> => HasHeredoc(cur' - 1)
  BY <1>1, GroupFixed
<1> DEFINE v == ThisToken.value  c == ThisCommand  d == WithArg(c, v)
           x == Plainly(commands)  ls == Lexemes
<1>3. /\ WellFormed(ls) /\ cur \in 1 .. Len(tokens) /\ Len(tokens) \in Nat
      /\ KindAt(ls, cur - 1) \notin FileKinds /\ Grouping(ls)[cur] = Add(ls, x, cur)
      /\ commands \in Seq(CommandOf(Values)) /\ Len(commands) >= 1
      /\ c \in CommandOf(Values) /\ Last(x) = Plainer(c)
      /\ v \in Values /\ v # <<>> /\ ls[cur] = Lexeme("word", v) /\ Ready(tokens)
  BY <1>1, <1>2, AtLexeme
<1>4. commands' = Append(Front(commands), d)
  BY <1>3 DEF ParseWord, WithCommand, WithArg
<1>5. cur' - 1 = cur
  BY <1>1, <1>3
<1>6. KindAt(ls, cur) = "word"
  BY <1>3, KindsAre DEF KindAt, Lexeme
<1> DEFINE V == Values
<1>7. v \in V /\ c \in CommandOf(V) /\ commands \in Seq(CommandOf(V))
  BY <1>3
<1> HIDE DEF v, c, x, ls, V
<1>8. d \in CommandOf(V) /\ Plainer(d) = WithArg(Plainer(c), v)
  <2>1. "in" \in FileType /\ TRUE \in BOOLEAN
    BY DEF FileType
  <2> QED
    BY <1>7, <2>1, PlainerIs
<1> HIDE DEF d
<1>9. Plainly(Append(Front(commands), d)) = WithLast(x, Plainer(d))
  BY <1>3, <1>7, <1>8, PlainlyWith DEF x
<1>10. ls[cur].kind = "word" /\ ls[cur].text = v
  BY <1>3 DEF Lexeme
<1>11. Add(ls, x, cur) = WithLast(x, WithArg(Last(x), ls[cur].text))
  BY <1>3, <1>10, AddIs DEF FileKinds
<1>12. Plainly(commands') = Grouping(ls)[cur]
  BY <1>3, <1>4, <1>8, <1>9, <1>10, <1>11
<1>13. "word" \notin FileKinds
  BY DEF FileKinds, FileType
<1>14. Last(commands') = d /\ d.delimiter = c.delimiter
  <2>1. d.delimiter = c.delimiter
    BY <1>7 DEF d, WithArg, CommandOf
  <2> QED
    BY <1>3, <1>4, <1>7, <1>8, <2>1, ReplacementIsLast
<1>15. c.delimiter # <<>> => HasHeredoc(cur)
  <2> DEFINE p == cur - 1
  <2>1. p \in Nat /\ p + 1 = cur
    BY <1>3
  <2>2. c.delimiter # <<>> => HasHeredoc(p)
    BY <1>1, <1>2, AtLexeme DEF c
  <2> HIDE DEF p
  <2>3. KindAt(Lexemes, p + 1) # "pipe"
    BY <1>6, <2>1 DEF ls
  <2> QED
    BY <2>1, <2>2, <2>3, HeredocStays
<1> QED
  BY <1>3, <1>5, <1>6, <1>12, <1>13, <1>14, <1>15 DEF ls

\* A text that is the file of a redirection or the delimiter of a heredoc.
LEMMA FileLexeme ==
  ASSUME TokensInv, ParseInv, ReadInv, GroupInv, Plain, AtToken("parse"),
         ThisToken.type \in FileKinds
  PROVE  /\ TypeAt(cur + 1) \in TextType /\ cur + 1 \in 1 .. Len(tokens)
         /\ tokens[cur + 1].value \in Values
         /\ Lexemes[cur + 1].text = tokens[cur + 1].value
         /\ KindAt(Lexemes, cur + 1) = "word"
         /\ Grouping(Lexemes)[cur + 1] = Grouping(Lexemes)[cur]
         /\ Lexemes[cur].kind = ThisToken.type
<1> DEFINE k == cur + 1  ls == Lexemes  g == Grouping(ls)
<1>1. Valid /\ Ready(tokens) /\ Len(ls) = Len(tokens) /\ cur \in Nat /\ Len(tokens) \in Nat
  BY CommandsAre, AtLexeme, AtThisToken
<1>2. TypeAt(k) \in TextType /\ k \in 1 .. Len(tokens) /\ tokens[k].value \in Values
      /\ TypeAt(k) = tokens[k].type
  BY <1>1, TextFollows DEF FileKinds
<1>3. k - 1 = cur
  BY <1>1
<1>4. KindAt(ls, cur) = ThisToken.type /\ ls[cur] = Lexeme(ThisToken.type, <<>>)
  <2>1. ThisToken.type \notin TextType \cup {"command"}
    BY DEF FileKinds, FileType, TextType
  <2> QED
    BY <2>1, AtLexeme
<1> HIDE DEF k
<1>5. ls[k] = Lexeme("word", tokens[k].value)
  BY <1>1, <1>2, KindsAre
<1>6. KindAt(ls, k) = "word"
  BY <1>1, <1>2, KindsAre
<1>7. ls[k].kind = "word" /\ ls[k].text = tokens[k].value /\ ls[cur].kind = ThisToken.type
  BY <1>4, <1>5 DEF Lexeme
<1> HIDE DEF ls
<1>8. g[k] = Add(ls, g[k - 1], k)
  BY <1>1, <1>2, GroupSteps
<1>9. KindAt(ls, k - 1) \in FileKinds
  BY <1>3, <1>4
<1> HIDE DEF g
<1>10. Add(ls, g[k - 1], k) = g[k - 1]
  BY <1>7, <1>9, AddIs DEF FileKinds
<1>11. g[k] = g[cur]
  BY <1>3, <1>8, <1>10
<1> QED
  BY <1>2, <1>6, <1>7, <1>11 DEF k, ls, g

\* A line without a second heredoc in one command reads each one first.
LEMMA FirstOfCommand ==
  ASSUME TokensInv, ParseInv, ReadInv, GroupInv, Plain, AtToken("parse"),
         ThisToken.type = "heredoc"
  PROVE  ThisCommand.delimiter = <<>>
<1> SUFFICES ASSUME ThisCommand.delimiter # <<>> PROVE FALSE
  OBVIOUS
<1>1. /\ cur \in 1 .. Len(Lexemes) /\ Len(Lexemes) = Len(tokens) /\ Ready(tokens)
      /\ KindAt(Lexemes, cur) = "heredoc" /\ HasHeredoc(cur - 1)
  BY AtLexeme DEF TextType
<1> DEFINE ls == Lexemes  i == cur
<1>2. DOMAIN ls = 1 .. Len(ls) /\ Len(ls) \in Nat
  BY <1>1, KindsAre
<1>3. PICK h \in 1 .. i - 1 : /\ KindAt(ls, h) = "heredoc"
                              /\ \A m \in h .. i - 1 : KindAt(ls, m) # "pipe"
  BY <1>1 DEF HasHeredoc
<1>4. i \in DOMAIN ls /\ h \in DOMAIN ls /\ \A m \in h .. i : m \in DOMAIN ls /\ (m \in h .. i - 1 \/ m = i)
  BY <1>1, <1>2, <1>3
<1>5. \A m \in DOMAIN ls : KindAt(ls, m) = ls[m].kind
  BY DEF KindAt
<1>6. /\ ls[h].kind = "heredoc" /\ ls[i].kind = "heredoc"
      /\ \A m \in h .. i : ls[m].kind # "pipe"
  BY <1>1, <1>3, <1>4, <1>5
<1> HIDE DEF i
<1>7. SecondHeredoc
  BY <1>3, <1>4, <1>6 DEF SecondHeredoc
<1> QED
  BY <1>7 DEF Plain

LEMMA RedirectKeepsGroups ==
  ASSUME TokensInv, ParseInv, ReadInv, GroupInv, ParseRedirect \/ ParseHeredoc
  PROVE  GroupInv'
<1>1. /\ line' = line /\ phase' = phase /\ cur' = cur + 2 /\ AtToken("parse")
      /\ ThisToken.type \in FileKinds
  BY DEF ParseRedirect, ParseHeredoc, ParseMoves, FileKinds
<1>2. SUFFICES ASSUME Plain
               PROVE  /\ WellFormed(Lexemes) /\ KindAt(Lexemes, cur' - 1) \notin FileKinds
                      /\ Plainly(commands') = Grouping(Lexemes)[cur' - 1]
                      /\ Last(commands').delimiter # <<>> => HasHeredoc(cur' - 1)
  BY <1>1, GroupFixed
<1> DEFINE k == cur + 1  v == tokens[k].value  c == ThisCommand  type == ThisToken.type
           x == Plainly(commands)  ls == Lexemes  V == Values
<1>3. /\ WellFormed(ls) /\ cur \in 1 .. Len(tokens) /\ Len(tokens) \in Nat
      /\ Grouping(ls)[cur] = Add(ls, x, cur)
      /\ commands \in Seq(CommandOf(V)) /\ Len(commands) >= 1
      /\ c \in CommandOf(V) /\ Last(x) = Plainer(c)
  BY <1>1, <1>2, AtLexeme
<1>4. /\ TypeAt(k) \in TextType /\ v \in V /\ ls[k].text = v /\ KindAt(ls, k) = "word"
      /\ Grouping(ls)[k] = Grouping(ls)[cur] /\ ls[cur].kind = type
  BY <1>1, <1>2, FileLexeme
<1>5. cur' - 1 = k
  BY <1>1, <1>3
<1> DEFINE r == AddRedir(c, v, type)
           b == TypeAt(k) = "word"
           h == WithHeredoc(c, v, b)
<1>6. \/ type \in FileType /\ commands' = Append(Front(commands), r)
      \/ type = "heredoc" /\ commands' = Append(Front(commands), h)
  BY <1>4 DEF ParseRedirect, ParseHeredoc, WithCommand, WithHeredoc
<1> HIDE DEF v, c, x, ls, V, type, b
<1>7. Grouping(ls)[k] = Add(ls, x, cur) /\ ls[k].text = v
  BY <1>3, <1>4
<1> HIDE DEF k
<1>8. Plainly(commands') = Add(ls, x, cur)
  <2>1. CASE type \in FileType /\ commands' = Append(Front(commands), r)
    <3>1. r \in CommandOf(V) /\ Plainer(r) = AddRedir(Plainer(c), v, type)
      <4>1. TRUE \in BOOLEAN
        OBVIOUS
      <4> QED
        BY <1>3, <1>4, <2>1, <4>1, PlainerIs
    <3> HIDE DEF r
    <3>2. Plainly(Append(Front(commands), r)) = WithLast(x, Plainer(r))
      BY <1>3, <3>1, PlainlyWith DEF x
    <3>3. Add(ls, x, cur) = WithLast(x, AddRedir(Last(x), ls[cur + 1].text, type))
      BY <1>4, <2>1, AddIs
    <3> QED
      BY <1>3, <1>7, <2>1, <3>1, <3>2, <3>3 DEF k
  <2>2. CASE type = "heredoc" /\ commands' = Append(Front(commands), h)
    <3>1. h \in CommandOf(V) /\ Plainer(h) = WithDelimiter(Plainer(c), v)
      <4>1. "in" \in FileType /\ b \in BOOLEAN
        BY DEF FileType, b
      <4>2. c.delimiter = <<>>
        BY <1>1, <1>2, <2>2, FirstOfCommand DEF c, type
      <4> QED
        BY <1>3, <1>4, <4>1, <4>2, PlainerIs
    <3> HIDE DEF h
    <3>2. Plainly(Append(Front(commands), h)) = WithLast(x, Plainer(h))
      BY <1>3, <3>1, PlainlyWith DEF x
    <3>3. Add(ls, x, cur) = WithLast(x, WithDelimiter(Last(x), ls[cur + 1].text))
      BY <1>4, <2>2, AddIs
    <3> QED
      BY <1>3, <1>7, <2>2, <3>1, <3>2, <3>3 DEF k
  <2> QED
    BY <1>6, <2>1, <2>2
<1>9. "word" \notin FileKinds
  BY DEF FileKinds, FileType
<1>10. Last(commands').delimiter # <<>> => HasHeredoc(k)
  <2> DEFINE p == cur - 1
  <2>1. p \in Nat /\ p + 1 = cur /\ cur \in Nat
    BY <1>3
  <2>2. (c.delimiter # <<>> => HasHeredoc(p)) /\ KindAt(Lexemes, cur) = type
    BY <1>1, <1>2, AtLexeme DEF c, type, FileKinds, FileType, TextType
  <2> HIDE DEF p
  <2>3. type # "pipe"
    BY <1>6 DEF FileType
  <2>4. c.delimiter # <<>> \/ type = "heredoc" => HasHeredoc(cur)
    BY <2>1, <2>2, <2>3, HeredocStays
  <2>5. HasHeredoc(cur) => HasHeredoc(k)
    BY <1>4, <2>1, HeredocStays DEF k, ls
  <2>6. CASE type \in FileType /\ commands' = Append(Front(commands), r)
    <3>1. r \in CommandOf(V) /\ r.delimiter = c.delimiter
      <4>1. TRUE \in BOOLEAN
        OBVIOUS
      <4>2. r \in CommandOf(V)
        BY <1>3, <1>4, <2>6, <4>1, PlainerIs
      <4>3. r.delimiter = c.delimiter
        BY <1>3 DEF AddRedir, CommandOf
      <4> QED
        BY <4>2, <4>3
    <3> HIDE DEF r
    <3>2. Last(commands') = r
      BY <1>3, <2>6, <3>1, ReplacementIsLast
    <3> QED
      BY <2>4, <2>5, <3>1, <3>2
  <2> QED
    BY <1>6, <2>4, <2>5, <2>6
<1> QED
  BY <1>3, <1>4, <1>5, <1>7, <1>8, <1>9, <1>10 DEF ls, k

LEMMA NewIsLast ==
  ASSUME NEW V, NEW cs \in Seq(CommandOf(V))
  PROVE  Last(Append(cs, NewCommand)).delimiter = <<>>
<1> DEFINE c == NewCommand  C == CommandOf(V)  n == Len(cs)
<1>1. c.delimiter = <<>> /\ c \in C
  BY EmptyCommand DEF NewCommand
<1>2. cs \in Seq(C) /\ n \in Nat
  BY LenProperties
<1> HIDE DEF c, C
<1>3. Len(Append(cs, c)) = n + 1 /\ Append(cs, c)[n + 1] = c
  BY <1>1, <1>2, AppendProperties
<1>4. Last(Append(cs, c)) = c
  BY <1>3 DEF Last
<1> QED
  BY <1>1, <1>4 DEF c

LEMMA PipeKeepsGroups ==
  ASSUME TokensInv, ParseInv, ReadInv, GroupInv, ParsePipe
  PROVE  GroupInv'
<1>1. /\ line' = line /\ phase' = phase /\ cur' = cur + 1 /\ AtToken("parse")
      /\ ThisToken.type = "pipe"
  BY DEF ParsePipe, ParseMoves
<1>2. SUFFICES ASSUME Plain
               PROVE  /\ WellFormed(Lexemes) /\ KindAt(Lexemes, cur' - 1) \notin FileKinds
                      /\ Plainly(commands') = Grouping(Lexemes)[cur' - 1]
                      /\ Last(commands').delimiter # <<>> => HasHeredoc(cur' - 1)
  BY <1>1, GroupFixed
<1> DEFINE x == Plainly(commands)  ls == Lexemes  V == Values
<1>3. "pipe" \notin TextType \cup {"command"}
  BY DEF TextType
<1>4. /\ WellFormed(ls) /\ cur \in 1 .. Len(tokens) /\ Len(tokens) \in Nat
      /\ Grouping(ls)[cur] = Add(ls, x, cur)
      /\ commands \in Seq(CommandOf(V))
      /\ ls[cur] = Lexeme("pipe", <<>>) /\ KindAt(ls, cur) = "pipe" /\ TypeAt(cur) = "pipe"
  BY <1>1, <1>2, <1>3, AtLexeme
<1>5. cur < Len(tokens)
  <2>1. Valid /\ DOMAIN tokens = 1 .. Len(tokens)
    BY <1>1, CommandsAre, AtThisToken
  <2>2. TypeAt(cur + 1) # End
    BY <1>4, <2>1 DEF Valid, BadPipe
  <2> QED
    BY <1>4, <2>1, <2>2 DEF TypeAt
<1>6. commands' = Append(commands, NewCommand) /\ cur' - 1 = cur
  BY <1>1, <1>4, <1>5 DEF ParsePipe
<1> HIDE DEF x, ls, V
<1>7. Plainly(Append(commands, NewCommand)) = Append(x, NewCommand)
  BY <1>4, PlainlyMore DEF x
<1>8. ls[cur].kind = "pipe"
  BY <1>4 DEF Lexeme
<1>9. Add(ls, x, cur) = Append(x, NewCommand)
  BY <1>8, AddIs
<1>10. "pipe" \notin FileKinds
  BY DEF FileKinds, FileType
<1>11. Last(commands').delimiter = <<>>
  BY <1>4, <1>6, NewIsLast
<1> QED
  BY <1>4, <1>6, <1>7, <1>9, <1>10, <1>11 DEF ls

LEMMA ValidateStartsGroups ==
  ASSUME ParseInv, ReadInv, ValidateTokens
  PROVE  GroupInv'
<1>1. line' = line /\ cur' = cur /\ phase = "validate" /\ cur = 1
  BY DEF ValidateTokens, ParseInv
<1>2. SUFFICES ASSUME Plain, phase' \in {"parse", "parsed"}
               PROVE  /\ WellFormed(Lexemes) /\ KindAt(Lexemes, cur' - 1) \notin FileKinds
                      /\ Plainly(commands') = Grouping(Lexemes)[cur' - 1]
                      /\ Last(commands').delimiter # <<>> => HasHeredoc(cur' - 1)
  BY <1>1, GroupFixed
<1>3. Valid /\ commands' = <<NewCommand>>
  BY <1>2 DEF ValidateTokens
<1>4. Ready(tokens)
  BY <1>1, <1>2 DEF ReadInv, ReadyPhases
<1>5. WellFormed(Lexemes)
  BY <1>2, <1>3, <1>4, ValidIs
<1>6. cur' - 1 = 0
  BY <1>1
<1>7. KindAt(Lexemes, 0) = End
  BY <1>4, KindsAre DEF KindAt
<1>8. End \notin FileKinds
  BY DEF FileKinds, FileType, End
<1>9. Grouping(Lexemes)[0] = <<NewCommand>>
  <2> DEFINE ls == Lexemes
  <2>1. Len(ls) \in Nat
    BY <1>4, KindsAre
  <2> HIDE DEF ls
  <2>2. Grouping(ls)[0] = <<NewCommand>>
    BY <2>1, GroupSteps
  <2> QED
    BY <2>2 DEF ls
<1>10. Plainly(<<NewCommand>>) = <<NewCommand>>
  <2> DEFINE c == NewCommand  s == << c >>
  <2>1. DOMAIN s = {1} /\ s = [i \in {1} |-> c] /\ s[1] = c
    OBVIOUS
  <2>2. [c EXCEPT !.expand = TRUE] = c
    BY EmptyCommand DEF Plainer
  <2> HIDE DEF s, c
  <2>3. Plainly(s) = [i \in {1} |-> [s[i] EXCEPT !.expand = TRUE]]
    BY <2>1 DEF Plainly
  <2>4. Plainly(s) = s
    BY <2>1, <2>2, <2>3
  <2> QED
    BY <2>4 DEF s, c
<1>11. Last(<<NewCommand>>).delimiter = <<>>
  <2> DEFINE c == NewCommand
  <2>1. c.delimiter = <<>>
    BY DEF NewCommand
  <2> HIDE DEF c
  <2>2. Last(<< c >>) = c
    BY DEF Last
  <2> QED
    BY <2>1, <2>2 DEF c
<1> QED
  BY <1>3, <1>5, <1>6, <1>7, <1>8, <1>9, <1>10, <1>11

LEMMA GroupsAreKept ==
  ASSUME TokensInv, ParseInv, ReadInv, GroupInv, [Next]_vars
  PROVE  GroupInv'
<1>1. CASE line' = line /\ phase' = phase /\ cur' = cur /\ commands' = commands
  BY <1>1, GroupFixed DEF GroupInv, GroupedTo
<1>2. CASE UNCHANGED vars
  BY <1>1, <1>2 DEF vars
<1>3. CASE Tokenize \/ Tokenized \/ DropDollar \/ ExpandToken \/ ExpansionDone \/ MergeToken
           \/ CheckFormatCommand
  <2>1. phase' \notin {"parse", "parsed"}
    BY <1>3 DEF Tokenize, Operator, Word, Quoted, Unclosed, Tokenized, DropDollar, ExpandToken,
       ExpansionDone, MergeToken, CheckFormatCommand, AtToken
  <2> QED
    BY <2>1 DEF GroupInv
<1>4. CASE ParseAnd
  <2>1. line' = line /\ AtToken("parse") /\ ThisToken.type \in {"and", "amp"}
    BY <1>4 DEF ParseAnd, ParseMoves
  <2>2. ~Plain
    <3> SUFFICES ASSUME Plain PROVE FALSE
      OBVIOUS
    <3>1. ThisToken.type \in TextType \cup FileType \cup {"heredoc", "pipe", "command"}
      BY <2>1, AtLexeme
    <3> QED
      BY <2>1, <3>1 DEF TextType, FileType
  <2> QED
    BY <2>1, <2>2, GroupFixed
<1>5. CASE Parsed
  <2>1. line' = line /\ phase = "parse" /\ cur' = cur /\ commands' = commands
    BY <1>5 DEF Parsed
  <2> QED
    BY <2>1, GroupFixed DEF GroupInv, GroupedTo
<1> QED
  BY <1>2, <1>3, <1>4, <1>5, ValidateStartsGroups, WordKeepsGroups, RedirectKeepsGroups,
     PipeKeepsGroups DEF Next

-----------------------------------------------------------------------------
(* Theorems *)

LEMMA InvHolds == Spec => [](TokensInv /\ ParseInv)
<1>1. Init => TokensInv /\ ParseInv
  <2> SUFFICES ASSUME Init
               PROVE  TokensInv /\ ParseInv
    OBVIOUS
  <2>1. phase = "tokenize" /\ tokens = <<>> /\ cur = 1
    BY DEF Init
  <2>2. tokens \in Seq(RawOf({}))
    BY <2>1, EmptySeq
  <2> QED
    BY <2>1, <2>2 DEF TokensInv, ParseInv
<1>2. (TokensInv /\ ParseInv) /\ [Next]_vars => (TokensInv /\ ParseInv)'
  BY TokensAreKept, CommandsAreKept
<1> QED
  BY <1>1, <1>2, PTL DEF Spec

\* parse_tokens takes the token after a redirection without a test, and yet,
\* for every line, environment and set of command words, it never follows the
\* end of its list: check_format_command makes commands of words alone, and
\* the words it does not touch are what validate_tokens has found there.
THEOREM ParserStays == Spec => []ParserStaysInList
<1>1. ParseInv => ParserStaysInList
  BY DEF ParseInv, ParserStaysInList
<1> QED
  BY <1>1, InvHolds, PTL

\* validate_tokens lets no line pass whose operators alone make a command
\* without words and redirections: parse_tokens delivers an empty command only
\* if a text of the line is empty, whatever the lexer and the expander made.
THEOREM EmptyCommandsAreQuoted == Spec => []EmptyCommandsQuoted
<1>1. TokensInv /\ ParseInv => EmptyCommandsQuoted
  <2> SUFFICES ASSUME TokensInv, ParseInv, phase = "parsed",
                      NEW i \in DOMAIN commands, commands[i] = NewCommand, ~EmptyText
               PROVE  FALSE
    BY DEF EmptyCommandsQuoted, EmptyText
  <2>1. PICK V : tokens \in Seq(ReadyOf(V))
    BY DEF TokensInv
  <2>2. Len(tokens) \in Nat /\ Len(tokens) >= 1 /\ DOMAIN tokens = 1 .. Len(tokens)
    BY <2>1, LenProperties DEF TokensInv
  <2>3. i \in 1 .. Len(commands)
    <3>1. commands \in Seq(CommandOf(Values))
      BY DEF ParseInv
    <3> QED
      BY <3>1, LenProperties
  <2>4. /\ Valid /\ cur = Len(tokens) + 1
        /\ cur = 1 \/ TypeAt(cur - 1) \in {"pipe", "and", "amp"}
    BY <2>3 DEF ParseInv
  <2>5. cur - 1 \in DOMAIN tokens /\ cur - 1 = Len(tokens) /\ Len(tokens) + 1 \notin DOMAIN tokens
    BY <2>2, <2>4
  <2>6. TypeAt(cur - 1 + 1) = End
    BY <2>2, <2>4, <2>5 DEF TypeAt
  <2>7. ~(BadPipe(cur - 1) \/ BadAnd(cur - 1))
    BY <2>4, <2>5 DEF Valid
  <2> QED
    BY <2>2, <2>4, <2>6, <2>7 DEF BadPipe, BadAnd
<1> QED
  BY <1>1, InvHolds, PTL

LEMMA HeadHolds == Spec => []HeadInv
<1>1. Init => HeadInv
  <2> SUFFICES ASSUME Init PROVE HeadInv
    OBVIOUS
  <2>1. /\ line \in Lines /\ pos = 1 /\ tokens = <<>> /\ ~dangling
        /\ phase = "tokenize"
    BY DEF Init
  <2>2. line \in Seq(Characters)
    BY <2>1, SyntaxAssumption DEF Characters
  <2>3. pos \in 1 .. Len(line) + 1
    BY <2>1, <2>2, LineIs
  <2> QED
    BY <2>1, <2>2, <2>3 DEF HeadInv, PosInv
<1>2. TokensInv /\ HeadInv /\ [Next]_vars => HeadInv'
  BY HeadIsKept
<1> QED
  BY <1>1, <1>2, InvHolds, PTL DEF Spec

\* The expander frees the head of its list under its caller only for a line that
\* begins with a $, quoted or not: the first token is a $ for no other, and while
\* the expander is at the head, the head is that token.
THEOREM HeadIsFreedForDollars == Spec => []HeadStays
BY HeadHolds, BeginsIsHead, PTL

LEMMA TextHolds == Spec => []TextInv
<1>1. Init => TextInv
  <2> SUFFICES ASSUME Init PROVE TextInv
    OBVIOUS
  <2>1. phase = "tokenize" /\ tokens = <<>> /\ commands = <<>> /\ dangling = FALSE
    BY DEF Init
  <2>2. tokens \in Seq(RawOf(Text))
    BY <2>1, EmptySeq
  <2> QED
    BY <2>1, <2>2 DEF TextInv, RawPhases, ReadyPhases
<1>2. TokensInv /\ HeadInv /\ TextInv /\ [Next]_vars => TextInv'
  BY TextIsKept DEF HeadInv
<1> QED
  BY <1>1, <1>2, InvHolds, HeadHolds, PTL DEF Spec

\* tokenize never reads or cuts outside its line, and whatever a token holds, a
\* part of the line, its expansion or two joined, is a text; so are the words,
\* file names and delimiters that parse_tokens delivers.
THEOREM TypeCorrect == Spec => []TypeOK
<1>1. TokensInv /\ ParseInv /\ HeadInv /\ TextInv => TypeOK
  BY TextTypes DEF HeadInv
<1> QED
  BY <1>1, InvHolds, HeadHolds, TextHolds, PTL

LEMMA LexHolds == Spec => [](LexInv /\ OrderInv)
<1>1. Init => LexInv /\ OrderInv
  <2> SUFFICES ASSUME Init PROVE LexInv /\ OrderInv
    OBVIOUS
  <2>1. line \in Lines /\ phase = "tokenize" /\ pos = 1 /\ tokens = <<>>
    BY DEF Init
  <2>2. line \in Seq(Characters)
    BY <2>1, SyntaxAssumption DEF Characters
  <2>3. PosInv
    BY <2>1, <2>2, LineIs DEF PosInv
  <2>4. OpenQuote[pos] = NoQuote
    BY <2>1, <2>2, QuoteSteps
  <2>5. ASSUME NEW kind \in Kind
        PROVE  Weighed(tokens, kind) <= Cardinality(Before(Chars(kind), pos))
    <3>1. Cardinality(Before(Chars(kind), pos)) \in Nat
      BY <2>3, UnquotedIs
    <3>2. OfType(tokens, Types(kind)) = {}
      BY <2>1 DEF OfType
    <3>3. Weighed(tokens, kind) = 0
      BY <3>2, FS_EmptySet DEF Weighed, Weight
    <3> QED
      BY <3>1, <3>3
  <2> QED
    BY <2>1, <2>4, <2>5 DEF LexInv, OrderInv
<1>2. TokensInv /\ ParseInv /\ HeadInv /\ LexInv /\ OrderInv /\ [Next]_vars => (LexInv /\ OrderInv)'
  BY CountIsKept, OrderIsKept DEF HeadInv
<1> QED
  BY <1>1, <1>2, InvHolds, HeadHolds, PTL DEF Spec

\* What the quotes of a line hide stays hidden: the lexer takes for an operator
\* only a character outside them, and neither the value of a variable nor the
\* joining of tokens makes one, so parse_tokens makes no more commands and
\* redirections than the user has typed operators, for every line, environment
\* and set of command words.
THEOREM OperatorsAreTypedByUser == Spec => []OperatorsAreTyped
<1>1. TokensInv /\ ParseInv /\ HeadInv /\ LexInv /\ OrderInv => OperatorsAreTyped
  <2> SUFFICES ASSUME TokensInv, ParseInv, PosInv, LexInv, OrderInv, phase = "parsed"
               PROVE  /\ Len(commands) - 1 <= Cardinality(Unquoted({"|"}))
                      /\ Cardinality(Redirected) <= Cardinality(Unquoted(Redirects))
    BY DEF OperatorsAreTyped, HeadInv
  <2>1. ASSUME NEW kind \in Kind
        PROVE  /\ Cardinality(Behind(kind, cur)) \in Nat /\ Cardinality(Unquoted(Chars(kind))) \in Nat
               /\ Cardinality(Behind(kind, cur)) <= Cardinality(Unquoted(Chars(kind)))
    <3>1. PICK V : tokens \in Seq(ReadyOf(V))
      BY DEF TokensInv
    <3>2. /\ IsFiniteSet(OfType(tokens, Types(kind)))
          /\ Cardinality(OfType(tokens, Types(kind))) \in Nat
      BY <3>1, OfTypeIs
    <3>3. Behind(kind, cur) \in SUBSET OfType(tokens, Types(kind))
      BY DEF Behind
    <3>4. /\ Cardinality(Behind(kind, cur)) \in Nat
          /\ Cardinality(Behind(kind, cur)) <= Cardinality(OfType(tokens, Types(kind)))
      BY <3>2, <3>3, FS_Subset, FS_CardinalityType
    <3>5. /\ Cardinality(OfType(tokens, Types(kind))) <= Weighed(tokens, kind)
          /\ Weighed(tokens, kind) \in Nat
      BY <3>2, WeightIs DEF Weighed
    <3>6. Weighed(tokens, kind) <= Cardinality(Unquoted(Chars(kind)))
      BY DEF LexInv
    <3>7. Cardinality(Unquoted(Chars(kind))) \in Nat
      BY UnquotedIs
    <3> QED
      BY <3>2, <3>4, <3>5, <3>6, <3>7
  <2>2. /\ "pipe" \in Kind /\ Chars("pipe") = {"|"}
        /\ "redirect" \in Kind /\ Chars("redirect") = Redirects
    BY DEF Kind, Chars
  <2>3. /\ Cardinality(Behind("pipe", cur)) \in Nat /\ Cardinality(Unquoted({"|"})) \in Nat
        /\ Cardinality(Behind("pipe", cur)) <= Cardinality(Unquoted({"|"}))
    BY <2>1, <2>2
  <2>4. /\ Cardinality(Behind("redirect", cur)) \in Nat /\ Cardinality(Unquoted(Redirects)) \in Nat
        /\ Cardinality(Behind("redirect", cur)) <= Cardinality(Unquoted(Redirects))
    BY <2>1, <2>2
  <2>5. /\ Len(commands) - 1 <= Cardinality(Behind("pipe", cur)) /\ Len(commands) \in Nat
        /\ Cardinality(Redirected) <= Cardinality(Behind("redirect", cur))
        /\ Cardinality(Redirected) \in Nat
    <3>1. commands \in Seq(CommandOf(Values))
      BY DEF ParseInv
    <3> QED
      BY <3>1, LenProperties, FS_CardinalityType DEF OrderInv
  <2> QED
    BY <2>3, <2>4, <2>5
<1> QED
  BY <1>1, InvHolds, HeadHolds, LexHolds, PTL


\* Nothing that is typed is lost, and nothing is made up: on every line without
\* variables that has fewer than four unquoted <, so one << at most, a letter
\* stands in the words, files and delimiters of the commands as often as in the
\* line, whatever tokenize cut, the expander passed, merge_consecutive_tokens
\* joined and parse_tokens made of it.
THEOREM NoLetterIsLost == Spec => []NothingLost
<1>1. Init => KeepInv /\ HeldInv
  <2> SUFFICES ASSUME Init PROVE KeepInv /\ HeldInv
    OBVIOUS
  <2>1. line \in Lines /\ phase = "tokenize" /\ pos = 1 /\ tokens = <<>>
    BY DEF Init
  <2>2. line \in Seq(Characters)
    BY <2>1, SyntaxAssumption DEF Characters
  <2>3. PosInv
    BY <2>1, <2>2, LineIs DEF PosInv
  <2>4. ASSUME NEW x PROVE Typed(x, pos) = 0
    <3> DEFINE m == 1 - 1
    <3>1. 1 \in Int /\ m \in Int /\ m < 1
      OBVIOUS
    <3> HIDE DEF m
    <3>2. SubSeq(line, 1, m) = <<>>
      BY <3>1, SubSeqEmpty
    <3>3. Piece(1, 1) = <<>>
      BY <3>2, Zenon DEF Piece, m
    <3> DEFINE e == <<>>
    <3>4. e \in Text /\ \A i \in 1 .. Len(e) : e[i] # x
      BY Short, EmptySeq
    <3> HIDE DEF e
    <3>5. Count(x, e) = 0
      BY <3>4, NoneCounted
    <3> QED
      BY <2>1, <3>3, <3>5 DEF Typed, e
  <2>5. ASSUME NEW x PROVE Kept(x, tokens, Typed(x, pos))
    BY <2>1, <2>4, NothingKept
  <2> QED
    BY <2>1, <2>5 DEF KeepInv, HeldInv, Listed
<1>2. TokensInv /\ ParseInv /\ HeadInv /\ TextInv /\ LexInv /\ KeepInv /\ HeldInv /\ [Next]_vars
        => (KeepInv /\ HeldInv)'
  BY LettersAreKept, HeldIsKept DEF HeadInv
<1>3. TokensInv /\ ParseInv /\ HeadInv /\ KeepInv /\ HeldInv => NothingLost
  <2> SUFFICES ASSUME ParseInv, KeepInv, HeldInv, phase = "parsed", NoVariables, OneHeredoc,
                      NEW x, Letter(x)
               PROVE  Cardinality(Held(x, commands)) = Cardinality(Marks(x, line))
    BY DEF NothingLost, NoVariables, NoDollar, OneHeredoc
  <2>1. Kept(x, tokens, Count(x, line)) /\ HeldAsParsed(x) /\ cur = Len(tokens) + 1
    BY DEF KeepInv, Listed, HeldInv, ParseInv
  <2>2. PICK f : Running(x, tokens, f) /\ f[Len(tokens)] = Count(x, line)
    BY <2>1 DEF Kept, Sums
  <2>3. cur - 1 = Len(tokens)
    BY <2>1, LenProperties DEF Kept
  <2> QED
    BY <2>1, <2>2, <2>3 DEF HeldAsParsed, Count
<1> QED
  BY <1>1, <1>2, <1>3, InvHolds, HeadHolds, TextHolds, LexHolds, PTL DEF Spec

\* Apart from the lines that it is known to read otherwise, the code reads every
\* line as sh does, whatever its length and its words: it finds the same lines
\* blank, unclosed or refused, and of the others it makes the same commands, with
\* the same words, files and delimiters.
THEOREM PlainLinesAreRead == Spec => []PlainLinesRead
<1>1. Init => ReadInv /\ GroupInv
  <2> SUFFICES ASSUME Init PROVE ReadInv /\ GroupInv
    OBVIOUS
  <2>1. line \in Lines /\ phase = "tokenize" /\ pos = 1 /\ tokens = <<>>
    BY DEF Init
  <2>2. line \in Seq(Characters)
    BY <2>1, SyntaxAssumption DEF Characters
  <2>3. Reading[0] = Nothing
    BY <2>2, ReadSteps
  <2>4. Nothing = Ended(Nothing) /\ ~Nothing.open /\ Nothing.text = <<>> /\ Nothing.double = End
    <3>1. ~Nothing.open /\ Nothing.text = <<>> /\ Nothing.double = End
      BY DEF Nothing
    <3> DEFINE s == Nothing  e == Ended(s)
    <3>2. s \in State /\ ~s.open /\ s.text = <<>> /\ s.double = End
      BY <3>1, NothingIs
    <3> HIDE DEF s
    <3>3. e \in State /\ ~e.open /\ e.text = <<>> /\ e.double = End /\ e.lexemes = s.lexemes
      BY <3>2, EndedIs
    <3>4. s.open = e.open
      BY <3>2, <3>3 DEF State
    <3> HIDE DEF e
    <3>5. s = e
      BY <3>2, <3>3, <3>4, SameState
    <3> QED
      BY <3>1, <3>5 DEF s, e
  <2>5. At(1) \in Operators => At(1) # End
    BY DEF Operators, Redirects, End
  <2>6. pos - 1 = 0
    BY <2>1
  <2>7. Agree(Nothing, pos)
    BY <2>1, <2>3, <2>4, <2>5, <2>6 DEF Agree
  <2>8. Reads(tokens, Nothing)
    BY <2>1, NothingReads
  <2> QED
    BY <2>1, <2>7, <2>8 DEF ReadInv, GroupInv, ReadyPhases
<1>2. TokensInv /\ ParseInv /\ HeadInv /\ LexInv /\ ReadInv /\ GroupInv /\ [Next]_vars
        => (ReadInv /\ GroupInv)'
  BY ReadingIsKept, GroupsAreKept DEF HeadInv
<1>3. TokensInv /\ ParseInv /\ ReadInv /\ GroupInv => PlainLinesRead
  <2> SUFFICES ASSUME ParseInv, ReadInv, GroupInv, Plain,
                      phase \in {"blank", "unclosed", "refused", "parsed"}
               PROVE  /\ phase = "unclosed" <=> ~Closed
                      /\ phase = "blank"    <=> Closed /\ Lexemes = <<>>
                      /\ phase = "refused"  <=> Closed /\ Lexemes # <<>> /\ ~WellFormed(Lexemes)
                      /\ phase = "parsed"    => Plainly(commands) = Grouped(Lexemes)
    BY DEF PlainLinesRead, Closed
  <2>1. phase = "unclosed" => ~Closed
    BY DEF ReadInv
  <2>2. phase = "blank" => Closed /\ Lexemes = <<>>
    BY DEF ReadInv
  <2>3. phase = "refused" => Closed /\ Lexemes # <<>> /\ ~WellFormed(Lexemes)
    BY DEF ReadInv, ReadyPhases
  <2>4. phase = "parsed" => Closed /\ Lexemes # <<>> /\ WellFormed(Lexemes) /\ Ready(tokens)
    BY DEF ReadInv, ReadyPhases, GroupInv
  <2>5. phase = "parsed" => Plainly(commands) = Grouped(Lexemes)
    <3> SUFFICES ASSUME phase = "parsed" PROVE Plainly(commands) = Grouped(Lexemes)
      OBVIOUS
    <3>1. Plainly(commands) = Grouping(Lexemes)[cur - 1] /\ cur = Len(tokens) + 1
      BY DEF GroupInv, GroupedTo, ParseInv
    <3>2. cur - 1 = Len(Lexemes)
      BY <2>4, <3>1, KindsAre
    <3> QED
      BY <3>1, <3>2 DEF Grouped
  <2> QED
    BY <2>1, <2>2, <2>3, <2>4, <2>5
<1> QED
  BY <1>1, <1>2, <1>3, InvHolds, HeadHolds, LexHolds, PTL DEF Spec

=============================================================================
