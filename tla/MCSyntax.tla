------------------------------ MODULE MCSyntax ------------------------------
EXTENDS SyntaxProperties

\* "a" is a letter and the name of a variable, "c" a word check_format_command
\* knows, as well.
MCEnv          == <<"a">> :> <<"|", "\"">>
MCStatus       == <<"0">>
MCCommandWords == {<<"c">>}

Of(chars, n) == BoundedSeq(chars, n)

Chunks == { <<"a">>, <<" ">>, <<"'", "|", "'">>, <<"\"", "a", "\"">>, <<"'", "'">>,
            <<"|">>, <<">", ">">>, <<"<", "<">> }

\* All short lines over all characters, longer ones over those that interact,
\* and lines of longer pieces.
MCLines ==
       Of({"a", " ", "'", "\"", "$", "|", "<", ">", "&"}, 4)
  \cup Of({"a", " ", "\"", "|", ">"}, 5)
  \cup Of({"a", " ", "'", "\"", "$"}, 6)
  \cup Of({"a", "c", " ", "<", "|", "&"}, 5)
  \cup Of({"a", "c", "$", "?", "\"", "<"}, 4)
  \cup {FlattenSeq(chunks) : chunks \in Of(Chunks, 5)}

=============================================================================
