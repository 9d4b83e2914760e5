------------------------------- MODULE SqlText -------------------------------
(***************************************************************************)
(* The parameter markers of a SQL text (scanParameterMarkers) and their    *)
(* replacement by literals (substituteParameters, escapeSqlString) in      *)
(* api_helpers.cpp.                                                        *)
(*                                                                         *)
(* The scan is the loop of the code, one turn at a time; what it must      *)
(* agree with is Lex, which reads the text one character after the other   *)
(* without looking ahead, as the broker's lexer will read the result.      *)
(* Characters the scan does not tell apart are one.                        *)
(***************************************************************************)
EXTENDS Integers, Sequences

CONSTANTS
    Chars,        \* ' " - / * ? and the newline, which ends a comment
    MaxText,      \* bound: length of a text
    Numbers,      \* literals of parameters that are not text, as characters
    Values        \* values of character parameters

\* Texts and values may have every character.  What is rendered as no text is a
\* number or a word: a minus in it stands alone and before something.
LiteralsAssumed ==
    /\ Values \subseteq Seq(STRING)
    /\ \A number \in Numbers :
          /\ number \in Seq(STRING) /\ number # <<>>
          /\ \A j \in DOMAIN number :
                /\ number[j] \notin {"'", "\"", "/", "*"}
                /\ number[j] = "-" => j < Len(number) /\ number[j + 1] # "-"

VARIABLES
    sql,
    i, region,    \* the scan: where it is, and in what
    positions,    \* the markers found
    param,        \* the substitution: the next parameter
    prev, out,    \* where the text after the last marker begins, the result
    from,         \* history: the position in sql of each character of out, or
                  \* minus the number of the parameter it is from
    pc

vars == <<sql, i, region, positions, param, prev, out, from, pc>>

Init ==
    /\ sql \in UNION {[1..n -> Chars] : n \in 0..MaxText}
    /\ i = 1 /\ region = "code" /\ positions = <<>>
    /\ param = 1 /\ prev = 1 /\ out = <<>> /\ from = <<>>
    /\ pc = "scan"

-----------------------------------------------------------------------------
(* scanParameterMarkers *)

n == Len(sql)
Is(c) == sql[i] = c
Pair(c, d) == i < n /\ sql[i] = c /\ sql[i + 1] = d

Move(k, where) == i' = i + k /\ region' = where

Scanning(where) ==
    /\ pc = "scan" /\ i <= n /\ region = where
    /\ UNCHANGED <<sql, param, prev, out, from, pc>>

\* Two characters open a comment; in the variant only one is stepped over.
OpenBlockShort == Move(1, "block")
OpenBlock == Move(2, "block")

Code ==
    /\ Scanning("code")
    /\ \/ Is("'") /\ Move(1, "string")
       \/ Is("\"") /\ Move(1, "identifier")
       \/ Pair("-", "-") /\ Move(0, "line")
       \/ Pair("/", "*") /\ OpenBlock
       \/ /\ ~Is("'") /\ ~Is("\"") /\ ~Pair("-", "-") /\ ~Pair("/", "*")
          /\ Move(1, "code")
    /\ positions' = IF Is("?") THEN Append(positions, i) ELSE positions

\* A quote that is doubled does not end a string.
String ==
    /\ Scanning("string")
    /\ \/ Pair("'", "'") /\ Move(2, "string")
       \/ Is("'") /\ ~Pair("'", "'") /\ Move(1, "code")
       \/ ~Is("'") /\ Move(1, "string")
    /\ UNCHANGED positions

Identifier ==
    /\ Scanning("identifier")
    /\ Move(1, IF Is("\"") THEN "code" ELSE "identifier")
    /\ UNCHANGED positions

\* The newline is left to the code region.
Line ==
    /\ Scanning("line")
    /\ IF Is("\n") THEN Move(0, "code") ELSE Move(1, "line")
    /\ UNCHANGED positions

\* The last character cannot begin an end of comment: an open comment ends
\* with the text.
LastBlock == Move(1, IF i < n THEN "block" ELSE "code")

Block ==
    /\ Scanning("block")
    /\ \/ Pair("*", "/") /\ Move(2, "code")
       \/ ~Pair("*", "/") /\ LastBlock
    /\ UNCHANGED positions

Scanned ==
    /\ pc = "scan" /\ i > n
    /\ pc' = "substitute"
    /\ UNCHANGED <<sql, i, region, positions, param, prev, out, from>>

-----------------------------------------------------------------------------
(* substituteParameters *)

\* escapeSqlString; the variant does not double the quotes.
Quoted(value) == <<"'">> \o value \o <<"'">>
Escaped(value) ==
    LET double[k \in 0..Len(value)] ==
            IF k = 0 THEN <<>>
            ELSE double[k - 1] \o (IF value[k] = "'" THEN <<"'", "'">> ELSE <<value[k]>>)
    IN  <<"'">> \o double[Len(value)] \o <<"'">>

Literals == Numbers \cup {Escaped(value) : value \in Values}

\* Text up to the next marker, then its literal; after the last, the rest.
Substitute(literal) ==
    LET at == positions[param] IN
    /\ pc = "substitute" /\ param <= Len(positions)
    /\ out' = out \o SubSeq(sql, prev, at - 1) \o literal
    /\ from' = from \o [j \in 1..at - prev |-> prev + j - 1]
                    \o [j \in 1..Len(literal) |-> -param]
    /\ prev' = at + 1 /\ param' = param + 1
    /\ UNCHANGED <<sql, i, region, positions, pc>>

Rest ==
    /\ pc = "substitute" /\ param > Len(positions)
    /\ out' = out \o SubSeq(sql, prev, n)
    /\ from' = from \o [j \in 1..n - prev + 1 |-> prev + j - 1]
    /\ pc' = "done"
    /\ UNCHANGED <<sql, i, region, positions, param, prev>>

Next ==
    \/ Code \/ String \/ Identifier \/ Line \/ Block \/ Scanned
    \/ \E literal \in Literals : Substitute(literal)
    \/ Rest

\* The functions run to their end.
Spec == Init /\ [][Next]_vars /\ WF_vars(Next)

-----------------------------------------------------------------------------
(* Properties *)

\* The state of a lexer after each character.  After a quote in a string the
\* string may be over or not: the next character tells.
LexStep(state, c) ==
    CASE state = "string" -> IF c = "'" THEN "quote" ELSE "string"
      [] state = "identifier" -> IF c = "\"" THEN "code" ELSE "identifier"
      [] state = "line" -> IF c = "\n" THEN "code" ELSE "line"
      [] state = "block" -> IF c = "*" THEN "star" ELSE "block"
      [] state = "star" -> CASE c = "/" -> "code" [] c = "*" -> "star" [] OTHER -> "block"
      [] OTHER -> CASE c = "'" -> "string"
                    [] c = "\"" -> "identifier"
                    [] c = "-" -> IF state = "dash" THEN "line" ELSE "dash"
                    [] c = "/" -> "slash"
                    [] c = "*" /\ state = "slash" -> "block"
                    [] OTHER -> "code"

Lex(text) ==
    LET state[k \in 0..Len(text)] ==
            IF k = 0 THEN "code" ELSE LexStep(state[k - 1], text[k])
    IN  state

\* Whether a character follows in the open: not in a string, a name or a comment.
Open(state) == state \in {"code", "dash", "slash", "quote"}

\* The markers are the question marks in the open, in their order: quotes
\* that are doubled, comments in strings, strings in comments, and texts that
\* end inside of either are read as the broker reads them.
MarkersInTheOpen ==
    pc = "substitute" /\ param = 1 =>
        LET lex == Lex(sql) IN
        /\ {positions[k] : k \in DOMAIN positions} =
               {j \in 1..n : sql[j] = "?" /\ Open(lex[j - 1])}
        /\ \A k \in 2..Len(positions) : positions[k - 1] < positions[k]

\* In the text that is sent every parameter is one literal of its own, which
\* begins and ends in the open, and the rest of the text means what it
\* meant.
SubstitutionKept ==
    LET before == Lex(sql)
        after == Lex(out)
        Mine(k) == {j \in DOMAIN from : from[j] = -k}
    IN  /\ \A j \in DOMAIN from :
              from[j] > 0 => (Open(after[j - 1]) <=> Open(before[from[j] - 1]))
        /\ \A k \in DOMAIN positions : \E first, last \in Mine(k) :
              /\ Mine(k) = first..last
              /\ Open(after[first - 1]) /\ Open(after[last])
              /\ out[first] = "'" => after[first - 1] # "quote"
              /\ out[last] = "'" /\ last < Len(out) => out[last + 1] # "'"

\* Markers next to a quote or to each other are not SQL.  A minus before a
\* marker makes a comment of it together with that of a negative number: the
\* code puts nothing in between, and this case is left out.
Apart ==
    \A k \in DOMAIN positions : \A j \in {positions[k] - 1, positions[k] + 1} \cap (1..n) :
        sql[j] \notin {"'", "?", "-"}

LiteralsStand == pc = "done" /\ Apart => SubstitutionKept

=============================================================================
