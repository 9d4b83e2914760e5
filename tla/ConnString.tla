----------------------------- MODULE ConnString -----------------------------
(***************************************************************************)
(* The text of a connection string (config.cpp): what                      *)
(* buildOutConnectionString appends for keys and their values, and the loop*)
(* of parseConnectionString that takes it apart again.                     *)
(*                                                                         *)
(* Keys are in upper case already.  Positions count from 1.                *)
(***************************************************************************)
EXTENDS Integers, Sequences, FiniteSets

CONSTANTS
    Keys,       \* the keys echoed, in their order, each a sequence of characters
    Values      \* bound: the values each key may have, sequences of characters

\* Keys are words of their own; values may have every character.
StringsAssumed ==
    /\ Keys \in Seq(Seq(STRING))
    /\ \A k \in DOMAIN Keys :
          /\ Values[k] \subseteq Seq(STRING)
          /\ Keys[k] # <<>>
          /\ \A j \in DOMAIN Keys[k] : Keys[k][j] \notin {"=", ";", " "}
          /\ \A l \in DOMAIN Keys : Keys[l] = Keys[k] => l = k

VARIABLES
    values,   \* the value of each key; empty ones are not echoed
    text,     \* the string
    i,        \* where the parser is
    kv,       \* what it has found
    pc

vars == <<values, text, i, kv, pc>>

-----------------------------------------------------------------------------
(* buildOutConnectionString *)

Has(s, c) == \E k \in DOMAIN s : s[k] = c

\* Braces are for values with a semicolon; the variant never has any.
Bare(value) == value
Braced(value) == IF Has(value, ";") THEN <<"{">> \o value \o <<"}">> ELSE value

Appended(out, key, value) ==
    IF value = <<>> THEN out
    ELSE out \o (IF out = <<>> THEN <<>> ELSE <<";">>) \o key \o <<"=">> \o Braced(value)

Echo ==
    LET out[k \in 0..Len(Keys)] ==
            IF k = 0 THEN <<>> ELSE Appended(out[k - 1], Keys[k], values[k])
    IN  out[Len(Keys)]

Init ==
    /\ values \in {f \in [DOMAIN Keys -> UNION {Values[k] : k \in DOMAIN Keys}] :
                      \A k \in DOMAIN Keys : f[k] \in Values[k]}
    /\ text = <<>> /\ i = 1 /\ kv = {} /\ pc = "echo"

Build ==
    /\ pc = "echo"
    /\ text' = Echo /\ pc' = "parse"
    /\ UNCHANGED <<values, i, kv>>

-----------------------------------------------------------------------------
(* parseConnectionString *)

n == Len(text)

\* std::string::find: the first place from k on, or just after the text.
Find(c, k) ==
    LET at == {j \in k..n : text[j] = c}
    IN  IF at = {} THEN n + 1 ELSE CHOOSE j \in at : \A l \in at : j <= l

\* The first place from k on that is not one of a set of characters.
Skip(cs, k) ==
    LET at == {j \in k..n : text[j] \notin cs}
    IN  IF at = {} THEN n + 1 ELSE CHOOSE j \in at : \A l \in at : j <= l

\* trimAscii of the text from a to b.
Trimmed(a, b) ==
    LET solid == {j \in a..b : text[j] # " "}
    IN  IF solid = {} THEN <<>>
        ELSE SubSeq(text, CHOOSE j \in solid : \A l \in solid : j <= l,
                          CHOOSE j \in solid : \A l \in solid : j >= l)

Start == Skip({";", " "}, i)
Equals == Find("=", Start)
Key == Trimmed(Start, Equals - 1)

\* kv[key] = val
Put(key, val) == {pair \in kv : pair[1] # key} \cup {<<key, val>>}

Enter(val, next) ==
    /\ kv' = IF Key = <<>> THEN kv ELSE Put(Key, val)
    /\ i' = next
    /\ UNCHANGED <<values, text, pc>>

Parsing == pc = "parse" /\ Start <= n /\ Equals <= n
OpensBrace == Equals < n /\ text[Equals + 1] = "{"

AfterBrace(close) == IF close > n THEN n + 1 ELSE Find(";", close + 1)

\* The brace closes at the first '}'; what is left before the next semicolon
\* is dropped.  Without a '}' the value is the rest.
ReadBraced ==
    LET close == Find("}", Equals + 2) IN
    /\ Parsing /\ OpensBrace
    /\ Enter(SubSeq(text, Equals + 2, close - 1), AfterBrace(close))

ReadPlain ==
    LET end == Find(";", Equals + 1) IN
    /\ Parsing /\ ~OpensBrace
    /\ Enter(Trimmed(Equals + 1, end - 1), end)

\* Nothing is left, or no '='.
Finish ==
    /\ pc = "parse" /\ (Start > n \/ Equals > n)
    /\ pc' = "done"
    /\ UNCHANGED <<values, text, i, kv>>

Next == Build \/ ReadBraced \/ ReadPlain \/ Finish

\* The functions run to their end.
Spec == Init /\ [][Next]_vars /\ WF_vars(Next)

-----------------------------------------------------------------------------
(* Properties *)

\* Values that survive: with a semicolon those that have no closing brace,
\* without one those that neither begin with a brace nor with or end in a
\* space.
Survives(value) ==
    IF Has(value, ";") THEN ~Has(value, "}")
    ELSE value = <<>> \/ (value[1] \notin {"{", " "} /\ value[Len(value)] # " ")

\* What SQLDriverConnect echoes is read back as the same keys and values, if
\* all of them are such; no value runs into the next key.
RoundTrip ==
    pc = "done" /\ (\A k \in DOMAIN values : Survives(values[k])) =>
        kv = {<<Keys[k], values[k]>> : k \in {l \in DOMAIN values : values[l] # <<>>}}

=============================================================================
