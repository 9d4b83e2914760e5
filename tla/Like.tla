-------------------------------- MODULE Like --------------------------------
(***************************************************************************)
(* likeMatch (api_helpers.cpp): the match of a catalog pattern, with '%',  *)
(* '_' and backslash escapes, as the loop that goes back to the last '%'   *)
(* when it is stuck.  SQLTables and SQLColumns choose tables and columns   *)
(* with it (odbc_catalog.cpp).                                             *)
(*                                                                         *)
(* Positions count from 1; starP is 0 where the code has npos.             *)
(***************************************************************************)
EXTENDS Integers, Sequences

CONSTANTS
    PatternChars, ValueChars,  \* characters of patterns and of names
    MaxPattern, MaxValue       \* bounds on the lengths

VARIABLES
    pattern, value,
    p, v,           \* the next character of each
    starP, starV,   \* the last '%' and where its text ends so far
    verdict         \* "none" until the function returns

vars == <<pattern, value, p, v, starP, starV, verdict>>
input == <<pattern, value>>

Strings(chars, max) == UNION {[1..n -> chars] : n \in 0..max}

Init ==
    /\ pattern \in Strings(PatternChars, MaxPattern)
    /\ value \in Strings(ValueChars, MaxValue)
    /\ p = 1 /\ v = 1 /\ starP = 0 /\ starV = 1
    /\ verdict = "none"

-----------------------------------------------------------------------------
Looping == verdict = "none" /\ pattern # <<>> /\ v <= Len(value)

Escapes(i) == i < Len(pattern) /\ pattern[i] = "\\"

\* How many characters of the pattern the next character of the value uses
\* up: 2 for an escape, 1 for '_' and for itself, 0 if they do not match.  A
\* backslash that ends the pattern stands for itself.
Used ==
    CASE p > Len(pattern) -> 0
      [] p <= Len(pattern) /\ Escapes(p) -> IF pattern[p + 1] = value[v] THEN 2 ELSE 0
      [] OTHER -> IF pattern[p] \in {"_", value[v]} THEN 1 ELSE 0

OnStar == p <= Len(pattern) /\ pattern[p] = "%"

Star ==
    /\ Looping /\ OnStar
    /\ starP' = p /\ starV' = v /\ p' = p + 1
    /\ UNCHANGED <<input, v, verdict>>

Advance ==
    /\ Looping /\ ~OnStar /\ Used > 0
    /\ p' = p + Used /\ v' = v + 1
    /\ UNCHANGED <<input, starP, starV, verdict>>

\* The last '%' takes one character more.  The variants go on from where the
\* value was, or let '%' take nothing more.
RetryFromHere == v' = v + 1 /\ starV' = v + 1
RetrySame == v' = starV /\ starV' = starV
Retry == v' = starV + 1 /\ starV' = starV + 1

Backtrack ==
    /\ Looping /\ ~OnStar /\ Used = 0 /\ starP # 0
    /\ p' = starP + 1
    /\ Retry
    /\ UNCHANGED <<input, starP, verdict>>

Mismatch ==
    /\ Looping /\ ~OnStar /\ Used = 0 /\ starP = 0
    /\ verdict' = "no"
    /\ UNCHANGED <<input, p, v, starP, starV>>

\* The value is used up: only '%' may be left.  An empty pattern, or none,
\* matches everything.
Finish ==
    /\ verdict = "none" /\ ~Looping
    /\ verdict' = IF pattern = <<>> \/ \A i \in p..Len(pattern) : pattern[i] = "%"
                  THEN "yes" ELSE "no"
    /\ UNCHANGED <<input, p, v, starP, starV>>

Next == Star \/ Advance \/ Backtrack \/ Mismatch \/ Finish

\* The function runs to its end.
Spec == Init /\ [][Next]_vars /\ WF_vars(Next)

-----------------------------------------------------------------------------
(* Properties *)

\* What the pattern means: Matches(i, j) says that the pattern from i on
\* describes the value from j on, '%' standing for any characters at all.
Matches(i, j) ==
    LET m[a \in 1..Len(pattern) + 1] ==
        [b \in 1..Len(value) + 1 |->
            \/ a > Len(pattern) /\ b > Len(value)
            \/ /\ a <= Len(pattern) /\ pattern[a] = "%"
               /\ \E c \in b..Len(value) + 1 : m[a + 1][c]
            \/ /\ a <= Len(pattern) /\ pattern[a] # "%" /\ b <= Len(value)
               /\ \/ Escapes(a) /\ pattern[a + 1] = value[b] /\ m[a + 2][b + 1]
                  \/ ~Escapes(a) /\ pattern[a] \in {"_", value[b]} /\ m[a + 1][b + 1]]
    IN  m[i][j]

\* The positions are positions, and what '%' has taken is never beyond what
\* the match has reached.
TypeOK ==
    /\ p \in 1..Len(pattern) + 1 /\ v \in 1..Len(value) + 1
    /\ starP \in 0..Len(pattern) /\ (starP # 0 => pattern[starP] = "%" /\ starP < p)
    /\ starV \in 1..v
    /\ verdict \in {"none", "yes", "no"}

\* The answer is the pattern's meaning: going back to the last '%' alone, and
\* never to one before it, loses no match and invents none.
AnswersMeaning ==
    verdict # "none" => (verdict = "yes" <=> pattern = <<>> \/ Matches(1, 1))

=============================================================================
