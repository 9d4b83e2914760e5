-------------------------------- MODULE Texts --------------------------------
(***************************************************************************)
(* The driver's functions on text, together: catalog patterns (Like), SQL  *)
(* with parameters (SqlText), connection strings (ConnString) and the keys *)
(* in them (Config), wide arguments and buffers (WideText).  They share no *)
(* state, so a behaviour is one call of one of them while the others are   *)
(* at rest: after a call on empty text, or without one.                    *)
(***************************************************************************)
EXTENDS Integers, Sequences

CONSTANTS
    PatternChars, ValueChars, MaxPattern, MaxValue,      \* of Like
    SqlChars, MaxSql, NumberLiterals, CharacterValues,   \* of SqlText
    EchoedKeys, EchoedValues,                            \* of ConnString
    ConnectStrings, Profiles, Absent,                      \* of Config
    Intermediate, ShortSize, MaxText, MaxBuffer          \* of WideText

VARIABLES
    pattern, value, p, v, starP, starV, verdict,
    sql, i, region, positions, param, prev, out, from, substitution,
    values, string, at, found, parser,
    given, profile, kv, cfg, first, round, connecting,
    fn, text, null, bufLen, utf8, copied, len, ret, copying

likeVars == <<pattern, value, p, v, starP, starV, verdict>>
sqlVars == <<sql, i, region, positions, param, prev, out, from, substitution>>
stringVars == <<values, string, at, found, parser>>
configVars == <<given, profile, kv, cfg, first, round, connecting>>
wideVars == <<fn, text, null, bufLen, utf8, copied, len, ret, copying>>
vars == <<likeVars, sqlVars, stringVars, configVars, wideVars>>

Pattern == INSTANCE Like
Sql == INSTANCE SqlText WITH
    Chars <- SqlChars, MaxText <- MaxSql, Numbers <- NumberLiterals,
    Values <- CharacterValues, pc <- substitution
ConnStr == INSTANCE ConnString WITH
    Keys <- EchoedKeys, Values <- EchoedValues,
    text <- string, i <- at, kv <- found, pc <- parser
Configuration == INSTANCE Config WITH Strings <- ConnectStrings, pc <- connecting
Wide == INSTANCE WideText WITH out <- copied, pc <- copying

ASSUME LiteralsAssumption == Sql!LiteralsAssumed
ASSUME ConfigAssumption == Configuration!ConfigAssumed
ASSUME StringAssumption == ConnStr!StringsAssumed

\* The wide functions' buffers have room for the terminator at least.
ASSUME WideAssumption == Intermediate \in Nat \ {0} /\ ShortSize \in Nat \ {0}

-----------------------------------------------------------------------------
PatternAtRest ==
    /\ pattern = <<>> /\ value = <<>> /\ verdict = "yes"
    /\ p = 1 /\ v = 1 /\ starP = 0 /\ starV = 1

SqlAtRest ==
    /\ sql = <<>> /\ out = <<>> /\ from = <<>> /\ positions = <<>>
    /\ i = 1 /\ region = "code" /\ param = 1 /\ prev = 1 /\ substitution = "done"

ConnStrAtRest ==
    /\ values = [k \in DOMAIN EchoedKeys |-> <<>>]
    /\ string = <<>> /\ at = 1 /\ found = {} /\ parser = "done"

ConfigurationAtRest ==
    /\ given = [k \in Configuration!Keys |-> Absent]
    /\ profile = Configuration!NoProfile
    /\ kv = given /\ cfg = Configuration!NoConfig /\ first = cfg
    /\ round = 0 /\ connecting = "rest"

WideAtRest ==
    /\ fn = "string" /\ text = <<>> /\ null = FALSE /\ bufLen = 0
    /\ utf8 = <<>> /\ copied = <<>> /\ len = 0
    /\ ret = "SQL_SUCCESS" /\ copying = "done"

Init ==
    \/ /\ Pattern!Init
       /\ SqlAtRest /\ ConnStrAtRest /\ ConfigurationAtRest /\ WideAtRest
    \/ /\ Sql!Init
       /\ PatternAtRest /\ ConnStrAtRest /\ ConfigurationAtRest /\ WideAtRest
    \/ /\ ConnStr!Init
       /\ PatternAtRest /\ SqlAtRest /\ ConfigurationAtRest /\ WideAtRest
    \/ /\ Configuration!Init
       /\ PatternAtRest /\ SqlAtRest /\ ConnStrAtRest /\ WideAtRest
    \/ /\ Wide!Init
       /\ PatternAtRest /\ SqlAtRest /\ ConnStrAtRest /\ ConfigurationAtRest

Next ==
    \/ Pattern!Next /\ UNCHANGED <<sqlVars, stringVars, configVars, wideVars>>
    \/ Sql!Next /\ UNCHANGED <<likeVars, stringVars, configVars, wideVars>>
    \/ ConnStr!Next /\ UNCHANGED <<likeVars, sqlVars, configVars, wideVars>>
    \/ Configuration!Next /\ UNCHANGED <<likeVars, sqlVars, stringVars, wideVars>>
    \/ Wide!Next /\ UNCHANGED <<likeVars, sqlVars, stringVars, configVars>>

\* A function runs to its end.
Spec == Init /\ [][Next]_vars /\ WF_vars(Next)

-----------------------------------------------------------------------------
(* Properties: each is explained where it is defined. *)

\* likeMatch, which only ever goes back to the last '%', finds what a pattern
\* means.
AnswersMeaning == Pattern!AnswersMeaning

\* scanParameterMarkers finds the markers a lexer finds.
MarkersInTheOpen == Sql!MarkersInTheOpen

\* substituteParameters puts each value into the text as one literal, and
\* changes the meaning of nothing around it.
LiteralsStand == Sql!LiteralsStand

\* parseConnectionString reads what buildOutConnectionString writes.
RoundTrip == ConnStr!RoundTrip

\* Connecting with the string SQLDriverConnect gives back is connecting with
\* the one it was given.
EchoReconnects == Configuration!EchoReconnects

\* No copy of a text goes beyond the application's buffer, or splits a unit.
StaysInBuffer == Wide!StaysInBuffer

\* No copy of a text is cut off without 01004, whichever of two buffers it was,
\* and the length a function reports is that of the text before.
LossIsTold == Wide!LossIsTold

\* A wide argument arrives in the driver as it was given.
ArgumentArrives == Wide!ArgumentArrives

\* Every function on text comes to an end on every text: the one at work is done,
\* as the ones at rest are.
AllDone ==
    /\ verdict # "none" /\ substitution = "done" /\ parser = "done"
    /\ connecting \in {"rest", "done"} /\ copying = "done"
Returns == <>AllDone

=============================================================================
