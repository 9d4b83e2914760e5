----------------------------- MODULE MCStatement -----------------------------
(***************************************************************************)
(* Instances of Statement for TLC.  "Read" runs vary the C types and       *)
(* buffers of SQLGetData over a few results; "Call" runs vary texts,       *)
(* parameters, bindings and attributes over one-row and two-row results.   *)
(***************************************************************************)
EXTENDS Statement

Text(n)  == [null |-> FALSE, chars |-> n, hex |-> FALSE, num |-> "text"]
Hex(n)   == [null |-> FALSE, chars |-> n, hex |-> TRUE, num |-> "text"]
Num(what) == [null |-> FALSE, chars |-> 1, hex |-> FALSE, num |-> what]

Buf(len)      == [ptr |-> TRUE, len |-> len, ind |-> TRUE]
BufNoInd(len) == [ptr |-> TRUE, len |-> len, ind |-> FALSE]
LengthOnly    == [ptr |-> FALSE, len |-> 0, ind |-> TRUE]
NoBuffer      == [ptr |-> FALSE, len |-> 0, ind |-> FALSE]

Table(columns, rows) == [columns |-> columns, rows |-> rows]

\* A BYTES column with hexadecimal text, then text that is not; a NULL beside
\* the one and no cell beside the other; and a column of numbers.
ReadResults ==
    {Table(<<"BINARY", "CHAR">>, << <<Hex(4), NullCell>>, <<Text(3)>> >>),
     Table(<<"FIXED">>, << <<Num("fraction")>>, <<Num("range")>> >>)}

ReadTypesAll == {"CHAR", "WCHAR", "BINARY", "FIXED", "DEFAULT", "BAD"}
ReadBuffersAll == {LengthOnly, Buf(-1), Buf(0), Buf(2), BufNoInd(4)}

\* Results for the "Call" runs: none, one and two rows; fewer columns than are
\* bound; no columns at all, the answer without a result table.
CallResults ==
    {NoRows,
     Table(<<"CHAR">>, << <<Text(2)>> >>),
     Table(<<"CHAR", "FIXED">>, << <<Text(1), Num("exact")>>,
                                   <<NullCell, Num("fraction")>> >>)}
\* Of one column, for the run that is about executing.
OneColumn ==
    {NoRows, Table(<<"CHAR">>, << <<Text(2)>> >>),
     Table(<<"CHAR">>, << <<Text(1)>>, <<NullCell>> >>)}
CallCatalog == {Table(<<"CHAR">>, <<>>), Table(<<"CHAR">>, << <<Text(1)>> >>)}
CallBindings == {[cType |-> "CHAR", buf |-> Buf(2)],
                 [cType |-> "FIXED", buf |-> BufNoInd(8)],
                 [cType |-> "CHAR", buf |-> NoBuffer]}
\* Text with an indicator; bytes without one, as themselves and as what
\* SQL_C_DEFAULT stands for; an unknown C type without a value.
Param(kind, byDefault, ptr, ind) ==
    [kind |-> kind, byDefault |-> byDefault, ptr |-> ptr, ind |-> ind]
CallParams == {Param("char", FALSE, TRUE, TRUE), Param("binary", FALSE, TRUE, FALSE),
               Param("binary", TRUE, TRUE, FALSE), Param("bad", FALSE, FALSE, TRUE)}
CallBuffers == {Buf(2)}
None == {}
=============================================================================
