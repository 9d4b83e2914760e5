------------------------------ MODULE MCCatalog ------------------------------
(***************************************************************************)
(* Two statements, two tables and two schemas that share fields at         *)
(* different places; the column pattern matches all or one of them.        *)
(***************************************************************************)
EXTENDS Catalog, TLC

CONSTANTS s1, s2

Schema(dimension, metric, dateTime, primaryKey) ==
    [dimension |-> dimension, metric |-> metric, dateTime |-> dateTime,
     primaryKey |-> primaryKey]

MCSchemas == {Schema(<<"id">>, <<"hits">>, <<"day">>, <<"id">>),
              Schema(<<"day", "id">>, <<>>, <<>>, <<"id", "day">>)}
MCColumnPatterns == {{"id", "hits", "day"}, {"id"}}
MCTablePatterns == {Tables} \cup {{t} : t \in Tables}

\* One statement browses the catalog while the other queries.
Browse == (s1 :> {"SQLTables", "SQLColumns", "SQLPrimaryKeys"}) @@ (s2 :> {"SQLExecDirect"})

Symmetry == Permutations(Tables)
=============================================================================
