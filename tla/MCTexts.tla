------------------------------ MODULE MCTexts ------------------------------
(***************************************************************************)
(* Texts over the characters each function tells apart.                    *)
(***************************************************************************)
EXTENDS Texts, ConfigKeys

\* Names over a letter of the pattern, another, and '_', which is common in
\* names and must be escaped to mean itself.
MCPatternChars == {"a", "%", "_", "\\"}
MCValueChars == {"a", "b", "_"}

\* A number, a negative one; strings that are empty, or hold a quote and a marker.
MCSqlChars == {"'", "\"", "-", "/", "*", "?", "\n"}
MCNumberLiterals == {<<"5">>, <<"-", "5">>}
MCCharacterValues == {<<>>, <<"'", "?">>}

\* Two keys: the first with every value of up to three of the characters the
\* parser tells apart, the second with a few, to be run into.
Chars == {"a", ";", "{", "}", " ", "="}
Of(max) == UNION {[1..n -> Chars] : n \in 0..max}
MCEchoedKeys == <<<<"U">>, <<"P", "W">>>>
MCEchoedValues == <<Of(3), Of(1) \cup {<<"a", ";">>}>>

-----------------------------------------------------------------------------
(* Strings and profiles: for every option all its names together, with one *)
(* or two values and the empty one; options that nothing relates come one  *)
(* at a time.                                                              *)

\* The string that gives the keys of f.
String(f) == [k \in Keys |-> IF k \in DOMAIN f THEN f[k] ELSE Absent]
Url == <<"url", "h3">>  \* a URL goes by its host
Endpoint == <<"h4", "8000">>

\* Where the broker and the controller are.
Places ==
    {String([HOST |-> host, SERVER |-> server, PORT |-> port, SCHEME |-> scheme,
             BROKER |-> broker, CONTROLLER |-> controller]) :
        host \in {Absent, <<"h1">>}, server \in {Absent, <<"h2">>}, port \in {Absent, <<"443">>},
        scheme \in {Absent, <<"https">>}, broker \in {Absent, Url, Endpoint, <<"h4">>},
        controller \in {Absent, Url, <<"h5", "9443">>, <<"h5">>}}

\* The same by the names that only a string may use.
Aliases ==
    {String([HOST |-> host, BROKERHOST |-> brokerHost, BROKERPORT |-> brokerPort,
             PROTOCOL |-> protocol, CONTROLLERURL |-> url]) :
        host \in {Absent, <<>>}, brokerHost \in {Absent, <<"h1">>},
        brokerPort \in {Absent, <<"443">>}, protocol \in {Absent, <<"https">>},
        url \in {Absent, Url, Endpoint}}
Overrides ==
    {String([BROKER |-> broker, CONTROLLER |-> controller, CONTROLLERHOST |-> host,
             CONTROLLERPORT |-> port]) :
        broker \in {Absent, Url, Endpoint}, controller \in {Absent, Url, <<"h5", "9443">>, <<"h5">>},
        host \in {Absent, <<"h6">>}, port \in {Absent, <<"9001">>}}

\* Who connects and how.
Users ==
    {String([UID |-> uid, USER |-> user, USERNAME |-> username]) :
        uid \in {Absent, <<>>, <<"u1">>}, user \in {Absent, <<>>, <<"u2">>},
        username \in {Absent, <<"u3">>}}
    \cup {String([PWD |-> pwd, PASSWORD |-> password]) :
        pwd \in {Absent, <<>>, <<"p1">>}, password \in {Absent, <<"p2">>}}
    \cup {String([TOKEN |-> token, AUTHTOKEN |-> authToken]) :
        token \in {Absent, <<>>, <<"t1">>}, authToken \in {Absent, <<"t2">>}}
Limits ==
    {String([TIMEOUT |-> timeout, QUERYTIMEOUT |-> queryTimeout]) :
        timeout \in {Absent, <<>>, <<"0">>, <<"5">>}, queryTimeout \in {Absent, <<"0">>, <<"7">>}}
    \cup {String([STRINGCOLUMNSIZE |-> size]) : size \in {<<>>, <<"0">>, <<"10">>}}
Flags ==
    {String([SSLVERIFY |-> ssl, VERIFYSSL |-> verify]) :
        ssl \in {Absent, <<"0">>, <<"1">>}, verify \in {Absent, <<"0">>, <<"1">>}}
    \cup {String([USEMULTISTAGE |-> use, MULTISTAGE |-> multistage]) :
        use \in {Absent, <<"0">>, <<"1">>}, multistage \in {Absent, <<"0">>, <<"1">>}}
    \cup {String([HEALTHCHECK |-> check]) : check \in {<<"0">>, <<"1">>}}
Others ==
    {String([DATABASE |-> database, DB |-> db]) :
        database \in {Absent, <<>>, <<"b1">>}, db \in {Absent, <<"b2">>}}
    \cup {String([QUERYOPTIONS |-> options, DRIVER |-> driver]) :
        options \in {Absent, <<"o">>}, driver \in {Absent, <<"d">>}}
Manners == Users \cup Limits \cup Flags \cup Others

Sourced(strings) == {[s EXCEPT !["DSN"] = <<"d">>] : s \in strings}
Section(strings) == {[k \in ProfileKeys |-> s[k]] : s \in strings}

\* Of the places with a data source those that name a broker.
MCStrings ==
    Places \cup Aliases \cup Overrides \cup Manners
    \cup Sourced({s \in Places : s["SERVER"] = Absent /\ s["PORT"] = Absent})
    \cup Sourced({s \in Aliases \cup Overrides : s["HOST"] = Absent})
    \cup Sourced(Manners)
MCProfiles ==
    Section({s \in Places :
        /\ s["HOST"] = Absent /\ s["CONTROLLER"] \in {Absent, <<"h5">>}
        /\ s["SERVER"] # Absent \/ s["SCHEME"] # Absent
        /\ s["BROKER"] # <<"h4">>})
    \cup Section(Manners)
=============================================================================
