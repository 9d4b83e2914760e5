------------------------------- MODULE Config -------------------------------
(***************************************************************************)
(* The configuration of a connection (config.cpp, called from              *)
(* odbc_connect.cpp): the keys of the string are completed from the data   *)
(* source's profile, a Config is made of them, and the Config is echoed as *)
(* a string.  Whoever stored the echo connects with it again: the second   *)
(* round.  ConnString has the text of the string, this module its keys.    *)
(*                                                                         *)
(* Values are tuples of strings, so that they compare: a BROKER, a         *)
(* CONTROLLER or a CONTROLLERURL is <<"url", host>>, <<host, port>> or     *)
(* <<host>>, all others are one string.  <<>> is an empty value, which is  *)
(* not an absent one.                                                      *)
(***************************************************************************)
EXTENDS Integers, Sequences, ConfigKeys

CONSTANTS
    Strings,    \* keys and values a connection string may have
    Profiles,   \* and the section of odbc.ini
    Absent      \* in place of the value of a key that is not there

\* What the keys may be: a value is at most one string, that of a PlaceKey also an
\* endpoint or a URL.  "url" names no host.  The strings the code itself writes
\* are named for the proofs, which know no literal's type.
Defaults == {"http", "https", "localhost", "8099", "9000", "60", "0", "1", "url"}
Word == STRING \cup Defaults

IsValue(x) == x \in Seq(Word) /\ Len(x) <= 1
IsHost(x) == IsValue(x) /\ x # <<"url">>
IsPlace(x) ==
    /\ x \in Seq(Word) /\ Len(x) <= 2
    /\ x # <<>> /\ x[1] = "url" => Len(x) = 2 /\ x[2] # ""

WellFormed(m) ==
    \A k \in DOMAIN m : m[k] # Absent =>
        IF k \in PlaceKeys THEN IsPlace(m[k])
        ELSE IF k \in HostKeys THEN IsHost(m[k]) ELSE IsValue(m[k])

ConfigAssumed ==
    /\ Absent \notin Seq(Word)
    /\ \A m \in Strings : DOMAIN m = Keys /\ WellFormed(m)
    /\ \A m \in Profiles : DOMAIN m = ProfileKeys /\ WellFormed(m)

VARIABLES
    given, profile,  \* the string and the profile of its data source
    kv, cfg,         \* as in connectWithKeyValues
    first,           \* the Config of the first round
    round, pc

vars == <<given, profile, kv, cfg, first, round, pc>>

-----------------------------------------------------------------------------
(* mergeDsnProfile *)

\* A key of the profile fills one that is absent.
Filled(string, p, k) ==
    IF string[k] = Absent /\ p[k] # <<>> THEN p[k] ELSE string[k]

Merged(string, p) ==
    IF string["DSN"] \in {Absent, <<>>} THEN string
    ELSE [k \in Keys |-> IF k \in ProfileKeys THEN Filled(string, p, k) ELSE string[k]]

-----------------------------------------------------------------------------
(* configFromKeyValues *)

\* getAny: the first of several names that is not empty.
GetAny(m, names) ==
    LET there == {j \in DOMAIN names : m[names[j]] \notin {Absent, <<>>}}
    IN  IF there = {} THEN <<>>
        ELSE m[names[CHOOSE j \in there : \A l \in there : j <= l]]

Or(value, default) == IF value = <<>> THEN default ELSE value[1]

\* applyEndpoint: a URL is kept whole, host and port go where they belong.
ApplyEndpoint(value, at) ==
    CASE value = <<>> -> at
      [] value # <<>> /\ value[1] = "url" -> [at EXCEPT !.url = value[2]]
      [] Len(value) = 2 /\ value[1] # "url" -> [at EXCEPT !.host = value[1], !.port = value[2]]
      [] OTHER -> [at EXCEPT !.host = value[1]]

\* atol, if positive.
Positive(value, default) == IF value \in {<<>>, <<"0">>} THEN default ELSE value[1]

\* parseBool
Bool(value, default) ==
    IF value = <<"1">> THEN TRUE ELSE IF value = <<"0">> THEN FALSE ELSE default

BrokerOf(m) ==
    ApplyEndpoint(GetAny(m, <<"BROKER">>),
                  [url |-> "",
                   host |-> Or(GetAny(m, <<"HOST", "SERVER", "BROKERHOST">>), "localhost"),
                   port |-> Or(GetAny(m, <<"PORT", "BROKERPORT">>), "8099")])

\* The controller's own host and port win over its endpoint.
ControllerOf(m) ==
    LET at == ApplyEndpoint(GetAny(m, <<"CONTROLLER", "CONTROLLERURL">>),
                            [url |-> "", host |-> BrokerOf(m).host, port |-> "9000"])
    IN  [url |-> at.url,
         host |-> Or(GetAny(m, <<"CONTROLLERHOST">>), at.host),
         port |-> Or(GetAny(m, <<"CONTROLLERPORT">>), at.port)]

ConfigFromKeyValues(m) ==
    [dsn |-> GetAny(m, <<"DSN">>),
     driver |-> GetAny(m, <<"DRIVER">>),
     scheme |-> IF GetAny(m, <<"SCHEME", "PROTOCOL">>) = <<"https">> THEN "https" ELSE "http",
     broker |-> BrokerOf(m),
     controller |-> ControllerOf(m),
     uid |-> GetAny(m, <<"UID", "USER", "USERNAME">>),
     pwd |-> GetAny(m, <<"PWD", "PASSWORD">>),
     token |-> GetAny(m, <<"TOKEN", "AUTHTOKEN">>),
     database |-> GetAny(m, <<"DATABASE", "DB">>),
     queryOptions |-> GetAny(m, <<"QUERYOPTIONS">>),
     timeoutSec |-> Positive(GetAny(m, <<"TIMEOUT", "QUERYTIMEOUT">>), "60"),
     stringColumnSize |-> Positive(GetAny(m, <<"STRINGCOLUMNSIZE">>), "4096"),
     sslVerify |-> Bool(GetAny(m, <<"SSLVERIFY", "VERIFYSSL">>), TRUE),
     useMultistage |-> Bool(GetAny(m, <<"USEMULTISTAGE", "MULTISTAGE">>), FALSE),
     healthCheck |-> Bool(GetAny(m, <<"HEALTHCHECK">>), TRUE)]

\* brokerBaseUrl, controllerBaseUrl
BaseUrl(scheme, at) ==
    IF at.url # "" THEN <<at.url>> ELSE <<scheme, at.host, at.port>>

-----------------------------------------------------------------------------
(* buildOutConnectionString *)

Appended(value) == IF value = <<>> THEN Absent ELSE value
If(condition, value) == IF condition THEN value ELSE Absent

\* The controller is always named, as its default depends on the broker; in
\* the variant only if it is a URL.
ControllerUrlOnly(c) == If(c.controller.url # "", <<"url", c.controller.url>>)
ControllerEcho(c) ==
    IF c.controller.url # "" THEN <<"url", c.controller.url>>
    ELSE <<c.controller.host, c.controller.port>>

Echo(c) ==
    LET isUrl == c.broker.url # "" IN
    [k \in Keys |->
        CASE k = "DSN" -> Appended(c.dsn)
          [] k = "DRIVER" -> If(c.dsn = <<>>, Appended(c.driver))
          [] k = "BROKER" -> If(isUrl, <<"url", c.broker.url>>)
          [] k = "HOST" -> If(~isUrl, <<c.broker.host>>)
          [] k = "PORT" -> If(~isUrl, <<c.broker.port>>)
          [] k = "SCHEME" -> If(~isUrl, <<c.scheme>>)
          [] k = "CONTROLLER" -> ControllerEcho(c)
          [] k = "UID" -> Appended(c.uid)
          [] k = "PWD" -> Appended(c.pwd)
          [] k = "TOKEN" -> Appended(c.token)
          [] k = "DATABASE" -> Appended(c.database)
          [] k = "QUERYOPTIONS" -> Appended(c.queryOptions)
          [] k = "USEMULTISTAGE" -> If(c.useMultistage, <<"1">>)
          [] k = "SSLVERIFY" -> If(~c.sslVerify, <<"0">>)
          [] k = "HEALTHCHECK" -> If(~c.healthCheck, <<"0">>)
          [] k = "TIMEOUT" -> <<c.timeoutSec>>
          [] OTHER -> Absent]

-----------------------------------------------------------------------------
(* Connecting, and connecting again *)

NoConfig == [none |-> TRUE]

NoProfile == [k \in ProfileKeys |-> Absent]

\* A string without a data source has no profile.
Init ==
    /\ given \in Strings
    /\ profile \in IF given["DSN"] = Absent THEN {NoProfile} ELSE Profiles
    /\ kv = given /\ cfg = NoConfig /\ first = NoConfig
    /\ round = 1 /\ pc = "merge"

MergeDsnProfile ==
    /\ pc = "merge"
    /\ kv' = Merged(kv, profile) /\ pc' = "config"
    /\ UNCHANGED <<given, profile, cfg, first, round>>

MakeConfig ==
    /\ pc = "config"
    /\ cfg' = ConfigFromKeyValues(kv)
    /\ pc' = IF round = 1 THEN "echo" ELSE "done"
    /\ UNCHANGED <<given, profile, kv, first, round>>

\* The string is parsed to the keys it was built from (ConnString!RoundTrip).
ConnectAgain ==
    /\ pc = "echo"
    /\ first' = cfg /\ kv' = Echo(cfg)
    /\ round' = 2 /\ pc' = "merge"
    /\ UNCHANGED <<given, profile, cfg>>

Next == MergeDsnProfile \/ MakeConfig \/ ConnectAgain

Spec == Init /\ [][Next]_vars

-----------------------------------------------------------------------------
(* Properties *)

\* What a connection does with its Config; the names of driver and data source
\* matter to the driver manager only.
Uses(c) ==
    [broker |-> BaseUrl(c.scheme, c.broker), controller |-> BaseUrl(c.scheme, c.controller),
     uid |-> c.uid, pwd |-> c.pwd, token |-> c.token, database |-> c.database,
     queryOptions |-> c.queryOptions, timeoutSec |-> c.timeoutSec,
     stringColumnSize |-> c.stringColumnSize, sslVerify |-> c.sslVerify,
     useMultistage |-> c.useMultistage, healthCheck |-> c.healthCheck]

\* The string overrides nothing of the profile, and gives none of the keys
\* that the echo leaves out: the column size, and the scheme beside a URL.
Echoable ==
    LET kv1 == Merged(given, profile) IN
    /\ \A k \in ProfileKeys :
        given["DSN"] # Absent => profile[k] \in {Absent, kv1[k]}
    /\ given["STRINGCOLUMNSIZE"] = Absent
    /\ first.broker.url # "" => given["SCHEME"] = Absent /\ given["PROTOCOL"] = Absent

\* Connecting with the echo makes the same connection: defaults that depend on
\* other keys, aliases, ports and the profile's share come out the same.
EchoReconnects == pc = "done" /\ Echoable => Uses(cfg) = Uses(first)

=============================================================================
