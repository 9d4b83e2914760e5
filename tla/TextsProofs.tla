---------------------------- MODULE TextsProofs ----------------------------
(***************************************************************************)
(* The functions on text, for every text: each part of Texts has an        *)
(* invariant of its own, which its turns keep and the others leave alone.  *)
(* The references the functions are compared with are recursive functions; *)
(* a lemma states the rules of each first (by Recursion or Chain of        *)
(* Induction), and the loop is then shown to follow them a turn at a time. *)
(***************************************************************************)
EXTENDS Texts, Induction, SequenceTheorems, TLAPS

-----------------------------------------------------------------------------
(* Config *)

LEMMA OneElement == ASSUME NEW S, NEW s \in S PROVE <<s>> \in Seq(S)
<1>1. <<s>> \in [1..1 -> S]
  OBVIOUS
<1> QED BY <1>1, SeqDef

LEMMA TwoElements == ASSUME NEW S, NEW s \in S, NEW t \in S PROVE <<s, t>> \in Seq(S)
<1>1. <<s, t>> \in [1..2 -> S]
  OBVIOUS
<1> QED BY <1>1, SeqDef

\* getAny, for one name and for two.
There(x) == x \notin {Absent, <<>>}

LEMMA GetAnyOne ==
  ASSUME NEW m, NEW a
  PROVE  Configuration!GetAny(m, <<a>>) = IF There(m[a]) THEN m[a] ELSE <<>>
<1> DEFINE there == {j \in DOMAIN <<a>> : m[<<a>>[j]] \notin {Absent, <<>>}}
<1>1. there = IF There(m[a]) THEN {1} ELSE {}
  BY DEF There
<1>2. Configuration!GetAny(m, <<a>>) =
        IF there = {} THEN <<>>
        ELSE m[<<a>>[CHOOSE j \in there : \A l \in there : j <= l]]
  BY DEF Configuration!GetAny
<1>3. CASE There(m[a])
  <2>1. there = {1}
    BY <1>1, <1>3
  <2> HIDE DEF there
  <2>2. (CHOOSE j \in there : \A l \in there : j <= l) = 1
    BY <2>1
  <2> QED BY <1>2, <1>3, <2>1, <2>2
<1>4. CASE ~There(m[a])
  <2>1. there = {}
    BY <1>1, <1>4
  <2> HIDE DEF there
  <2> QED BY <1>2, <1>4, <2>1
<1> QED BY <1>3, <1>4

LEMMA GetAnyTwo ==
  ASSUME NEW m, NEW a, NEW b
  PROVE  Configuration!GetAny(m, <<a, b>>) =
            IF There(m[a]) THEN m[a] ELSE IF There(m[b]) THEN m[b] ELSE <<>>
<1> DEFINE there == {j \in DOMAIN <<a, b>> : m[<<a, b>>[j]] \notin {Absent, <<>>}}
<1>1. \A j : j \in there <=> (j = 1 /\ There(m[a])) \/ (j = 2 /\ There(m[b]))
  BY DEF There
<1>2. Configuration!GetAny(m, <<a, b>>) =
        IF there = {} THEN <<>>
        ELSE m[<<a, b>>[CHOOSE j \in there : \A l \in there : j <= l]]
  BY DEF Configuration!GetAny
<1> HIDE DEF there
<1>3. CASE There(m[a])
  <2>1. 1 \in there /\ \A j \in there : (\A l \in there : j <= l) <=> j = 1
    BY <1>1, <1>3, SMT
  <2>2. (CHOOSE j \in there : \A l \in there : j <= l) = 1
    BY <2>1
  <2> QED BY <1>2, <1>3, <2>1, <2>2
<1>4. CASE ~There(m[a]) /\ There(m[b])
  <2>1. 2 \in there /\ \A j \in there : (\A l \in there : j <= l) <=> j = 2
    BY <1>1, <1>4, SMT
  <2>2. (CHOOSE j \in there : \A l \in there : j <= l) = 2
    BY <2>1
  <2> QED BY <1>2, <1>4, <2>1, <2>2
<1>5. CASE ~There(m[a]) /\ ~There(m[b])
  <2>1. there = {}
    BY <1>1, <1>5
  <2> QED BY <1>2, <1>5, <2>1
<1> QED BY <1>3, <1>4, <1>5

LEMMA GetAnyThree ==
  ASSUME NEW m, NEW a, NEW b, NEW f
  PROVE  Configuration!GetAny(m, <<a, b, f>>) =
            IF There(m[a]) THEN m[a] ELSE IF There(m[b]) THEN m[b]
            ELSE IF There(m[f]) THEN m[f] ELSE <<>>
<1> DEFINE there == {j \in DOMAIN <<a, b, f>> : m[<<a, b, f>>[j]] \notin {Absent, <<>>}}
<1>1. \A j : j \in there <=>
        (j = 1 /\ There(m[a])) \/ (j = 2 /\ There(m[b])) \/ (j = 3 /\ There(m[f]))
  BY DEF There
<1>2. Configuration!GetAny(m, <<a, b, f>>) =
        IF there = {} THEN <<>>
        ELSE m[<<a, b, f>>[CHOOSE j \in there : \A l \in there : j <= l]]
  BY DEF Configuration!GetAny
<1> HIDE DEF there
<1>3. CASE There(m[a])
  <2>1. 1 \in there /\ \A j \in there : (\A l \in there : j <= l) <=> j = 1
    BY <1>1, <1>3, SMT
  <2>2. (CHOOSE j \in there : \A l \in there : j <= l) = 1
    BY <2>1
  <2> QED BY <1>2, <1>3, <2>1, <2>2
<1>4. CASE ~There(m[a]) /\ There(m[b])
  <2>1. 2 \in there /\ \A j \in there : (\A l \in there : j <= l) <=> j = 2
    BY <1>1, <1>4, SMT
  <2>2. (CHOOSE j \in there : \A l \in there : j <= l) = 2
    BY <2>1
  <2> QED BY <1>2, <1>4, <2>1, <2>2
<1>5. CASE ~There(m[a]) /\ ~There(m[b]) /\ There(m[f])
  <2>1. 3 \in there /\ \A j \in there : (\A l \in there : j <= l) <=> j = 3
    BY <1>1, <1>5, SMT
  <2>2. (CHOOSE j \in there : \A l \in there : j <= l) = 3
    BY <2>1
  <2> QED BY <1>2, <1>5, <2>1, <2>2
<1>6. CASE ~There(m[a]) /\ ~There(m[b]) /\ ~There(m[f])
  <2>1. there = {}
    BY <1>1, <1>6
  <2> QED BY <1>2, <1>6, <2>1
<1> QED BY <1>3, <1>4, <1>5, <1>6

\* The value that is read of three, of two and of one.
First(u, t, w) ==
    IF There(u) THEN u ELSE IF There(t) THEN t ELSE IF There(w) THEN w ELSE <<>>

LEMMA GetAnyIs ==
  \A m, a, b, f :
    /\ Configuration!GetAny(m, <<a>>) = First(m[a], Absent, Absent)
    /\ Configuration!GetAny(m, <<a, b>>) = First(m[a], m[b], Absent)
    /\ Configuration!GetAny(m, <<a, b, f>>) = First(m[a], m[b], m[f])
<1>1. ~There(Absent)
  BY DEF There
<1> QED BY <1>1, GetAnyOne, GetAnyTwo, GetAnyThree, Zenon DEF First

\* What is read is there, or it is the empty value.
LEMMA FirstThere == \A u, t, w : First(u, t, w) = <<>> \/ There(First(u, t, w))
  BY DEF First

\* A text that is echoed by its first name, if it is not empty, is read again.
LEMMA TextComesBack ==
  \A u, t, w, x, u2, t2, w2 :
    /\ x = First(u, t, w)
    /\ x # <<>> => u2 = x
    /\ x = <<>> => u2 \in {Absent, u}
    /\ t2 \in {Absent, t} /\ w2 \in {Absent, w}
    => First(u2, t2, w2) = x
  BY DEF First, There

\* So is a flag, of which one value is echoed; an alias is in the string only.
LEMMA FlagComesBack ==
  \A mark, u, t, u2 :
    /\ There(mark)
    /\ First(u, t, Absent) = mark => u2 = mark
    /\ First(u, t, Absent) # mark => u2 \in {Absent, u}
    => (First(u2, Absent, Absent) = mark <=> First(u, t, Absent) = mark)
  BY DEF First, There

\* What the echo says of each key: of the names of an option the first only.
Echoed == {"DSN", "DRIVER", "BROKER", "HOST", "PORT", "SCHEME", "CONTROLLER", "UID", "PWD",
           "TOKEN", "DATABASE", "QUERYOPTIONS", "USEMULTISTAGE", "SSLVERIFY", "HEALTHCHECK",
           "TIMEOUT"}

LEMMA EchoPlaces ==
  ASSUME NEW c
  PROVE  LET e == Configuration!Echo(c)
             url == c.broker.url # ""
         IN  /\ e["DSN"] = IF c.dsn = <<>> THEN Absent ELSE c.dsn
             /\ e["BROKER"] = IF url THEN <<"url", c.broker.url>> ELSE Absent
             /\ e["HOST"] = IF url THEN Absent ELSE <<c.broker.host>>
             /\ e["PORT"] = IF url THEN Absent ELSE <<c.broker.port>>
             /\ e["SCHEME"] = IF url THEN Absent ELSE <<c.scheme>>
             /\ e["CONTROLLER"] = IF c.controller.url # "" THEN <<"url", c.controller.url>>
                                  ELSE <<c.controller.host, c.controller.port>>
             /\ e["TIMEOUT"] = <<c.timeoutSec>>
<1>1. {"DSN", "BROKER", "HOST", "PORT", "SCHEME", "CONTROLLER", "TIMEOUT"}
         \subseteq Configuration!Keys
  BY DEF Configuration!Keys, Configuration!ProfileKeys, Configuration!StringKeys
<1> QED
  BY <1>1 DEF Configuration!Echo, Configuration!Appended, Configuration!If,
              Configuration!ControllerEcho

LEMMA EchoTexts ==
  ASSUME NEW c
  PROVE  LET e == Configuration!Echo(c)
         IN  /\ e["UID"] = IF c.uid = <<>> THEN Absent ELSE c.uid
             /\ e["PWD"] = IF c.pwd = <<>> THEN Absent ELSE c.pwd
             /\ e["TOKEN"] = IF c.token = <<>> THEN Absent ELSE c.token
             /\ e["DATABASE"] = IF c.database = <<>> THEN Absent ELSE c.database
             /\ e["QUERYOPTIONS"] = IF c.queryOptions = <<>> THEN Absent ELSE c.queryOptions
             /\ e["USEMULTISTAGE"] = IF c.useMultistage THEN <<"1">> ELSE Absent
             /\ e["SSLVERIFY"] = IF ~c.sslVerify THEN <<"0">> ELSE Absent
             /\ e["HEALTHCHECK"] = IF ~c.healthCheck THEN <<"0">> ELSE Absent
  BY DEF Configuration!Echo, Configuration!Keys, Configuration!ProfileKeys, Configuration!Appended,
         Configuration!If

LEMMA NotEchoed ==
  ASSUME NEW c, NEW k \in Configuration!Keys \ Echoed
  PROVE  Configuration!Echo(c)[k] = Absent
  BY DEF Configuration!Echo, Echoed

\* A string and its profile, as they are given, and merged; the Config of them,
\* and what the second round makes of its echo.
Once(g, q) == Configuration!ConfigFromKeyValues(Configuration!Merged(g, q))
Again(g, q) == Configuration!Merged(Configuration!Echo(Once(g, q)), q)

Given(g, q) ==
    /\ DOMAIN g = Configuration!Keys /\ Configuration!WellFormed(g)
    /\ g["DSN"] # Absent => DOMAIN q = Configuration!ProfileKeys /\ Configuration!WellFormed(q)

CanEcho(g, q) ==
    /\ \A k \in Configuration!ProfileKeys :
          g["DSN"] # Absent => q[k] \in {Absent, Configuration!Merged(g, q)[k]}
    /\ g["STRINGCOLUMNSIZE"] = Absent
    /\ Once(g, q).broker.url # "" => g["SCHEME"] = Absent /\ g["PROTOCOL"] = Absent

\* A value of the kind that its key has.
Kind(k, x) ==
    IF k \in Configuration!PlaceKeys THEN Configuration!IsPlace(x)
    ELSE IF k \in Configuration!HostKeys THEN Configuration!IsHost(x)
    ELSE Configuration!IsValue(x)

LEMMA ConfigFields ==
  ASSUME NEW m
  PROVE  LET c == Configuration!ConfigFromKeyValues(m)
         IN  /\ c.dsn = First(m["DSN"], Absent, Absent)
             /\ c.scheme = IF First(m["SCHEME"], m["PROTOCOL"], Absent) = <<"https">>
                           THEN "https" ELSE "http"
             /\ c.broker = Configuration!BrokerOf(m)
             /\ c.controller = Configuration!ControllerOf(m)
             /\ c.uid = First(m["UID"], m["USER"], m["USERNAME"])
             /\ c.pwd = First(m["PWD"], m["PASSWORD"], Absent)
             /\ c.token = First(m["TOKEN"], m["AUTHTOKEN"], Absent)
             /\ c.database = First(m["DATABASE"], m["DB"], Absent)
             /\ c.queryOptions = First(m["QUERYOPTIONS"], Absent, Absent)
             /\ c.timeoutSec =
                   Configuration!Positive(First(m["TIMEOUT"], m["QUERYTIMEOUT"], Absent), "60")
             /\ c.stringColumnSize =
                   Configuration!Positive(First(m["STRINGCOLUMNSIZE"], Absent, Absent), "4096")
             /\ c.sslVerify =
                   Configuration!Bool(First(m["SSLVERIFY"], m["VERIFYSSL"], Absent), TRUE)
             /\ c.useMultistage =
                   Configuration!Bool(First(m["USEMULTISTAGE"], m["MULTISTAGE"], Absent), FALSE)
             /\ c.healthCheck = Configuration!Bool(First(m["HEALTHCHECK"], Absent, Absent), TRUE)
<1>1. \A a, b, f :
        /\ Configuration!GetAny(m, <<a>>) = First(m[a], Absent, Absent)
        /\ Configuration!GetAny(m, <<a, b>>) = First(m[a], m[b], Absent)
        /\ Configuration!GetAny(m, <<a, b, f>>) = First(m[a], m[b], m[f])
  BY GetAnyIs
<1> DEFINE c == Configuration!ConfigFromKeyValues(m)
<1>2. /\ c.dsn = Configuration!GetAny(m, <<"DSN">>)
      /\ c.scheme = IF Configuration!GetAny(m, <<"SCHEME", "PROTOCOL">>) = <<"https">>
                    THEN "https" ELSE "http"
      /\ c.broker = Configuration!BrokerOf(m)
      /\ c.controller = Configuration!ControllerOf(m)
  BY Zenon DEF Configuration!ConfigFromKeyValues
<1>3. /\ c.uid = Configuration!GetAny(m, <<"UID", "USER", "USERNAME">>)
      /\ c.pwd = Configuration!GetAny(m, <<"PWD", "PASSWORD">>)
      /\ c.token = Configuration!GetAny(m, <<"TOKEN", "AUTHTOKEN">>)
      /\ c.database = Configuration!GetAny(m, <<"DATABASE", "DB">>)
      /\ c.queryOptions = Configuration!GetAny(m, <<"QUERYOPTIONS">>)
  BY Zenon DEF Configuration!ConfigFromKeyValues
<1>4. /\ c.timeoutSec =
           Configuration!Positive(Configuration!GetAny(m, <<"TIMEOUT", "QUERYTIMEOUT">>), "60")
      /\ c.stringColumnSize =
           Configuration!Positive(Configuration!GetAny(m, <<"STRINGCOLUMNSIZE">>), "4096")
  BY Zenon DEF Configuration!ConfigFromKeyValues
<1>5. /\ c.sslVerify =
           Configuration!Bool(Configuration!GetAny(m, <<"SSLVERIFY", "VERIFYSSL">>), TRUE)
      /\ c.useMultistage =
           Configuration!Bool(Configuration!GetAny(m, <<"USEMULTISTAGE", "MULTISTAGE">>), FALSE)
      /\ c.healthCheck = Configuration!Bool(Configuration!GetAny(m, <<"HEALTHCHECK">>), TRUE)
  BY Zenon DEF Configuration!ConfigFromKeyValues
<1> HIDE DEF c
<1>6. /\ c.dsn = First(m["DSN"], Absent, Absent)
      /\ c.scheme = IF First(m["SCHEME"], m["PROTOCOL"], Absent) = <<"https">>
                    THEN "https" ELSE "http"
  BY <1>1, <1>2, Zenon
<1>7. /\ c.uid = First(m["UID"], m["USER"], m["USERNAME"])
      /\ c.pwd = First(m["PWD"], m["PASSWORD"], Absent)
      /\ c.token = First(m["TOKEN"], m["AUTHTOKEN"], Absent)
      /\ c.database = First(m["DATABASE"], m["DB"], Absent)
      /\ c.queryOptions = First(m["QUERYOPTIONS"], Absent, Absent)
  BY <1>1, <1>3, Zenon
<1>8. /\ c.timeoutSec =
           Configuration!Positive(First(m["TIMEOUT"], m["QUERYTIMEOUT"], Absent), "60")
      /\ c.stringColumnSize =
           Configuration!Positive(First(m["STRINGCOLUMNSIZE"], Absent, Absent), "4096")
  BY <1>1, <1>4, Zenon
<1>9. /\ c.sslVerify =
           Configuration!Bool(First(m["SSLVERIFY"], m["VERIFYSSL"], Absent), TRUE)
      /\ c.useMultistage =
           Configuration!Bool(First(m["USEMULTISTAGE"], m["MULTISTAGE"], Absent), FALSE)
      /\ c.healthCheck = Configuration!Bool(First(m["HEALTHCHECK"], Absent, Absent), TRUE)
  BY <1>1, <1>5, Zenon
<1> QED BY <1>2, <1>6, <1>7, <1>8, <1>9, Zenon DEF c

\* The second merge, of the echo with the same profile: what the echo says
\* stands, and of what it leaves out nothing is there that was not before.
LEMMA MergedAgain ==
  ASSUME NEW g, NEW q, Given(g, q), CanEcho(g, q), NEW k \in Configuration!Keys \ {"DSN"}
  PROVE  LET m == Configuration!Merged(g, q)
             e == Configuration!Echo(Once(g, q))
             n == Again(g, q)
         IN  /\ m[k] # Absent => Kind(k, m[k])
             /\ e[k] # Absent => n[k] = e[k]
             /\ e[k] = Absent => n[k] \in {Absent, m[k]}
             /\ e[k] = Absent /\ k \in Configuration!ProfileKeys /\ g[k] = Absent => n[k] = m[k]
             /\ k \notin Configuration!ProfileKeys => m[k] = g[k] /\ n[k] = e[k]
<1> DEFINE m == Configuration!Merged(g, q)
           e == Configuration!Echo(Once(g, q))
           n == Again(g, q)
           sourced == g["DSN"] \notin {Absent, <<>>}
           filled == sourced /\ k \in Configuration!ProfileKeys
<1>1. /\ k \in Configuration!Keys /\ "DSN" \in Configuration!Keys
      /\ "DSN" \notin Configuration!ProfileKeys
  BY DEF Configuration!ProfileKeys, Configuration!StringKeys, Configuration!Keys
<1>2. m[k] = IF filled /\ g[k] = Absent /\ q[k] # <<>> THEN q[k] ELSE g[k]
  BY <1>1 DEF Configuration!Merged, Configuration!Filled
<1>3. m["DSN"] = g["DSN"]
  BY <1>1 DEF Configuration!Merged
<1>4. e["DSN"] = IF sourced THEN g["DSN"] ELSE Absent
  <2>1. Once(g, q).dsn = IF sourced THEN g["DSN"] ELSE <<>>
    <3>1. Once(g, q).dsn = First(m["DSN"], Absent, Absent)
      BY ConfigFields DEF Once
    <3> HIDE DEF m
    <3> QED BY <1>3, <3>1 DEF First, There
  <2>2. e["DSN"] = IF Once(g, q).dsn = <<>> THEN Absent ELSE Once(g, q).dsn
    BY EchoPlaces
  <2> HIDE DEF e
  <2> QED BY <2>1, <2>2
<1>5. n[k] = IF filled /\ e[k] = Absent /\ q[k] # <<>> THEN q[k] ELSE e[k]
  <2> HIDE DEF e
  <2>1. n = Configuration!Merged(e, q)
    BY DEF Again, e
  <2>2. (e["DSN"] \in {Absent, <<>>}) <=> ~sourced
    BY <1>4
  <2> HIDE DEF n
  <2> QED BY <1>1, <2>1, <2>2 DEF Configuration!Merged, Configuration!Filled
<1>6. filled => q[k] = Absent \/ q[k] = m[k]
  <2> HIDE DEF m
  <2> QED BY DEF CanEcho, m
<1>7. m[k] # Absent => Kind(k, m[k])
  <2>1. g[k] # Absent => Kind(k, g[k])
    BY <1>1 DEF Given, Configuration!WellFormed, Kind
  <2>2. filled /\ q[k] # Absent => Kind(k, q[k])
    BY DEF Given, Configuration!WellFormed, Kind
  <2> HIDE DEF m
  <2> QED BY <1>2, <2>1, <2>2
<1> HIDE DEF m, e, n
<1>8. e[k] = Absent => n[k] \in {Absent, m[k]}
  BY <1>5, <1>6
<1>9. e[k] = Absent /\ k \in Configuration!ProfileKeys /\ g[k] = Absent => n[k] = m[k]
  BY <1>2, <1>5
<1>10. k \notin Configuration!ProfileKeys => m[k] = g[k] /\ n[k] = e[k]
  BY <1>2, <1>5
<1>11. e[k] # Absent => n[k] = e[k]
  BY <1>5
<1> QED BY <1>7, <1>8, <1>9, <1>10, <1>11 DEF m, e, n

\* Key by key: an alias is neither echoed nor in a profile.
OnlyGiven(k) == k \in Configuration!Keys \ Configuration!ProfileKeys /\ k \notin Echoed

LEMMA OptionKeys ==
  /\ {"BROKER", "CONTROLLER", "HOST", "SERVER", "PORT", "SCHEME", "UID", "USER", "PWD",
      "PASSWORD", "TOKEN", "DATABASE", "QUERYOPTIONS", "TIMEOUT", "STRINGCOLUMNSIZE",
      "SSLVERIFY", "USEMULTISTAGE", "HEALTHCHECK"} \subseteq Configuration!ProfileKeys
  /\ OnlyGiven("PROTOCOL") /\ OnlyGiven("BROKERHOST") /\ OnlyGiven("BROKERPORT")
  /\ OnlyGiven("CONTROLLERURL") /\ OnlyGiven("CONTROLLERHOST") /\ OnlyGiven("CONTROLLERPORT")
  /\ OnlyGiven("USERNAME") /\ OnlyGiven("AUTHTOKEN") /\ OnlyGiven("DB")
  /\ OnlyGiven("QUERYTIMEOUT") /\ OnlyGiven("VERIFYSSL") /\ OnlyGiven("MULTISTAGE")
  /\ {"SERVER", "USER", "PASSWORD", "STRINGCOLUMNSIZE"} \cap Echoed = {}
<1>1. {"BROKER", "CONTROLLER", "HOST", "SERVER", "PORT", "SCHEME", "UID", "USER", "PWD",
       "PASSWORD", "TOKEN", "DATABASE", "QUERYOPTIONS", "TIMEOUT", "STRINGCOLUMNSIZE",
       "SSLVERIFY", "USEMULTISTAGE", "HEALTHCHECK"} \subseteq Configuration!ProfileKeys
  BY DEF Configuration!ProfileKeys
<1>2. \A k \in Configuration!StringKeys \ {"DSN", "DRIVER"} : OnlyGiven(k)
  BY DEF OnlyGiven, Configuration!Keys, Configuration!ProfileKeys, Configuration!StringKeys, Echoed
<1>3. {"PROTOCOL", "BROKERHOST", "BROKERPORT", "CONTROLLERURL", "CONTROLLERHOST",
       "CONTROLLERPORT", "USERNAME", "AUTHTOKEN", "DB", "QUERYTIMEOUT", "VERIFYSSL",
       "MULTISTAGE"} \subseteq Configuration!StringKeys \ {"DSN", "DRIVER"}
  BY DEF Configuration!StringKeys
<1>4. {"SERVER", "USER", "PASSWORD", "STRINGCOLUMNSIZE"} \cap Echoed = {}
  BY DEF Echoed
<1> QED BY <1>1, <1>2, <1>3, <1>4

LEMMA KeysAgain ==
  ASSUME NEW g, NEW q, Given(g, q), CanEcho(g, q)
  PROVE  LET m == Configuration!Merged(g, q)
             e == Configuration!Echo(Once(g, q))
             n == Again(g, q)
         IN  /\ \A k \in Configuration!ProfileKeys :
                  /\ m[k] # Absent => Kind(k, m[k])
                  /\ e[k] # Absent => n[k] = e[k]
                  /\ e[k] = Absent => n[k] \in {Absent, m[k]}
                  /\ e[k] = Absent /\ g[k] = Absent => n[k] = m[k]
                  /\ k \notin Echoed => n[k] \in {Absent, m[k]}
             /\ \A k : OnlyGiven(k) =>
                  /\ m[k] # Absent => Kind(k, m[k])
                  /\ m[k] = g[k] /\ n[k] = Absent
<1> DEFINE m == Configuration!Merged(g, q)
           e == Configuration!Echo(Once(g, q))
           n == Again(g, q)
<1>1. \A k \in Configuration!Keys \ {"DSN"} :
        /\ m[k] # Absent => Kind(k, m[k])
        /\ e[k] # Absent => n[k] = e[k]
        /\ e[k] = Absent => n[k] \in {Absent, m[k]}
        /\ e[k] = Absent /\ k \in Configuration!ProfileKeys /\ g[k] = Absent => n[k] = m[k]
        /\ k \notin Configuration!ProfileKeys => m[k] = g[k] /\ n[k] = e[k]
  BY MergedAgain
<1>2. \A k \in Configuration!Keys \ Echoed : e[k] = Absent
  BY NotEchoed
<1>3. Configuration!ProfileKeys \subseteq Configuration!Keys \ {"DSN"}
  BY DEF Configuration!ProfileKeys, Configuration!Keys
<1>4. "DSN" \in Echoed
  BY DEF Echoed
<1> HIDE DEF m, e, n
<1>5. \A k : OnlyGiven(k) => /\ k \in Configuration!Keys \ {"DSN"}
                             /\ k \notin Configuration!ProfileKeys
                             /\ k \in Configuration!Keys \ Echoed
  BY <1>4 DEF OnlyGiven
<1>6. \A k \in Configuration!ProfileKeys : k \notin Echoed => e[k] = Absent
  BY <1>2, <1>3
<1> QED BY <1>1, <1>2, <1>3, <1>5, <1>6 DEF m, e, n

\* Values of one string, and of places.
LEMMA OfOne ==
  ASSUME NEW S, NEW x \in Seq(S), Len(x) = 1
  PROVE  x[1] \in S /\ x = <<x[1]>> /\ x # <<>>
<1>1. x[1] \in S
  OBVIOUS
<1>2. <<x[1]>> \in Seq(S)
  BY <1>1, OneElement
<1>3. Len(<<x[1]>>) = 1 /\ \A j \in 1..1 : <<x[1]>>[j] = x[j]
  OBVIOUS
<1>4. x = <<x[1]>>
  BY <1>2, <1>3, SeqEqual
<1>5. x # <<>>
  BY Len(<<>>) = 0
<1> QED BY <1>1, <1>4, <1>5

LEMMA OfTwo ==
  ASSUME NEW S, NEW x \in Seq(S), Len(x) = 2
  PROVE  x[1] \in S /\ x[2] \in S /\ x = <<x[1], x[2]>> /\ x # <<>>
<1>1. x[1] \in S /\ x[2] \in S
  OBVIOUS
<1>2. <<x[1], x[2]>> \in Seq(S)
  BY <1>1, TwoElements
<1>3. Len(<<x[1], x[2]>>) = 2 /\ \A j \in 1..2 : <<x[1], x[2]>>[j] = x[j]
  OBVIOUS
<1>4. x = <<x[1], x[2]>>
  BY <1>2, <1>3, SeqEqual
<1>5. x # <<>>
  BY Len(<<>>) = 0
<1> QED BY <1>1, <1>4, <1>5

LEMMA UpToTwo == \A n \in Nat : n <= 2 => n = 0 \/ n = 1 \/ n = 2
  OBVIOUS

LEMMA ValueIs ==
  ASSUME NEW x, Configuration!IsValue(x)
  PROVE  x = <<>> \/ (x[1] \in Configuration!Word /\ x = <<x[1]>>)
<1>1. x \in Seq(Configuration!Word) /\ Len(x) <= 1
  BY DEF Configuration!IsValue
<1>2. Len(x) = 0 \/ Len(x) = 1
  <2>1. Len(x) \in Nat
    BY <1>1
  <2> QED BY <1>1, <2>1, UpToTwo
<1>3. CASE Len(x) = 0
  BY <1>1, <1>3, EmptySeq
<1>4. CASE Len(x) = 1
  BY <1>1, <1>4, OfOne
<1> QED BY <1>2, <1>3, <1>4

LEMMA PlaceIs ==
  ASSUME NEW x, Configuration!IsPlace(x)
  PROVE  \/ x = <<>>
         \/ x[1] \in Configuration!Word /\ x[1] # "url" /\ x = <<x[1]>> /\ Len(x) = 1
         \/ /\ x[1] \in Configuration!Word /\ x[1] # "url" /\ x[2] \in Configuration!Word
            /\ x = <<x[1], x[2]>> /\ Len(x) = 2
         \/ x[1] = "url" /\ x[2] \in Configuration!Word /\ x[2] # "" /\ x = <<"url", x[2]>>
<1>1. x \in Seq(Configuration!Word) /\ Len(x) <= 2
  BY Zenon DEF Configuration!IsPlace
<1>6. x # <<>> /\ x[1] = "url" => Len(x) = 2 /\ x[2] # ""
  BY Zenon DEF Configuration!IsPlace
<1>2. Len(x) = 0 \/ Len(x) = 1 \/ Len(x) = 2
  <2>1. Len(x) \in Nat /\ Len(x) <= 2
    BY <1>1
  <2> QED BY <2>1, UpToTwo, Zenon
<1>3. CASE Len(x) = 0
  BY <1>1, <1>3, EmptySeq
<1>4. CASE Len(x) = 1
  <2>1. x[1] \in Configuration!Word /\ x = <<x[1]>> /\ x # <<>>
    BY <1>1, <1>4, OfOne
  <2>2. x[1] # "url"
    BY <1>4, <1>6, <2>1
  <2> QED BY <1>4, <2>1, <2>2, Zenon
<1>5. CASE Len(x) = 2
  <2>1. x[1] \in Configuration!Word /\ x[2] \in Configuration!Word /\ x = <<x[1], x[2]>> /\ x # <<>>
    BY <1>1, <1>5, OfTwo
  <2>2. CASE x[1] = "url"
    BY <1>6, <2>1, <2>2, Zenon
  <2> QED BY <1>5, <2>1, <2>2, Zenon
<1> QED BY <1>2, <1>3, <1>4, <1>5

LEMMA NotAbsent ==
  \A s, t \in Configuration!Word : There(<<s>>) /\ There(<<s, t>>)
<1> SUFFICES ASSUME NEW s \in Configuration!Word, NEW t \in Configuration!Word
             PROVE  There(<<s>>) /\ There(<<s, t>>)
  OBVIOUS
<1>1. <<s>> \in Seq(Configuration!Word) /\ <<s, t>> \in Seq(Configuration!Word)
  BY OneElement, TwoElements
<1>2. Absent \notin Seq(Configuration!Word)
  BY ConfigAssumption DEF Configuration!ConfigAssumed
<1>3. <<s>> # <<>> /\ <<s, t>> # <<>>
  <2>1. Len(<<s>>) # 0 /\ Len(<<s, t>>) # 0
    OBVIOUS
  <2> QED BY <1>1, <2>1, EmptySeq
<1>4. <<s>> # Absent /\ <<s, t>> # Absent
  BY <1>1, <1>2, Zenon
<1> QED BY <1>3, <1>4 DEF There

\* Texts come back by their first names.
LEMMA TextsAgain ==
  ASSUME NEW g, NEW q, Given(g, q), CanEcho(g, q)
  PROVE  LET c == Once(g, q)
             d == Configuration!ConfigFromKeyValues(Again(g, q))
         IN  /\ d.uid = c.uid /\ d.pwd = c.pwd /\ d.token = c.token
             /\ d.database = c.database /\ d.queryOptions = c.queryOptions
<1> DEFINE m == Configuration!Merged(g, q)
           c == Once(g, q)
           e == Configuration!Echo(c)
           n == Again(g, q)
           d == Configuration!ConfigFromKeyValues(n)
<1>1. /\ \A k \in Configuration!ProfileKeys :
           /\ m[k] # Absent => Kind(k, m[k])
           /\ e[k] # Absent => n[k] = e[k]
           /\ e[k] = Absent => n[k] \in {Absent, m[k]}
           /\ e[k] = Absent /\ g[k] = Absent => n[k] = m[k]
           /\ k \notin Echoed => n[k] \in {Absent, m[k]}
      /\ \A k : OnlyGiven(k) =>
           /\ m[k] # Absent => Kind(k, m[k])
           /\ m[k] = g[k] /\ n[k] = Absent
  BY KeysAgain
<1>2. /\ c.uid = First(m["UID"], m["USER"], m["USERNAME"])
      /\ d.uid = First(n["UID"], n["USER"], n["USERNAME"])
      /\ c.pwd = First(m["PWD"], m["PASSWORD"], Absent)
      /\ d.pwd = First(n["PWD"], n["PASSWORD"], Absent)
      /\ c.token = First(m["TOKEN"], m["AUTHTOKEN"], Absent)
      /\ d.token = First(n["TOKEN"], n["AUTHTOKEN"], Absent)
      /\ c.database = First(m["DATABASE"], m["DB"], Absent)
      /\ d.database = First(n["DATABASE"], n["DB"], Absent)
      /\ c.queryOptions = First(m["QUERYOPTIONS"], Absent, Absent)
      /\ d.queryOptions = First(n["QUERYOPTIONS"], Absent, Absent)
  <2>1. c = Configuration!ConfigFromKeyValues(m)
    BY DEF Once
  <2> HIDE DEF m, n, c
  <2> QED BY <2>1, ConfigFields, Zenon
<1>3. /\ e["UID"] = IF c.uid = <<>> THEN Absent ELSE c.uid
      /\ e["PWD"] = IF c.pwd = <<>> THEN Absent ELSE c.pwd
      /\ e["TOKEN"] = IF c.token = <<>> THEN Absent ELSE c.token
      /\ e["DATABASE"] = IF c.database = <<>> THEN Absent ELSE c.database
      /\ e["QUERYOPTIONS"] = IF c.queryOptions = <<>> THEN Absent ELSE c.queryOptions
  BY EchoTexts
<1> HIDE DEF m, c, e, n, d
<1>4. \A u, t, w, x : x = First(u, t, w) => x = <<>> \/ x # Absent
  BY FirstThere DEF There
<1>uid. d.uid = c.uid
  <2>1. /\ e["UID"] # Absent => n["UID"] = e["UID"]
        /\ e["UID"] = Absent => n["UID"] \in {Absent, m["UID"]}
    BY <1>1, OptionKeys
  <2>2. n["USER"] \in {Absent, m["USER"]} /\ n["USERNAME"] \in {Absent, m["USERNAME"]}
    BY <1>1, OptionKeys
  <2>3. /\ c.uid # <<>> => n["UID"] = c.uid
        /\ c.uid = <<>> => n["UID"] \in {Absent, m["UID"]}
    BY <1>2, <1>3, <1>4, <2>1
  <2> QED BY <1>2, <2>2, <2>3, TextComesBack
<1>pwd. d.pwd = c.pwd
  <2>1. /\ e["PWD"] # Absent => n["PWD"] = e["PWD"]
        /\ e["PWD"] = Absent => n["PWD"] \in {Absent, m["PWD"]}
    BY <1>1, OptionKeys
  <2>2. n["PASSWORD"] \in {Absent, m["PASSWORD"]}
    BY <1>1, OptionKeys
  <2>3. /\ c.pwd # <<>> => n["PWD"] = c.pwd
        /\ c.pwd = <<>> => n["PWD"] \in {Absent, m["PWD"]}
    BY <1>2, <1>3, <1>4, <2>1
  <2> QED BY <1>2, <2>2, <2>3, TextComesBack
<1>token. d.token = c.token
  <2>1. /\ e["TOKEN"] # Absent => n["TOKEN"] = e["TOKEN"]
        /\ e["TOKEN"] = Absent => n["TOKEN"] \in {Absent, m["TOKEN"]}
    BY <1>1, OptionKeys
  <2>2. n["AUTHTOKEN"] \in {Absent, m["AUTHTOKEN"]}
    BY <1>1, OptionKeys
  <2>3. /\ c.token # <<>> => n["TOKEN"] = c.token
        /\ c.token = <<>> => n["TOKEN"] \in {Absent, m["TOKEN"]}
    BY <1>2, <1>3, <1>4, <2>1
  <2> QED BY <1>2, <2>2, <2>3, TextComesBack
<1>database. d.database = c.database
  <2>1. /\ e["DATABASE"] # Absent => n["DATABASE"] = e["DATABASE"]
        /\ e["DATABASE"] = Absent => n["DATABASE"] \in {Absent, m["DATABASE"]}
    BY <1>1, OptionKeys
  <2>2. n["DB"] \in {Absent, m["DB"]}
    BY <1>1, OptionKeys
  <2>3. /\ c.database # <<>> => n["DATABASE"] = c.database
        /\ c.database = <<>> => n["DATABASE"] \in {Absent, m["DATABASE"]}
    BY <1>2, <1>3, <1>4, <2>1
  <2> QED BY <1>2, <2>2, <2>3, TextComesBack
<1>queryOptions. d.queryOptions = c.queryOptions
  <2>1. /\ e["QUERYOPTIONS"] # Absent => n["QUERYOPTIONS"] = e["QUERYOPTIONS"]
        /\ e["QUERYOPTIONS"] = Absent => n["QUERYOPTIONS"] \in {Absent, m["QUERYOPTIONS"]}
    BY <1>1, OptionKeys
  <2>3. /\ c.queryOptions # <<>> => n["QUERYOPTIONS"] = c.queryOptions
        /\ c.queryOptions = <<>> => n["QUERYOPTIONS"] \in {Absent, m["QUERYOPTIONS"]}
    BY <1>2, <1>3, <1>4, <2>1
  <2> QED BY <1>2, <2>3, TextComesBack
<1> QED BY <1>uid, <1>pwd, <1>token, <1>database, <1>queryOptions DEF c, d, n

\* Of a flag the value that is not the default is echoed.
LEMMA FlagsAgain ==
  ASSUME NEW g, NEW q, Given(g, q), CanEcho(g, q)
  PROVE  LET c == Once(g, q)
             d == Configuration!ConfigFromKeyValues(Again(g, q))
         IN  /\ d.sslVerify = c.sslVerify /\ d.useMultistage = c.useMultistage
             /\ d.healthCheck = c.healthCheck
<1> DEFINE m == Configuration!Merged(g, q)
           c == Once(g, q)
           e == Configuration!Echo(c)
           n == Again(g, q)
           d == Configuration!ConfigFromKeyValues(n)
<1>1. /\ \A k \in Configuration!ProfileKeys :
           /\ m[k] # Absent => Kind(k, m[k])
           /\ e[k] # Absent => n[k] = e[k]
           /\ e[k] = Absent => n[k] \in {Absent, m[k]}
           /\ e[k] = Absent /\ g[k] = Absent => n[k] = m[k]
           /\ k \notin Echoed => n[k] \in {Absent, m[k]}
      /\ \A k : OnlyGiven(k) =>
           /\ m[k] # Absent => Kind(k, m[k])
           /\ m[k] = g[k] /\ n[k] = Absent
  BY KeysAgain
<1>2. /\ c.sslVerify = Configuration!Bool(First(m["SSLVERIFY"], m["VERIFYSSL"], Absent), TRUE)
      /\ d.sslVerify = Configuration!Bool(First(n["SSLVERIFY"], n["VERIFYSSL"], Absent), TRUE)
      /\ c.useMultistage =
            Configuration!Bool(First(m["USEMULTISTAGE"], m["MULTISTAGE"], Absent), FALSE)
      /\ d.useMultistage =
            Configuration!Bool(First(n["USEMULTISTAGE"], n["MULTISTAGE"], Absent), FALSE)
      /\ c.healthCheck = Configuration!Bool(First(m["HEALTHCHECK"], Absent, Absent), TRUE)
      /\ d.healthCheck = Configuration!Bool(First(n["HEALTHCHECK"], Absent, Absent), TRUE)
  <2>1. c = Configuration!ConfigFromKeyValues(m)
    BY DEF Once
  <2> HIDE DEF m, n, c
  <2> QED BY <2>1, ConfigFields, Zenon
<1>3. /\ e["SSLVERIFY"] = IF ~c.sslVerify THEN <<"0">> ELSE Absent
      /\ e["USEMULTISTAGE"] = IF c.useMultistage THEN <<"1">> ELSE Absent
      /\ e["HEALTHCHECK"] = IF ~c.healthCheck THEN <<"0">> ELSE Absent
  BY EchoTexts
<1>4. /\ \A x : Configuration!Bool(x, TRUE) = IF x = <<"0">> THEN FALSE ELSE TRUE
      /\ \A x : Configuration!Bool(x, FALSE) = IF x = <<"1">> THEN TRUE ELSE FALSE
  <2>1. <<"1">> # <<"0">>
    <3>1. <<"1">>[1] # <<"0">>[1]
      OBVIOUS
    <3> QED BY <3>1, Zenon
  <2> QED BY <2>1 DEF Configuration!Bool
<1>5. There(<<"0">>) /\ There(<<"1">>)
  <2>1. "0" \in Configuration!Word /\ "1" \in Configuration!Word
    BY DEF Configuration!Word, Configuration!Defaults
  <2> QED BY <2>1, NotAbsent
<1> HIDE DEF m, c, e, n, d
<1>sslVerify. d.sslVerify = c.sslVerify
  <2> DEFINE x == First(m["SSLVERIFY"], m["VERIFYSSL"], Absent)
             y == First(n["SSLVERIFY"], n["VERIFYSSL"], Absent)
  <2>1. /\ c.sslVerify = IF x = <<"0">> THEN FALSE ELSE TRUE
        /\ d.sslVerify = IF y = <<"0">> THEN FALSE ELSE TRUE
    <3> HIDE DEF x, y
    <3>1. c.sslVerify = Configuration!Bool(x, TRUE) /\ d.sslVerify = Configuration!Bool(y, TRUE)
      BY <1>2, Zenon DEF x, y
    <3> QED BY <1>4, <3>1, Zenon
  <2>2. /\ e["SSLVERIFY"] # Absent => n["SSLVERIFY"] = e["SSLVERIFY"]
        /\ e["SSLVERIFY"] = Absent => n["SSLVERIFY"] \in {Absent, m["SSLVERIFY"]}
    BY <1>1, OptionKeys
  <2>3. n["VERIFYSSL"] = Absent
    BY <1>1, OptionKeys
  <2>4. /\ x = <<"0">> => n["SSLVERIFY"] = <<"0">>
        /\ x # <<"0">> => n["SSLVERIFY"] \in {Absent, m["SSLVERIFY"]}
    <3> HIDE DEF x, y
    <3>1. x = <<"0">> => e["SSLVERIFY"] = <<"0">>
      BY <1>3, <2>1
    <3>2. x # <<"0">> => e["SSLVERIFY"] = Absent
      BY <1>3, <2>1
    <3> QED BY <1>5, <2>2, <3>1, <3>2, Zenon DEF There
  <2>5. y = <<"0">> <=> x = <<"0">>
    BY <1>5, <2>3, <2>4, FlagComesBack
  <2> HIDE DEF x, y
  <2>6. CASE x = <<"0">>
    BY <2>1, <2>5, <2>6
  <2>7. CASE x # <<"0">>
    BY <2>1, <2>5, <2>7
  <2> QED BY <2>6, <2>7
<1>useMultistage. d.useMultistage = c.useMultistage
  <2> DEFINE x == First(m["USEMULTISTAGE"], m["MULTISTAGE"], Absent)
             y == First(n["USEMULTISTAGE"], n["MULTISTAGE"], Absent)
  <2>1. /\ c.useMultistage = IF x = <<"1">> THEN TRUE ELSE FALSE
        /\ d.useMultistage = IF y = <<"1">> THEN TRUE ELSE FALSE
    <3> HIDE DEF x, y
    <3>1. /\ c.useMultistage = Configuration!Bool(x, FALSE)
          /\ d.useMultistage = Configuration!Bool(y, FALSE)
      BY <1>2, Zenon DEF x, y
    <3> QED BY <1>4, <3>1, Zenon
  <2>2. /\ e["USEMULTISTAGE"] # Absent => n["USEMULTISTAGE"] = e["USEMULTISTAGE"]
        /\ e["USEMULTISTAGE"] = Absent => n["USEMULTISTAGE"] \in {Absent, m["USEMULTISTAGE"]}
    BY <1>1, OptionKeys
  <2>3. n["MULTISTAGE"] = Absent
    BY <1>1, OptionKeys
  <2>4. /\ x = <<"1">> => n["USEMULTISTAGE"] = <<"1">>
        /\ x # <<"1">> => n["USEMULTISTAGE"] \in {Absent, m["USEMULTISTAGE"]}
    <3> HIDE DEF x, y
    <3>1. x = <<"1">> => e["USEMULTISTAGE"] = <<"1">>
      BY <1>3, <2>1
    <3>2. x # <<"1">> => e["USEMULTISTAGE"] = Absent
      BY <1>3, <2>1
    <3> QED BY <1>5, <2>2, <3>1, <3>2, Zenon DEF There
  <2>5. y = <<"1">> <=> x = <<"1">>
    BY <1>5, <2>3, <2>4, FlagComesBack
  <2> HIDE DEF x, y
  <2>6. CASE x = <<"1">>
    BY <2>1, <2>5, <2>6
  <2>7. CASE x # <<"1">>
    BY <2>1, <2>5, <2>7
  <2> QED BY <2>6, <2>7
<1>healthCheck. d.healthCheck = c.healthCheck
  <2> DEFINE x == First(m["HEALTHCHECK"], Absent, Absent)
             y == First(n["HEALTHCHECK"], Absent, Absent)
  <2>1. /\ c.healthCheck = IF x = <<"0">> THEN FALSE ELSE TRUE
        /\ d.healthCheck = IF y = <<"0">> THEN FALSE ELSE TRUE
    <3> HIDE DEF x, y
    <3>1. c.healthCheck = Configuration!Bool(x, TRUE) /\ d.healthCheck = Configuration!Bool(y, TRUE)
      BY <1>2, Zenon DEF x, y
    <3> QED BY <1>4, <3>1, Zenon
  <2>2. /\ e["HEALTHCHECK"] # Absent => n["HEALTHCHECK"] = e["HEALTHCHECK"]
        /\ e["HEALTHCHECK"] = Absent => n["HEALTHCHECK"] \in {Absent, m["HEALTHCHECK"]}
    BY <1>1, OptionKeys
  <2>4. /\ x = <<"0">> => n["HEALTHCHECK"] = <<"0">>
        /\ x # <<"0">> => n["HEALTHCHECK"] \in {Absent, m["HEALTHCHECK"]}
    <3> HIDE DEF x, y
    <3>1. x = <<"0">> => e["HEALTHCHECK"] = <<"0">>
      BY <1>3, <2>1
    <3>2. x # <<"0">> => e["HEALTHCHECK"] = Absent
      BY <1>3, <2>1
    <3> QED BY <1>5, <2>2, <3>1, <3>2, Zenon DEF There
  <2>5. y = <<"0">> <=> x = <<"0">>
    BY <1>5, <2>4, FlagComesBack
  <2> HIDE DEF x, y
  <2>6. CASE x = <<"0">>
    BY <2>1, <2>5, <2>6
  <2>7. CASE x # <<"0">>
    BY <2>1, <2>5, <2>7
  <2> QED BY <2>6, <2>7
<1> QED BY <1>sslVerify, <1>useMultistage, <1>healthCheck DEF c, d, n

\* The timeout is always echoed, the size of columns never.
LEMMA LimitsAgain ==
  ASSUME NEW g, NEW q, Given(g, q), CanEcho(g, q)
  PROVE  LET c == Once(g, q)
             d == Configuration!ConfigFromKeyValues(Again(g, q))
         IN  d.timeoutSec = c.timeoutSec /\ d.stringColumnSize = c.stringColumnSize
<1> DEFINE m == Configuration!Merged(g, q)
           c == Once(g, q)
           e == Configuration!Echo(c)
           n == Again(g, q)
           d == Configuration!ConfigFromKeyValues(n)
<1>1. /\ \A k \in Configuration!ProfileKeys :
           /\ m[k] # Absent => Kind(k, m[k])
           /\ e[k] # Absent => n[k] = e[k]
           /\ e[k] = Absent => n[k] \in {Absent, m[k]}
           /\ e[k] = Absent /\ g[k] = Absent => n[k] = m[k]
           /\ k \notin Echoed => n[k] \in {Absent, m[k]}
      /\ \A k : OnlyGiven(k) =>
           /\ m[k] # Absent => Kind(k, m[k])
           /\ m[k] = g[k] /\ n[k] = Absent
  BY KeysAgain
<1>2. g["STRINGCOLUMNSIZE"] = Absent
  BY DEF CanEcho
<1>3. e["TIMEOUT"] = <<c.timeoutSec>>
  BY EchoPlaces
<1>4. e["STRINGCOLUMNSIZE"] = Absent
  <2>1. "STRINGCOLUMNSIZE" \in Configuration!Keys \ Echoed
    BY DEF Configuration!Keys, Configuration!ProfileKeys, Echoed
  <2> QED BY <2>1, NotEchoed
<1> DEFINE x == First(m["TIMEOUT"], m["QUERYTIMEOUT"], Absent)
           y == First(n["TIMEOUT"], n["QUERYTIMEOUT"], Absent)
           t == First(m["STRINGCOLUMNSIZE"], Absent, Absent)
           w == First(n["STRINGCOLUMNSIZE"], Absent, Absent)
<1>5. /\ c.timeoutSec = Configuration!Positive(x, "60")
      /\ d.timeoutSec = Configuration!Positive(y, "60")
      /\ c.stringColumnSize = Configuration!Positive(t, "4096")
      /\ d.stringColumnSize = Configuration!Positive(w, "4096")
  <2>1. c = Configuration!ConfigFromKeyValues(m)
    BY DEF Once
  <2> HIDE DEF m, n, c
  <2> QED BY <2>1, ConfigFields, Zenon
<1> HIDE DEF m, c, e, n, d
<1>timeout. d.timeoutSec = c.timeoutSec
  <2>1. x = <<>> \/ (x[1] \in Configuration!Word /\ x = <<x[1]>>)
    <3>1. There(m["TIMEOUT"]) => Configuration!IsValue(m["TIMEOUT"])
      BY <1>1, OptionKeys DEF There, Kind, Configuration!PlaceKeys, Configuration!HostKeys
    <3>2. There(m["QUERYTIMEOUT"]) => Configuration!IsValue(m["QUERYTIMEOUT"])
      BY <1>1, OptionKeys DEF There, Kind, Configuration!PlaceKeys, Configuration!HostKeys
    <3>3. x = <<>> \/ Configuration!IsValue(x)
      BY <3>1, <3>2 DEF First, There
    <3> HIDE DEF x
    <3> QED BY <3>3, ValueIs
  <2> HIDE DEF x, t, w
  <2>2. c.timeoutSec \in Configuration!Word /\ c.timeoutSec # "0"
    <3>1. CASE x \in {<<>>, <<"0">>}
      <4>1. c.timeoutSec = "60"
        BY <1>5, <3>1, Zenon DEF Configuration!Positive
      <4> QED BY <4>1 DEF Configuration!Word, Configuration!Defaults
    <3>2. CASE x \notin {<<>>, <<"0">>}
      <4>1. c.timeoutSec = x[1]
        BY <1>5, <3>2, Zenon DEF Configuration!Positive
      <4> QED BY <2>1, <3>2, <4>1, Zenon
    <3> QED BY <3>1, <3>2
  <2>3. There(<<c.timeoutSec>>)
    BY <2>2, NotAbsent
  <2>4. n["TIMEOUT"] = <<c.timeoutSec>>
    BY <1>1, <1>3, <2>3, OptionKeys DEF There
  <2>5. y = <<c.timeoutSec>>
    BY <2>3, <2>4, Zenon DEF First
  <2>6. <<c.timeoutSec>> \notin {<<>>, <<"0">>} /\ <<c.timeoutSec>>[1] = c.timeoutSec
    <3>1. <<c.timeoutSec>>[1] = c.timeoutSec /\ <<"0">>[1] = "0"
      OBVIOUS
    <3> QED BY <2>2, <2>3, <3>1, Zenon DEF There
  <2> HIDE DEF y
  <2>7. d.timeoutSec = IF y \in {<<>>, <<"0">>} THEN "60" ELSE y[1]
    BY <1>5, Zenon DEF Configuration!Positive
  <2> QED BY <2>5, <2>6, <2>7, Zenon
<1>size. d.stringColumnSize = c.stringColumnSize
  <2>1. n["STRINGCOLUMNSIZE"] = m["STRINGCOLUMNSIZE"]
    BY <1>1, <1>2, <1>4, OptionKeys
  <2> QED BY <1>5, <2>1, Zenon
<1> QED BY <1>timeout, <1>size DEF c, d, n

\* applyEndpoint, over a host and a port that are known.
At(h, t) == [url |-> "", host |-> h, port |-> t]
Host(h) == h \in Configuration!Word /\ h # "url"

IsAt(r, u, h, t) == r.url = u /\ r.host = h /\ r.port = t

LEMMA AtExcept ==
  \A h, t, a, b :
    /\ IsAt(At(h, t), "", h, t)
    /\ IsAt([At(h, t) EXCEPT !.url = a], a, h, t)
    /\ IsAt([At(h, t) EXCEPT !.host = a], "", a, t)
    /\ IsAt([At(h, t) EXCEPT !.host = a, !.port = b], "", a, b)
  BY DEF At, IsAt

LEMMA EndpointIs ==
  \A x, h, t :
    LET r == Configuration!ApplyEndpoint(x, At(h, t)) IN
      /\ x = <<>> => IsAt(r, "", h, t)
      /\ x # <<>> /\ x[1] = "url" => IsAt(r, x[2], h, t)
      /\ x # <<>> /\ x[1] # "url" /\ Len(x) = 2 => IsAt(r, "", x[1], x[2])
      /\ x # <<>> /\ x[1] # "url" /\ Len(x) # 2 => IsAt(r, "", x[1], t)
<1> SUFFICES ASSUME NEW x, NEW h, NEW t
             PROVE  LET r == Configuration!ApplyEndpoint(x, At(h, t)) IN
                    /\ x = <<>> => IsAt(r, "", h, t)
                    /\ x # <<>> /\ x[1] = "url" => IsAt(r, x[2], h, t)
                    /\ x # <<>> /\ x[1] # "url" /\ Len(x) = 2 => IsAt(r, "", x[1], x[2])
                    /\ x # <<>> /\ x[1] # "url" /\ Len(x) # 2 => IsAt(r, "", x[1], t)
  OBVIOUS
<1>1. CASE x = <<>>
  <2>1. Configuration!ApplyEndpoint(x, At(h, t)) = At(h, t)
    BY <1>1 DEF Configuration!ApplyEndpoint
  <2> QED BY <1>1, <2>1, AtExcept, Zenon
<1>2. CASE x # <<>> /\ x[1] = "url"
  <2>1. Configuration!ApplyEndpoint(x, At(h, t)) = [At(h, t) EXCEPT !.url = x[2]]
    BY <1>2, Zenon DEF Configuration!ApplyEndpoint
  <2>2. IsAt([At(h, t) EXCEPT !.url = x[2]], x[2], h, t)
    BY AtExcept
  <2> QED BY <1>2, <2>1, <2>2, Zenon
<1>3. CASE x # <<>> /\ x[1] # "url" /\ Len(x) = 2
  <2>1. Configuration!ApplyEndpoint(x, At(h, t)) = [At(h, t) EXCEPT !.host = x[1], !.port = x[2]]
    BY <1>3, Zenon DEF Configuration!ApplyEndpoint
  <2>2. IsAt([At(h, t) EXCEPT !.host = x[1], !.port = x[2]], "", x[1], x[2])
    BY AtExcept
  <2> QED BY <1>3, <2>1, <2>2, Zenon
<1>4. CASE x # <<>> /\ x[1] # "url" /\ Len(x) # 2
  <2>1. Configuration!ApplyEndpoint(x, At(h, t)) = [At(h, t) EXCEPT !.host = x[1]]
    BY <1>4, Zenon DEF Configuration!ApplyEndpoint
  <2>2. IsAt([At(h, t) EXCEPT !.host = x[1]], "", x[1], t)
    BY AtExcept
  <2> QED BY <1>4, <2>1, <2>2, Zenon
<1> QED BY <1>1, <1>2, <1>3, <1>4

\* An endpoint has a host and a port; its URL is the value's.
LEMMA EndpointOf ==
  \A x, h, t : Configuration!IsPlace(x) /\ Host(h) /\ t \in Configuration!Word =>
    LET r == Configuration!ApplyEndpoint(x, At(h, t))
    IN  /\ Host(r.host) /\ r.port \in Configuration!Word
        /\ r.url # "" => r.url \in Configuration!Word /\ x = <<"url", r.url>>
<1> SUFFICES ASSUME NEW x, NEW h, NEW t,
                    Configuration!IsPlace(x), Host(h), t \in Configuration!Word
             PROVE  LET r == Configuration!ApplyEndpoint(x, At(h, t))
                    IN  /\ Host(r.host) /\ r.port \in Configuration!Word
                        /\ r.url # "" => r.url \in Configuration!Word /\ x = <<"url", r.url>>
  OBVIOUS
<1> DEFINE r == Configuration!ApplyEndpoint(x, At(h, t))
<1>1.
      /\ x = <<>> => IsAt(r, "", h, t)
      /\ x # <<>> /\ x[1] = "url" => IsAt(r, x[2], h, t)
      /\ x # <<>> /\ x[1] # "url" /\ Len(x) = 2 => IsAt(r, "", x[1], x[2])
      /\ x # <<>> /\ x[1] # "url" /\ Len(x) # 2 => IsAt(r, "", x[1], t)
  BY EndpointIs, Zenon
<1>2. \/ x = <<>>
      \/ x[1] \in Configuration!Word /\ x[1] # "url" /\ x = <<x[1]>> /\ Len(x) = 1
      \/ x[1] \in Configuration!Word /\ x[1] # "url" /\ x[2] \in Configuration!Word
         /\ x = <<x[1], x[2]>> /\ Len(x) = 2
      \/ x[1] = "url" /\ x[2] \in Configuration!Word /\ x[2] # "" /\ x = <<"url", x[2]>>
  BY PlaceIs
<1>6. 1 # 2
  OBVIOUS
<1> HIDE DEF r
<1>3. CASE x = <<>>
  <2>1. r.url = "" /\ r.host = h /\ r.port = t
    BY <1>1, <1>3, Zenon DEF IsAt
  <2> QED BY <2>1, Zenon DEF r
<1>4. CASE x # <<>> /\ x[1] # "url"
  <2>1. IsAt(r, "", x[1], IF Len(x) = 2 THEN x[2] ELSE t)
    BY <1>1, <1>4, Zenon
  <2>2. x[1] \in Configuration!Word /\ (Len(x) = 2 => x[2] \in Configuration!Word)
    BY <1>2, <1>4, <1>6, Zenon
  <2>3. r.url = "" /\ r.host = x[1] /\ r.port = IF Len(x) = 2 THEN x[2] ELSE t
    BY <2>1 DEF IsAt
  <2>4. Host(x[1]) /\ (IF Len(x) = 2 THEN x[2] ELSE t) \in Configuration!Word
    BY <1>4, <2>2, Zenon DEF Host
  <2>5. Host(r.host) /\ r.port \in Configuration!Word
    BY <2>3, <2>4, Zenon
  <2> QED BY <2>3, <2>5, Zenon DEF r
<1>5. CASE x # <<>> /\ x[1] = "url"
  <2>1. IsAt(r, x[2], h, t)
    BY <1>1, <1>5, Zenon
  <2>2. x[2] \in Configuration!Word /\ x = <<"url", x[2]>>
    BY <1>2, <1>5, Zenon
  <2>3. r.url = x[2] /\ r.host = h /\ r.port = t
    BY <2>1 DEF IsAt
  <2>4. r.url \in Configuration!Word /\ x = <<"url", r.url>>
    BY <2>2, <2>3, Zenon
  <2>5. Host(r.host) /\ r.port \in Configuration!Word
    BY <2>3, Zenon
  <2> QED BY <2>4, <2>5, Zenon DEF r
<1> QED BY <1>3, <1>4, <1>5 DEF r

\* Applied again over its own outcome, or not at all, it changes nothing.
LEMMA EndpointAgain ==
  \A x, y, h, t :
    Configuration!IsPlace(x) /\ y \in {<<>>, x} =>
    LET r == Configuration!ApplyEndpoint(x, At(h, t))
        s == Configuration!ApplyEndpoint(y, At(r.host, r.port))
    IN  r.url = "" => IsAt(s, "", r.host, r.port)
<1> SUFFICES ASSUME NEW x, NEW y, NEW h, NEW t, Configuration!IsPlace(x), y \in {<<>>, x}
             PROVE  LET r == Configuration!ApplyEndpoint(x, At(h, t))
                        s == Configuration!ApplyEndpoint(y, At(r.host, r.port))
                    IN  r.url = "" => IsAt(s, "", r.host, r.port)
  OBVIOUS
<1> DEFINE r == Configuration!ApplyEndpoint(x, At(h, t))
           s == Configuration!ApplyEndpoint(y, At(r.host, r.port))
<1>1.
      /\ x = <<>> => IsAt(r, "", h, t)
      /\ x # <<>> /\ x[1] = "url" => IsAt(r, x[2], h, t)
      /\ x # <<>> /\ x[1] # "url" /\ Len(x) = 2 => IsAt(r, "", x[1], x[2])
      /\ x # <<>> /\ x[1] # "url" /\ Len(x) # 2 => IsAt(r, "", x[1], t)
  BY EndpointIs, Zenon
<1>2. x # <<>> /\ x[1] = "url" => x[2] # ""
  BY Zenon DEF Configuration!IsPlace
<1> SUFFICES ASSUME r.url = "" PROVE IsAt(s, "", r.host, r.port)
  OBVIOUS
<1>3. /\ y = <<>> => IsAt(s, "", r.host, r.port)
      /\ y # <<>> /\ y[1] # "url" /\ Len(y) = 2 => IsAt(s, "", y[1], y[2])
      /\ y # <<>> /\ y[1] # "url" /\ Len(y) # 2 => IsAt(s, "", y[1], r.port)
  BY EndpointIs, Zenon
<1>4. r.url = ""
  OBVIOUS
<1> HIDE DEF r, s
<1>5. x = <<>> \/ x[1] # "url"
  BY <1>1, <1>2, <1>4, Zenon DEF IsAt
<1>6. y = <<>> \/ y = x
  OBVIOUS
<1>7. CASE y = <<>>
  BY <1>3, <1>7, Zenon
<1>8. CASE y # <<>> /\ y = x /\ Len(x) = 2
  <2>1. IsAt(s, "", x[1], x[2]) /\ IsAt(r, "", x[1], x[2])
    BY <1>1, <1>3, <1>5, <1>8, Zenon
  <2> QED BY <2>1, Zenon DEF IsAt
<1>9. CASE y # <<>> /\ y = x /\ Len(x) # 2
  <2>1. IsAt(s, "", x[1], r.port) /\ IsAt(r, "", x[1], t)
    BY <1>1, <1>3, <1>5, <1>9, Zenon
  <2> QED BY <2>1, Zenon DEF IsAt
<1> QED BY <1>6, <1>7, <1>8, <1>9, Zenon

\* What is read of several keys of a kind has that kind.
LEMMA EmptyIs ==
  Configuration!IsPlace(<<>>) /\ Configuration!IsHost(<<>>) /\ Configuration!IsValue(<<>>)
<1>1. <<>> \in Seq(Configuration!Word) /\ Len(<<>>) = 0
  BY EmptySeq
<1>2. 0 <= 1 /\ 0 <= 2
  OBVIOUS
<1>3. <<>> # <<"url">>
  <2>1. Len(<<"url">>) = 1 /\ 0 # 1
    OBVIOUS
  <2> QED BY <1>1, <2>1, Zenon
<1> QED BY <1>1, <1>2, <1>3, Zenon
        DEF Configuration!IsPlace, Configuration!IsHost, Configuration!IsValue

LEMMA FirstIs ==
  ASSUME NEW u, NEW t, NEW w
  PROVE  LET r == First(u, t, w)
         IN  /\ (\A x \in {u, t, w} : There(x) => Configuration!IsPlace(x))
                => Configuration!IsPlace(r)
             /\ (\A x \in {u, t, w} : There(x) => Configuration!IsHost(x))
                => Configuration!IsHost(r)
             /\ (\A x \in {u, t, w} : There(x) => Configuration!IsValue(x))
                => Configuration!IsValue(r)
<1> DEFINE r == First(u, t, w)
<1>1. r = <<>> \/ (r \in {u, t, w} /\ There(r))
  BY DEF First
<1> HIDE DEF r
<1>2. CASE r = <<>>
  BY <1>2, EmptyIs, Zenon DEF r
<1>3. CASE r \in {u, t, w} /\ There(r)
  BY <1>3, Zenon DEF r
<1> QED BY <1>1, <1>2, <1>3, Zenon

\* A value with a default is a word, or a host.
LEMMA OrWord ==
  ASSUME NEW x, Configuration!IsValue(x), NEW y \in Configuration!Word
  PROVE  Configuration!Or(x, y) \in Configuration!Word
<1>1. x = <<>> \/ x[1] \in Configuration!Word
  BY ValueIs, Zenon
<1> QED BY <1>1, Zenon DEF Configuration!Or

LEMMA OrHost ==
  ASSUME NEW x, Configuration!IsHost(x), NEW y, Host(y)
  PROVE  Host(Configuration!Or(x, y))
<1>1. Configuration!IsValue(x) /\ x # <<"url">>
  BY Zenon DEF Configuration!IsHost
<1>2. x = <<>> \/ (x[1] \in Configuration!Word /\ x = <<x[1]>>)
  BY <1>1, ValueIs, Zenon
<1>3. CASE x = <<>>
  BY <1>3, Zenon DEF Configuration!Or
<1>4. CASE x # <<>>
  <2>1. x[1] # "url"
    BY <1>1, <1>2, <1>4, Zenon
  <2> QED BY <1>2, <1>4, <2>1, Zenon DEF Configuration!Or, Host
<1> QED BY <1>3, <1>4

LEMMA KindIs ==
  /\ \A x : \A k \in {"BROKER", "CONTROLLER", "CONTROLLERURL"} :
        Kind(k, x) => Configuration!IsPlace(x)
  /\ \A x : \A k \in {"HOST", "SERVER", "BROKERHOST", "CONTROLLERHOST"} :
        Kind(k, x) => Configuration!IsHost(x)
  /\ \A x : \A k \in {"PORT", "BROKERPORT", "CONTROLLERPORT"} :
        Kind(k, x) => Configuration!IsValue(x)
<1>1. Configuration!HostKeys \cap Configuration!PlaceKeys = {}
  BY DEF Configuration!HostKeys, Configuration!PlaceKeys
<1>2. {"PORT", "BROKERPORT", "CONTROLLERPORT"}
         \cap (Configuration!HostKeys \cup Configuration!PlaceKeys) = {}
  BY DEF Configuration!HostKeys, Configuration!PlaceKeys
<1>3. \A x : \A k \in Configuration!PlaceKeys : Kind(k, x) => Configuration!IsPlace(x)
  BY Zenon DEF Kind
<1>4. \A x : \A k \in Configuration!HostKeys : Kind(k, x) => Configuration!IsHost(x)
  BY <1>1, Zenon DEF Kind
<1>5. \A x : \A k \in {"PORT", "BROKERPORT", "CONTROLLERPORT"} :
        Kind(k, x) => Configuration!IsValue(x)
  BY <1>2, Zenon DEF Kind
<1> QED BY <1>3, <1>4, <1>5, Zenon DEF Configuration!PlaceKeys, Configuration!HostKeys

\* The broker and the controller of a Config.
Hosts(m) == Configuration!Or(First(m["HOST"], m["SERVER"], m["BROKERHOST"]), "localhost")
Ports(m) == Configuration!Or(First(m["PORT"], m["BROKERPORT"], Absent), "8099")
Brokers(m) == First(m["BROKER"], Absent, Absent)
Controllers(m) == First(m["CONTROLLER"], m["CONTROLLERURL"], Absent)
OwnHost(m) == First(m["CONTROLLERHOST"], Absent, Absent)
OwnPort(m) == First(m["CONTROLLERPORT"], Absent, Absent)

LEMMA PlacesAre ==
  ASSUME NEW m
  PROVE  LET c == Configuration!ConfigFromKeyValues(m)
             r == Configuration!ApplyEndpoint(Controllers(m), At(c.broker.host, "9000"))
         IN  /\ c.broker = Configuration!ApplyEndpoint(Brokers(m), At(Hosts(m), Ports(m)))
             /\ IsAt(c.controller, r.url, Configuration!Or(OwnHost(m), r.host),
                                          Configuration!Or(OwnPort(m), r.port))
<1>1. /\ Configuration!GetAny(m, <<"BROKER">>) = Brokers(m)
      /\ Configuration!Or(Configuration!GetAny(m, <<"HOST", "SERVER", "BROKERHOST">>), "localhost")
            = Hosts(m)
      /\ Configuration!Or(Configuration!GetAny(m, <<"PORT", "BROKERPORT">>), "8099") = Ports(m)
  BY GetAnyIs, Zenon DEF Brokers, Hosts, Ports
<1>2. /\ Configuration!GetAny(m, <<"CONTROLLER", "CONTROLLERURL">>) = Controllers(m)
      /\ Configuration!GetAny(m, <<"CONTROLLERHOST">>) = OwnHost(m)
      /\ Configuration!GetAny(m, <<"CONTROLLERPORT">>) = OwnPort(m)
  BY GetAnyIs, Zenon DEF Controllers, OwnHost, OwnPort
<1> DEFINE c == Configuration!ConfigFromKeyValues(m)
           r == Configuration!ApplyEndpoint(Controllers(m), At(c.broker.host, "9000"))
           s == Configuration!ApplyEndpoint(Controllers(m),
                    At(Configuration!BrokerOf(m).host, "9000"))
<1>3. c.broker = Configuration!BrokerOf(m) /\ c.controller = Configuration!ControllerOf(m)
  BY ConfigFields, Zenon
<1>4. Configuration!BrokerOf(m) =
        Configuration!ApplyEndpoint(Brokers(m), At(Hosts(m), Ports(m)))
  BY <1>1, Zenon DEF Configuration!BrokerOf, At
<1>5. Configuration!ControllerOf(m) =
        [url |-> s.url, host |-> Configuration!Or(OwnHost(m), s.host),
         port |-> Configuration!Or(OwnPort(m), s.port)]
  BY <1>2, Zenon DEF Configuration!ControllerOf, At
<1>6. \A f, a, b : IsAt([url |-> f, host |-> a, port |-> b], f, a, b)
  BY DEF IsAt
<1>7. s = r
  <2> HIDE DEF c
  <2> QED BY <1>3, Zenon
<1> HIDE DEF c, r, s
<1>8. c.broker = Configuration!ApplyEndpoint(Brokers(m), At(Hosts(m), Ports(m)))
  BY <1>3, <1>4, Zenon
<1>9. IsAt(c.controller, r.url, Configuration!Or(OwnHost(m), r.host),
                                Configuration!Or(OwnPort(m), r.port))
  BY <1>3, <1>5, <1>6, <1>7, Zenon
<1> QED BY <1>8, <1>9, Zenon DEF c, r

\* They have a host and a port, if the keys have values of their kinds.
LEMMA PlacesOf ==
  ASSUME NEW m,
         \A k \in Configuration!ProfileKeys : m[k] # Absent => Kind(k, m[k]),
         \A k : OnlyGiven(k) => (m[k] # Absent => Kind(k, m[k]))
  PROVE  LET c == Configuration!ConfigFromKeyValues(m)
         IN  /\ Configuration!IsPlace(Brokers(m))
             /\ Host(c.broker.host) /\ c.broker.port \in Configuration!Word
             /\ c.broker.url # "" => c.broker.url \in Configuration!Word
             /\ Host(c.controller.host) /\ c.controller.port \in Configuration!Word
             /\ c.controller.url # "" => c.controller.url \in Configuration!Word
<1>0. ~There(Absent)
  BY DEF There
<1>1. \A k \in Configuration!ProfileKeys : There(m[k]) => Kind(k, m[k])
  BY DEF There
<1>2. \A k : OnlyGiven(k) => (There(m[k]) => Kind(k, m[k]))
  BY DEF There
<1>3. Configuration!IsPlace(Brokers(m))
  <2>1. There(m["BROKER"]) => Configuration!IsPlace(m["BROKER"])
    BY <1>1, OptionKeys, KindIs
  <2> QED BY <1>0, <2>1, FirstIs DEF Brokers
<1>4. Configuration!IsPlace(Controllers(m))
  <2>1. There(m["CONTROLLER"]) => Configuration!IsPlace(m["CONTROLLER"])
    BY <1>1, OptionKeys, KindIs
  <2>2. There(m["CONTROLLERURL"]) => Configuration!IsPlace(m["CONTROLLERURL"])
    BY <1>2, OptionKeys, KindIs
  <2> QED BY <1>0, <2>1, <2>2, FirstIs DEF Controllers
<1>5. Host(Hosts(m))
  <2>1. There(m["HOST"]) => Configuration!IsHost(m["HOST"])
    BY <1>1, OptionKeys, KindIs
  <2>2. There(m["SERVER"]) => Configuration!IsHost(m["SERVER"])
    BY <1>1, OptionKeys, KindIs
  <2>3. There(m["BROKERHOST"]) => Configuration!IsHost(m["BROKERHOST"])
    BY <1>2, OptionKeys, KindIs
  <2>4. Configuration!IsHost(First(m["HOST"], m["SERVER"], m["BROKERHOST"]))
    BY <2>1, <2>2, <2>3, FirstIs
  <2>5. Host("localhost")
    BY DEF Host, Configuration!Word, Configuration!Defaults
  <2> QED BY <2>4, <2>5, OrHost DEF Hosts
<1>6. Ports(m) \in Configuration!Word
  <2>1. There(m["PORT"]) => Configuration!IsValue(m["PORT"])
    BY <1>1, OptionKeys, KindIs
  <2>2. There(m["BROKERPORT"]) => Configuration!IsValue(m["BROKERPORT"])
    BY <1>2, OptionKeys, KindIs
  <2>3. Configuration!IsValue(First(m["PORT"], m["BROKERPORT"], Absent))
    BY <1>0, <2>1, <2>2, FirstIs
  <2>4. "8099" \in Configuration!Word
    BY DEF Configuration!Word, Configuration!Defaults
  <2> QED BY <2>3, <2>4, OrWord DEF Ports
<1>7. Configuration!IsHost(OwnHost(m))
  <2>1. There(m["CONTROLLERHOST"]) => Configuration!IsHost(m["CONTROLLERHOST"])
    BY <1>2, OptionKeys, KindIs
  <2> QED BY <1>0, <2>1, FirstIs DEF OwnHost
<1>8. Configuration!IsValue(OwnPort(m))
  <2>1. There(m["CONTROLLERPORT"]) => Configuration!IsValue(m["CONTROLLERPORT"])
    BY <1>2, OptionKeys, KindIs
  <2> QED BY <1>0, <2>1, FirstIs DEF OwnPort
<1> DEFINE c == Configuration!ConfigFromKeyValues(m)
           r == Configuration!ApplyEndpoint(Controllers(m), At(c.broker.host, "9000"))
<1>9. /\ c.broker = Configuration!ApplyEndpoint(Brokers(m), At(Hosts(m), Ports(m)))
      /\ IsAt(c.controller, r.url, Configuration!Or(OwnHost(m), r.host),
                                   Configuration!Or(OwnPort(m), r.port))
  BY PlacesAre, Zenon
<1>10. "9000" \in Configuration!Word
  BY DEF Configuration!Word, Configuration!Defaults
<1> HIDE DEF c
<1>11. /\ Host(c.broker.host) /\ c.broker.port \in Configuration!Word
       /\ c.broker.url # "" => c.broker.url \in Configuration!Word
  BY <1>3, <1>5, <1>6, <1>9, EndpointOf, ZenonT(30)
<1>12. /\ Host(r.host) /\ r.port \in Configuration!Word
       /\ r.url # "" => r.url \in Configuration!Word
  BY <1>4, <1>10, <1>11, EndpointOf, ZenonT(30)
<1> HIDE DEF r
<1>13. /\ Host(Configuration!Or(OwnHost(m), r.host))
       /\ Configuration!Or(OwnPort(m), r.port) \in Configuration!Word
  BY <1>7, <1>8, <1>12, OrHost, OrWord
<1>14. /\ c.controller.url = r.url
       /\ c.controller.host = Configuration!Or(OwnHost(m), r.host)
       /\ c.controller.port = Configuration!Or(OwnPort(m), r.port)
  BY <1>9, Zenon DEF IsAt
<1>15. /\ Host(c.controller.host) /\ c.controller.port \in Configuration!Word
       /\ c.controller.url # "" => c.controller.url \in Configuration!Word
  BY <1>12, <1>13, <1>14, Zenon
<1> QED BY <1>3, <1>11, <1>15, Zenon DEF c

\* Two endpoints that make the same URLs.
SamePlace(d, c) ==
    /\ c.url # "" => d.url = c.url
    /\ c.url = "" => IsAt(d, "", c.host, c.port)

\* The broker, the controller and the scheme, in the second round.
LEMMA PlacesAgain ==
  ASSUME NEW g, NEW q, Given(g, q), CanEcho(g, q)
  PROVE  LET c == Once(g, q)
             d == Configuration!ConfigFromKeyValues(Again(g, q))
         IN  /\ SamePlace(d.broker, c.broker) /\ SamePlace(d.controller, c.controller)
             /\ d.scheme = c.scheme
<1> DEFINE m == Configuration!Merged(g, q)
           c == Once(g, q)
           e == Configuration!Echo(c)
           n == Again(g, q)
           d == Configuration!ConfigFromKeyValues(n)
           r == Configuration!ApplyEndpoint(Controllers(n), At(d.broker.host, "9000"))
<1>1. /\ \A k \in Configuration!ProfileKeys :
           /\ m[k] # Absent => Kind(k, m[k])
           /\ e[k] # Absent => n[k] = e[k]
           /\ e[k] = Absent => n[k] \in {Absent, m[k]}
           /\ e[k] = Absent /\ g[k] = Absent => n[k] = m[k]
           /\ k \notin Echoed => n[k] \in {Absent, m[k]}
      /\ \A k : OnlyGiven(k) =>
           /\ m[k] # Absent => Kind(k, m[k])
           /\ m[k] = g[k] /\ n[k] = Absent
  BY KeysAgain
<1>2. /\ Configuration!IsPlace(Brokers(m))
      /\ Host(c.broker.host) /\ c.broker.port \in Configuration!Word
      /\ c.broker.url # "" => c.broker.url \in Configuration!Word
      /\ Host(c.controller.host) /\ c.controller.port \in Configuration!Word
      /\ c.controller.url # "" => c.controller.url \in Configuration!Word
  <2>1. /\ \A k \in Configuration!ProfileKeys : m[k] # Absent => Kind(k, m[k])
        /\ \A k : OnlyGiven(k) => (m[k] # Absent => Kind(k, m[k]))
    BY <1>1, Zenon
  <2>2. c = Configuration!ConfigFromKeyValues(m)
    BY DEF Once
  <2> HIDE DEF m, c
  <2> QED BY <2>1, <2>2, PlacesOf
<1>3. /\ d.broker = Configuration!ApplyEndpoint(Brokers(n), At(Hosts(n), Ports(n)))
      /\ IsAt(d.controller, r.url, Configuration!Or(OwnHost(n), r.host),
                                   Configuration!Or(OwnPort(n), r.port))
  <2> HIDE DEF n
  <2> QED BY PlacesAre, Zenon
<1>4. /\ e["BROKER"] = IF c.broker.url # "" THEN <<"url", c.broker.url>> ELSE Absent
      /\ e["HOST"] = IF c.broker.url # "" THEN Absent ELSE <<c.broker.host>>
      /\ e["PORT"] = IF c.broker.url # "" THEN Absent ELSE <<c.broker.port>>
      /\ e["SCHEME"] = IF c.broker.url # "" THEN Absent ELSE <<c.scheme>>
      /\ e["CONTROLLER"] = IF c.controller.url # "" THEN <<"url", c.controller.url>>
                           ELSE <<c.controller.host, c.controller.port>>
  BY EchoPlaces
<1>5. c.broker.url # "" => g["SCHEME"] = Absent /\ g["PROTOCOL"] = Absent
  BY DEF CanEcho
<1>6. /\ n["PROTOCOL"] = Absent /\ m["PROTOCOL"] = g["PROTOCOL"]
      /\ n["CONTROLLERHOST"] = Absent /\ n["CONTROLLERPORT"] = Absent
  <2> HIDE DEF m, n
  <2> QED BY <1>1, OptionKeys
<1>7. /\ c.scheme = IF First(m["SCHEME"], m["PROTOCOL"], Absent) = <<"https">>
                    THEN "https" ELSE "http"
      /\ d.scheme = IF First(n["SCHEME"], n["PROTOCOL"], Absent) = <<"https">>
                    THEN "https" ELSE "http"
  <2>1. c = Configuration!ConfigFromKeyValues(m)
    BY DEF Once
  <2> HIDE DEF m, n, c
  <2> QED BY <2>1, ConfigFields, Zenon
<1>9. \A w \in Configuration!Word, k \in Configuration!ProfileKeys :
        e[k] = <<w>> => There(n[k]) /\ n[k] = <<w>>
  BY <1>1, NotAbsent, Zenon DEF There
<1>10. \A w, u \in Configuration!Word, k \in Configuration!ProfileKeys :
        e[k] = <<w, u>> => There(n[k]) /\ n[k] = <<w, u>>
  BY <1>1, NotAbsent, Zenon DEF There
<1>11. \A u : <<"url", u>> # <<>> /\ <<"url", u>>[1] = "url" /\ <<"url", u>>[2] = u
  OBVIOUS
<1>12. "url" \in Configuration!Word
  BY DEF Configuration!Word, Configuration!Defaults
<1>13. /\ "BROKER" \in Configuration!ProfileKeys /\ "CONTROLLER" \in Configuration!ProfileKeys
       /\ "HOST" \in Configuration!ProfileKeys /\ "PORT" \in Configuration!ProfileKeys
       /\ "SCHEME" \in Configuration!ProfileKeys
  BY OptionKeys
<1>14. c.broker = Configuration!ApplyEndpoint(Brokers(m), At(Hosts(m), Ports(m)))
  <2>1. c = Configuration!ConfigFromKeyValues(m)
    BY DEF Once
  <2> HIDE DEF m, c
  <2> QED BY <2>1, PlacesAre, Zenon
<1> HIDE DEF m, c, e, n, d, r
<1>15. \A u, t, w : There(u) => First(u, t, w) = u
  BY Zenon DEF First
<1>16. IsAt(d.controller, r.url, r.host, r.port)
  <2>1. OwnHost(n) = <<>> /\ OwnPort(n) = <<>>
    BY <1>6, Zenon DEF OwnHost, OwnPort, First, There
  <2>2. \A w : Configuration!Or(<<>>, w) = w
    BY Zenon DEF Configuration!Or
  <2> QED BY <1>3, <2>1, <2>2, Zenon
<1>broker. SamePlace(d.broker, c.broker)
  <2>1. CASE c.broker.url # ""
    <3>1. Brokers(n) = <<"url", c.broker.url>>
      <4>1. There(n["BROKER"]) /\ n["BROKER"] = <<"url", c.broker.url>>
        <5>1. e["BROKER"] = <<"url", c.broker.url>> /\ c.broker.url \in Configuration!Word
          BY <1>2, <1>4, <2>1
        <5> QED BY <1>10, <1>12, <1>13, <5>1
      <4> QED BY <1>15, <4>1 DEF Brokers
    <3>2. IsAt(d.broker, c.broker.url, Hosts(n), Ports(n))
      <4>1. Brokers(n) # <<>> /\ Brokers(n)[1] = "url" /\ Brokers(n)[2] = c.broker.url
        BY <1>11, <3>1, Zenon
      <4> QED BY <1>3, <4>1, EndpointIs, Zenon
    <3> QED BY <2>1, <3>2, Zenon DEF SamePlace, IsAt
  <2>2. CASE c.broker.url = ""
    <3>1. n["HOST"] = <<c.broker.host>> /\ There(n["HOST"])
      BY <1>2, <1>4, <1>9, <1>13, <2>2, Zenon DEF Host
    <3>2. n["PORT"] = <<c.broker.port>> /\ There(n["PORT"])
      BY <1>2, <1>4, <1>9, <1>13, <2>2, Zenon
    <3>3. \A a, w : Configuration!Or(<<a>>, w) = a
      BY DEF Configuration!Or
    <3>4. Hosts(n) = c.broker.host
      BY <1>15, <3>1, <3>3 DEF Hosts
    <3>5. Ports(n) = c.broker.port
      BY <1>15, <3>2, <3>3 DEF Ports
    <3>6. Brokers(n) \in {<<>>, Brokers(m)}
      <4>1. n["BROKER"] \in {Absent, m["BROKER"]}
        BY <1>1, <1>4, <1>13, <2>2, Zenon
      <4> QED BY <4>1, Zenon DEF Brokers, First, There
    <3> DEFINE s == Configuration!ApplyEndpoint(Brokers(n), At(c.broker.host, c.broker.port))
    <3>7. IsAt(s, "", c.broker.host, c.broker.port)
      BY <1>2, <1>14, <2>2, <3>6, EndpointAgain, Zenon
    <3> HIDE DEF s
    <3>8. d.broker = s
      BY <1>3, <3>4, <3>5, Zenon DEF s
    <3> QED BY <2>2, <3>7, <3>8, Zenon DEF SamePlace
  <2> QED BY <2>1, <2>2
<1>controller. SamePlace(d.controller, c.controller)
  <2>1. CASE c.controller.url # ""
    <3>1. Controllers(n) = <<"url", c.controller.url>>
      <4>1. There(n["CONTROLLER"]) /\ n["CONTROLLER"] = <<"url", c.controller.url>>
        <5>1. /\ e["CONTROLLER"] = <<"url", c.controller.url>>
              /\ c.controller.url \in Configuration!Word
          BY <1>2, <1>4, <2>1
        <5> QED BY <1>10, <1>12, <1>13, <5>1
      <4> QED BY <1>15, <4>1 DEF Controllers
    <3>2. /\ Controllers(n) # <<>> /\ Controllers(n)[1] = "url"
          /\ Controllers(n)[2] = c.controller.url
      BY <1>11, <3>1, Zenon
    <3>3. IsAt(r, c.controller.url, d.broker.host, "9000")
      BY <3>2, EndpointIs, Zenon DEF r
    <3> QED BY <1>16, <2>1, <3>3, Zenon DEF SamePlace, IsAt
  <2>2. CASE c.controller.url = ""
    <3> DEFINE a == c.controller.host
               w == c.controller.port
               z == Controllers(n)
    <3>1. z = <<a, w>>
      <4>1. There(n["CONTROLLER"]) /\ n["CONTROLLER"] = <<a, w>>
        <5>1. e["CONTROLLER"] = <<a, w>>
          BY <1>4, <2>2
        <5>2. a \in Configuration!Word /\ w \in Configuration!Word
          BY <1>2 DEF Host
        <5> HIDE DEF a, w
        <5> QED BY <1>10, <1>13, <5>1, <5>2
      <4> QED BY <1>15, <4>1 DEF Controllers
    <3>2. \A u, j : <<u, j>> # <<>> /\ <<u, j>>[1] = u /\ <<u, j>>[2] = j /\ Len(<<u, j>>) = 2
      OBVIOUS
    <3>3. z # <<>> /\ z[1] # "url" /\ z[1] = a /\ z[2] = w /\ Len(z) = 2
      <4>1. a # "url"
        BY <1>2 DEF Host
      <4> HIDE DEF a, w, z
      <4> QED BY <3>1, <3>2, <4>1, Zenon
    <3>4. IsAt(r, "", z[1], z[2])
      <4>1. r = Configuration!ApplyEndpoint(z, At(d.broker.host, "9000"))
        BY DEF r
      <4> HIDE DEF z
      <4> QED BY <3>3, <4>1, EndpointIs, Zenon
    <3> HIDE DEF a, w, z
    <3>5. IsAt(d.controller, "", a, w)
      BY <1>16, <3>3, <3>4, Zenon DEF IsAt
    <3> QED BY <2>2, <3>5, Zenon DEF SamePlace, a, w
  <2> QED BY <2>1, <2>2
<1>scheme. d.scheme = c.scheme
  <2>1. CASE c.broker.url # ""
    <3>1. n["SCHEME"] = m["SCHEME"]
      BY <1>1, <1>4, <1>5, <1>13, <2>1, Zenon
    <3>2. n["PROTOCOL"] = m["PROTOCOL"]
      BY <1>5, <1>6, <2>1, Zenon
    <3> QED BY <1>7, <3>1, <3>2, Zenon
  <2>2. CASE c.broker.url = ""
    <3>1. c.scheme = "http" \/ c.scheme = "https"
      BY <1>7, Zenon
    <3>2. c.scheme \in Configuration!Word
      BY <3>1 DEF Configuration!Word, Configuration!Defaults
    <3>3. There(n["SCHEME"]) /\ n["SCHEME"] = <<c.scheme>>
      BY <1>4, <1>9, <1>13, <2>2, <3>2, Zenon
    <3>4. First(n["SCHEME"], n["PROTOCOL"], Absent) = <<c.scheme>>
      BY <1>15, <3>3, Zenon
    <3>5. <<"http">> # <<"https">>
      <4>1. <<"http">>[1] # <<"https">>[1]
        OBVIOUS
      <4> QED BY <4>1, Zenon
    <3>6. CASE c.scheme = "http"
      BY <1>7, <3>4, <3>5, <3>6, Zenon
    <3>7. CASE c.scheme = "https"
      BY <1>7, <3>4, <3>7, Zenon
    <3> QED BY <3>1, <3>6, <3>7
  <2> QED BY <2>1, <2>2
<1> QED BY <1>broker, <1>controller, <1>scheme DEF c, d, n

\* A connection made with the echo uses what the first one did.
LEMMA UsesAgain ==
  ASSUME NEW g, NEW q, Given(g, q), CanEcho(g, q)
  PROVE  Configuration!Uses(Configuration!ConfigFromKeyValues(Again(g, q)))
            = Configuration!Uses(Once(g, q))
<1> DEFINE c == Once(g, q)
           d == Configuration!ConfigFromKeyValues(Again(g, q))
<1>1. /\ d.uid = c.uid /\ d.pwd = c.pwd /\ d.token = c.token
      /\ d.database = c.database /\ d.queryOptions = c.queryOptions
      /\ d.timeoutSec = c.timeoutSec /\ d.stringColumnSize = c.stringColumnSize
      /\ d.sslVerify = c.sslVerify /\ d.useMultistage = c.useMultistage
      /\ d.healthCheck = c.healthCheck
  BY TextsAgain, LimitsAgain, FlagsAgain, Zenon
<1>2. /\ SamePlace(d.broker, c.broker) /\ SamePlace(d.controller, c.controller)
      /\ d.scheme = c.scheme
  BY PlacesAgain, Zenon
<1> HIDE DEF c, d
<1>3. \A s, f, r : SamePlace(f, r) => Configuration!BaseUrl(s, f) = Configuration!BaseUrl(s, r)
  BY Zenon DEF SamePlace, IsAt, Configuration!BaseUrl
<1>4. /\ Configuration!BaseUrl(d.scheme, d.broker) = Configuration!BaseUrl(c.scheme, c.broker)
      /\ Configuration!BaseUrl(d.scheme, d.controller)
            = Configuration!BaseUrl(c.scheme, c.controller)
  BY <1>2, <1>3, Zenon
<1>5. Configuration!Uses(d) = Configuration!Uses(c)
  BY <1>1, <1>4, Zenon DEF Configuration!Uses
<1> QED BY <1>5 DEF c, d

\* What a call of the configuration has made so far.
Reconnecting ==
    connecting # "rest" =>
    /\ Given(given, profile) /\ connecting \in {"merge", "config", "echo", "done"}
    /\ round = 1 =>
        /\ connecting = "merge" => kv = given
        /\ connecting = "config" => kv = Configuration!Merged(given, profile)
        /\ connecting = "echo" => cfg = Once(given, profile)
        /\ connecting # "done"
    /\ round # 1 =>
        /\ first = Once(given, profile)
        /\ connecting = "merge" => kv = Configuration!Echo(first)
        /\ connecting = "config" => kv = Again(given, profile)
        /\ connecting = "done" =>
              cfg = Configuration!ConfigFromKeyValues(Again(given, profile))
        /\ connecting # "echo"

LEMMA ReconnectingInit == Init => Reconnecting
<1>1. ConfigurationAtRest => Reconnecting
  BY DEF ConfigurationAtRest, Reconnecting
<1>2. Configuration!Init => Reconnecting
  <2> SUFFICES ASSUME Configuration!Init PROVE Reconnecting
    OBVIOUS
  <2>1. given \in ConnectStrings /\ (given["DSN"] # Absent => profile \in Profiles)
    BY DEF Configuration!Init
  <2>2. Given(given, profile)
    BY <2>1, ConfigAssumption DEF Configuration!ConfigAssumed, Given
  <2>3. round = 1 /\ connecting = "merge" /\ kv = given
    BY DEF Configuration!Init
  <2> QED BY <2>2, <2>3 DEF Reconnecting
<1> QED BY <1>1, <1>2, Zenon DEF Init

LEMMA ReconnectingStep == Reconnecting /\ [Next]_vars => Reconnecting'
<1> SUFFICES ASSUME Reconnecting, [Next]_vars PROVE Reconnecting'
  OBVIOUS
<1>1. CASE UNCHANGED configVars
  BY <1>1, Zenon DEF Reconnecting, configVars
<1>2. CASE Configuration!Next
  <2>1. CASE Configuration!MergeDsnProfile
    <3>1. /\ connecting = "merge" /\ connecting' = "config"
          /\ kv' = Configuration!Merged(kv, profile)
          /\ given' = given /\ profile' = profile /\ first' = first /\ round' = round
      BY <2>1 DEF Configuration!MergeDsnProfile
    <3>2. round # 1 => kv' = Again(given, profile)
      BY <3>1 DEF Reconnecting, Again
    <3>3. round = 1 => kv' = Configuration!Merged(given, profile)
      BY <3>1 DEF Reconnecting
    <3> QED BY <3>1, <3>2, <3>3 DEF Reconnecting
  <2>2. CASE Configuration!MakeConfig
    <3>1. /\ connecting = "config" /\ connecting' = IF round = 1 THEN "echo" ELSE "done"
          /\ cfg' = Configuration!ConfigFromKeyValues(kv)
          /\ given' = given /\ profile' = profile /\ first' = first /\ round' = round
      BY <2>2 DEF Configuration!MakeConfig
    <3>2. round = 1 => cfg' = Once(given, profile)
      BY <3>1 DEF Reconnecting, Once
    <3>3. round # 1 => cfg' = Configuration!ConfigFromKeyValues(Again(given, profile))
      BY <3>1 DEF Reconnecting
    <3> QED BY <3>1, <3>2, <3>3 DEF Reconnecting
  <2>3. CASE Configuration!ConnectAgain
    <3>1. /\ connecting = "echo" /\ connecting' = "merge" /\ round' = 2
          /\ first' = cfg /\ kv' = Configuration!Echo(cfg)
          /\ given' = given /\ profile' = profile
      BY <2>3 DEF Configuration!ConnectAgain
    <3>2. cfg = Once(given, profile)
      BY <3>1 DEF Reconnecting
    <3> QED BY <3>1, <3>2 DEF Reconnecting
  <2> QED BY <1>2, <2>1, <2>2, <2>3 DEF Configuration!Next
<1>3. UNCHANGED configVars \/ Configuration!Next
  BY Zenon DEF Next, vars
<1> QED BY <1>1, <1>2, <1>3

\* Connecting with the string SQLDriverConnect gives back is connecting with
\* the one it was given, whatever keys it and the profile of its data source
\* hold.
THEOREM ReconnectsWithEcho == Spec => []EchoReconnects
<1>1. Init => Reconnecting
  BY ReconnectingInit
<1>2. Reconnecting /\ [Next]_vars => Reconnecting'
  BY ReconnectingStep
<1>3. Reconnecting => EchoReconnects
  <2> SUFFICES ASSUME Reconnecting, connecting = "done", Configuration!Echoable
               PROVE  Configuration!Uses(cfg) = Configuration!Uses(first)
    BY DEF EchoReconnects, Configuration!EchoReconnects
  <2>1. /\ Given(given, profile) /\ first = Once(given, profile)
        /\ cfg = Configuration!ConfigFromKeyValues(Again(given, profile))
    BY DEF Reconnecting
  <2>2. CanEcho(given, profile)
    BY <2>1 DEF Configuration!Echoable, CanEcho
  <2> QED BY <2>1, <2>2, UsesAgain
<1> QED BY <1>1, <1>2, <1>3, PTL DEF Spec

-----------------------------------------------------------------------------
(* Like *)

\* What the pattern pt means on the value vl, with the patterns and values as
\* parameters, so that it is the same after a step.
EscapesIn(pt, a) == a < Len(pt) /\ pt[a] = "\\"

Says(pt, vl, f, a, b) ==
    \/ a > Len(pt) /\ b > Len(vl)
    \/ /\ a <= Len(pt) /\ pt[a] = "%"
       /\ \E c \in b..Len(vl) + 1 : f[a + 1][c]
    \/ /\ a <= Len(pt) /\ pt[a] # "%" /\ b <= Len(vl)
       /\ \/ EscapesIn(pt, a) /\ pt[a + 1] = vl[b] /\ f[a + 2][b + 1]
          \/ ~EscapesIn(pt, a) /\ pt[a] \in {"_", vl[b]} /\ f[a + 1][b + 1]

Meaning(pt, vl) ==
    CHOOSE f : f = [a \in 1..Len(pt) + 1 |-> [b \in 1..Len(vl) + 1 |-> Says(pt, vl, f, a, b)]]

LEMMA MatchesIs == \A j, k : Pattern!Matches(j, k) = Meaning(pattern, value)[j][k]
  BY DEF Pattern!Matches, Pattern!Escapes, Meaning, Says, EscapesIn

\* There is such a function, and it is Boolean.
LEMMA MeaningExists ==
  ASSUME NEW C, NEW pt \in Seq(C), NEW D, NEW vl \in Seq(D)
  PROVE  /\ Meaning(pt, vl) \in [1..Len(pt) + 1 -> [1..Len(vl) + 1 -> BOOLEAN]]
         /\ \A a \in 1..Len(pt) + 1, b \in 1..Len(vl) + 1 :
               Meaning(pt, vl)[a][b] <=> Says(pt, vl, Meaning(pt, vl), a, b)
<1> DEFINE A == 1..Len(pt) + 1
           B == 1..Len(vl) + 1
           S == [B -> BOOLEAN]
           rank == [a \in A |-> Len(pt) + 1 - a]
           G == [x \in A \X [A -> S] |-> [b \in B |-> Says(pt, vl, x[2], x[1], b)]]
<1>1. rank \in [A -> Nat] /\ S # {}
  <2>1. \A a \in A : Len(pt) + 1 - a \in Nat
    OBVIOUS
  <2>2. [b \in B |-> TRUE] \in S
    OBVIOUS
  <2>3. rank \in [A -> Nat]
    <3> HIDE DEF A
    <3> QED BY <2>1
  <2> QED BY <2>2, <2>3
<1>2. \A a \in A, f \in [A -> S] : G[<<a, f>>] = [b \in B |-> Says(pt, vl, f, a, b)]
  OBVIOUS
<1>3. \A a \in A : /\ a <= Len(pt) => a + 1 \in A /\ rank[a + 1] < rank[a]
                   /\ EscapesIn(pt, a) => a + 2 \in A /\ rank[a + 2] < rank[a]
  BY DEF EscapesIn
<1>4. \A b \in B : (b <= Len(vl) => b + 1 \in B) /\ b..Len(vl) + 1 \subseteq B
  OBVIOUS
<1>5. \A a, f, b : Says(pt, vl, f, a, b) \in BOOLEAN
  BY Zenon DEF Says
<1>6. Into(A, S, G)
  <2>1. \A a \in A, f \in [A -> S] : G[<<a, f>>] \in S
    BY <1>2, <1>5
  <2> HIDE DEF A, S, G
  <2> QED BY <2>1, Zenon DEF Into
<1>7. Below(A, S, rank, G)
  <2> SUFFICES ASSUME NEW a \in A, NEW f \in [A -> S], NEW g \in [A -> S],
                      \A c \in A : rank[c] < rank[a] => f[c] = g[c]
               PROVE  G[<<a, f>>] = G[<<a, g>>]
    <3> HIDE DEF A, S, rank, G
    <3> QED BY Zenon DEF Below
  <2>1. /\ a <= Len(pt) => f[a + 1] = g[a + 1]
        /\ EscapesIn(pt, a) => f[a + 2] = g[a + 2]
    BY <1>3
  <2>2. \A b \in B : Says(pt, vl, f, a, b) = Says(pt, vl, g, a, b)
    <3>1. a > Len(pt) \/ a <= Len(pt)
      OBVIOUS
    <3> QED BY <2>1, <3>1, Zenon DEF Says
  <2> QED BY <1>2, <2>2
<1> HIDE DEF A, B, S, rank, G
<1>8. \E f \in [A -> S] : Follows(f, A, G)
  BY <1>1, <1>6, <1>7, Recursion
<1>9. \E f \in [A -> S] : f = [a \in A |-> [b \in B |-> Says(pt, vl, f, a, b)]]
  <2>1. PICK f \in [A -> S] : f = [a \in A |-> G[<<a, f>>]]
    BY <1>8, Zenon DEF Follows
  <2>2. [a \in A |-> G[<<a, f>>]] = [a \in A |-> [b \in B |-> Says(pt, vl, f, a, b)]]
    BY <1>2
  <2> QED BY <2>1, <2>2
<1>10. Meaning(pt, vl) = [a \in A |-> [b \in B |-> Says(pt, vl, Meaning(pt, vl), a, b)]]
  BY <1>9, Zenon DEF Meaning, A, B
<1>11. Meaning(pt, vl) \in [A -> S]
  <2> DEFINE M == Meaning(pt, vl)
             h == [a \in A |-> [b \in B |-> Says(pt, vl, M, a, b)]]
  <2>1. M = h
    BY <1>10
  <2>2. \A a \in A : [b \in B |-> Says(pt, vl, M, a, b)] \in S
    BY <1>5 DEF S
  <2>3. h \in [A -> S]
    <3> HIDE DEF M
    <3> QED BY <2>2
  <2> HIDE DEF h
  <2> QED BY <2>1, <2>3
<1>12. \A a \in A, b \in B : Meaning(pt, vl)[a][b] = Says(pt, vl, Meaning(pt, vl), a, b)
  <2> DEFINE M == Meaning(pt, vl)
             h == [a \in A |-> [b \in B |-> Says(pt, vl, M, a, b)]]
  <2>1. M = h
    BY <1>10
  <2> HIDE DEF M
  <2>2. \A a \in A, b \in B : h[a][b] = Says(pt, vl, M, a, b)
    OBVIOUS
  <2> HIDE DEF h
  <2>3. \A a \in A, b \in B : M[a][b] = Says(pt, vl, M, a, b)
    BY <2>1, <2>2
  <2> QED BY <2>3 DEF M
<1> QED BY <1>11, <1>12 DEF A, B, S

\* A character of the value that one of the pattern, or an escape, stands for.
Width(pt, a) == IF EscapesIn(pt, a) THEN 2 ELSE 1
Takes(pt, vl, a, b) ==
    \/ EscapesIn(pt, a) /\ pt[a + 1] = vl[b]
    \/ ~EscapesIn(pt, a) /\ pt[a] \in {"_", vl[b]}

\* The meaning, position by position.
Rules(M, pt, vl) ==
    /\ \A b \in 1..Len(vl) + 1 : M[Len(pt) + 1][b] <=> b = Len(vl) + 1
    /\ \A a \in 1..Len(pt), b \in 1..Len(vl) + 1 :
          pt[a] = "%" => (M[a][b] <=> \E c \in b..Len(vl) + 1 : M[a + 1][c])
    /\ \A a \in 1..Len(pt) : pt[a] # "%" => ~M[a][Len(vl) + 1]
    /\ \A a \in 1..Len(pt), b \in 1..Len(vl) :
          pt[a] # "%" => (M[a][b] <=> Takes(pt, vl, a, b) /\ M[a + Width(pt, a)][b + 1])

LEMMA MeaningRules ==
  ASSUME NEW C, NEW pt \in Seq(C), NEW D, NEW vl \in Seq(D)
  PROVE  Rules(Meaning(pt, vl), pt, vl)
<1> DEFINE M == Meaning(pt, vl)
<1>1. \A a \in 1..Len(pt) + 1, b \in 1..Len(vl) + 1 : M[a][b] <=> Says(pt, vl, M, a, b)
  BY MeaningExists
<1> HIDE DEF M
<1>0. Len(pt) \in Nat /\ Len(vl) \in Nat
  OBVIOUS
<1>2. ASSUME NEW b \in 1..Len(vl) + 1 PROVE M[Len(pt) + 1][b] <=> b = Len(vl) + 1
  <2>1. M[Len(pt) + 1][b] <=> Says(pt, vl, M, Len(pt) + 1, b)
    BY <1>0, <1>1
  <2>2. Says(pt, vl, M, Len(pt) + 1, b) <=> b > Len(vl)
    <3>1. Len(pt) + 1 > Len(pt) /\ ~(Len(pt) + 1 <= Len(pt))
      BY <1>0
    <3> QED BY <3>1, Zenon DEF Says
  <2> QED BY <1>0, <2>1, <2>2
<1>3. ASSUME NEW a \in 1..Len(pt), NEW b \in 1..Len(vl) + 1, pt[a] = "%"
      PROVE  M[a][b] <=> \E c \in b..Len(vl) + 1 : M[a + 1][c]
  <2>1. M[a][b] <=> Says(pt, vl, M, a, b)
    BY <1>0, <1>1
  <2>2. a <= Len(pt) /\ ~(a > Len(pt))
    BY <1>0
  <2> QED BY <1>3, <2>1, <2>2, Zenon DEF Says
<1>4. ASSUME NEW a \in 1..Len(pt), pt[a] # "%" PROVE ~M[a][Len(vl) + 1]
  <2>1. M[a][Len(vl) + 1] <=> Says(pt, vl, M, a, Len(vl) + 1)
    BY <1>0, <1>1
  <2>2. ~(a > Len(pt)) /\ ~(Len(vl) + 1 <= Len(vl))
    BY <1>0
  <2> QED BY <1>4, <2>1, <2>2, Zenon DEF Says
<1>5. ASSUME NEW a \in 1..Len(pt), NEW b \in 1..Len(vl), pt[a] # "%"
      PROVE  M[a][b] <=> Takes(pt, vl, a, b) /\ M[a + Width(pt, a)][b + 1]
  <2>1. M[a][b] <=> Says(pt, vl, M, a, b)
    BY <1>0, <1>1
  <2>2. ~(a > Len(pt)) /\ a <= Len(pt) /\ b <= Len(vl)
    BY <1>0
  <2>3. CASE EscapesIn(pt, a)
    BY <1>5, <2>1, <2>2, <2>3, Zenon DEF Says, Takes, Width
  <2>4. CASE ~EscapesIn(pt, a)
    BY <1>5, <2>1, <2>2, <2>4, Zenon DEF Says, Takes, Width
  <2> QED BY <2>3, <2>4
<1> QED BY <1>2, <1>3, <1>4, <1>5, Zenon DEF Rules, M

\* Where the pattern goes on after a character.
LEMMA WidthIs ==
  ASSUME NEW C, NEW pt \in Seq(C), NEW a \in 1..Len(pt)
  PROVE  Width(pt, a) \in 1..2 /\ a + Width(pt, a) \in 1..Len(pt) + 1
  BY DEF Width, EscapesIn

\* At the end of the value only '%' may be left.
LEMMA AtEnd ==
  ASSUME NEW C, NEW pt \in Seq(C), NEW D, NEW vl \in Seq(D), NEW M, Rules(M, pt, vl),
         NEW a \in 1..Len(pt) + 1
  PROVE  M[a][Len(vl) + 1] <=> \A j \in a..Len(pt) : pt[j] = "%"
<1> DEFINE P == Len(pt)
           V == Len(vl) + 1
           S == {k \in Nat : k <= P =>
                    (M[P + 1 - k][V] <=> \A j \in P + 1 - k..P : pt[j] = "%")}
<1>0. P \in Nat /\ Len(vl) \in Nat /\ V \in 1..Len(vl) + 1 /\ V..Len(vl) + 1 = {V}
  OBVIOUS
<1>1. 0 \in S
  <2>1. M[P + 1][V]
    BY <1>0 DEF Rules
  <2>2. P + 1 - 0 = P + 1 /\ P + 1 - 0..P = {}
    BY <1>0
  <2> HIDE DEF P, V
  <2> QED BY <2>1, <2>2
<1>2. ASSUME NEW k \in Nat, k \in S PROVE k + 1 \in S
  <2> DEFINE b == P + 1 - (k + 1)
  <2> SUFFICES ASSUME k + 1 <= P PROVE M[b][V] <=> \A j \in b..P : pt[j] = "%"
    OBVIOUS
  <2>1. b \in 1..P /\ b + 1 = P + 1 - k /\ k <= P /\ b..P = {b} \cup (b + 1..P)
    BY <1>0
  <2>2. M[b + 1][V] <=> \A j \in b + 1..P : pt[j] = "%"
    <3>1. M[P + 1 - k][V] <=> \A j \in P + 1 - k..P : pt[j] = "%"
      BY <1>2, <2>1
    <3> HIDE DEF P, V, b
    <3> QED BY <2>1, <3>1
  <2>3. CASE pt[b] = "%"
    <3>1. M[b][V] <=> \E c \in V..Len(vl) + 1 : M[b + 1][c]
      <4> HIDE DEF b, V
      <4> QED BY <1>0, <2>1, <2>3, Zenon DEF Rules, P
    <3> HIDE DEF P, V, b
    <3> QED BY <1>0, <2>1, <2>2, <2>3, <3>1, Zenon
  <2>4. CASE pt[b] # "%"
    <3>1. ~M[b][V]
      <4> HIDE DEF b
      <4> QED BY <2>1, <2>4, Zenon DEF Rules, P, V
    <3> HIDE DEF P, V, b
    <3> QED BY <2>1, <2>4, <3>1, Zenon
  <2> QED BY <2>3, <2>4
<1>3. Nat \subseteq S
  <2> HIDE DEF S
  <2> QED BY <1>1, <1>2, SetInduction
<1>4. P + 1 - a \in Nat /\ P + 1 - a <= P /\ P + 1 - (P + 1 - a) = a
  BY <1>0
<1>5. P + 1 - a \in S
  <2> HIDE DEF S
  <2> QED BY <1>3, <1>4
<1> QED BY <1>4, <1>5

\* How far the loop has come: what the pattern means is what is left of it,
\* from the last '%' on.  What is left from that '%' matches at c only if it
\* matches, after as much of it as the loop has been through, as far on.
Progress(M, V, a, b, s, t) ==
    /\ s = 0 => (M[1][1] <=> M[a][b])
    /\ s # 0 =>
        /\ M[1][1] <=> \E c \in t..V : M[s + 1][c]
        /\ \A c \in t..V : M[s + 1][c] => c + (b - t) <= V /\ M[a][c + (b - t)]
        /\ M[a][b] => M[s + 1][t]

LEMMA ProgressStar ==
  ASSUME NEW C, NEW pt \in Seq(C), NEW D, NEW vl \in Seq(D), NEW M, Rules(M, pt, vl),
         NEW a \in 1..Len(pt), NEW b \in 1..Len(vl), NEW s \in 0..Len(pt), NEW t \in 1..b,
         Progress(M, Len(vl) + 1, a, b, s, t), pt[a] = "%"
  PROVE  Progress(M, Len(vl) + 1, a + 1, b, a, b)
<1> DEFINE V == Len(vl) + 1
<1>0. Len(pt) \in Nat /\ Len(vl) \in Nat /\ a # 0 /\ b \in 1..V
  OBVIOUS
<1>1. \A c \in 1..V : M[a][c] <=> \E d \in c..V : M[a + 1][d]
  BY Zenon DEF Rules
<1>2. M[1][1] <=> M[a][b]
  <2>1. CASE s = 0
    BY <2>1, Zenon DEF Progress
  <2>2. CASE s # 0
    <3>1. /\ M[1][1] <=> \E c \in t..V : M[s + 1][c]
          /\ \A c \in t..V : M[s + 1][c] => c + (b - t) <= V /\ M[a][c + (b - t)]
          /\ M[a][b] => M[s + 1][t]
      BY <2>2, Zenon DEF Progress
    <3>2. M[a][b] => M[1][1]
      <4>1. t \in t..V
        BY <1>0
      <4> QED BY <3>1, <4>1, Zenon
    <3>3. M[1][1] => M[a][b]
      <4> SUFFICES ASSUME M[1][1] PROVE M[a][b]
        OBVIOUS
      <4>1. PICK c \in t..V : M[s + 1][c]
        BY <3>1
      <4> DEFINE e == c + (b - t)
      <4>2. e <= V /\ M[a][e]
        BY <3>1, <4>1
      <4>3. e \in 1..V /\ e..V \subseteq b..V
        BY <1>0, <4>2
      <4> HIDE DEF e, V
      <4> QED BY <1>0, <1>1, <4>2, <4>3, Zenon
    <3> QED BY <3>2, <3>3
  <2> QED BY <2>1, <2>2
<1>3. M[1][1] <=> \E c \in b..V : M[a + 1][c]
  BY <1>0, <1>1, <1>2, Zenon
<1>4. \A c \in b..V : M[a + 1][c] => c + (b - b) <= V /\ M[a + 1][c + (b - b)]
  <2>1. \A c \in b..V : c + (b - b) = c /\ c <= V
    BY <1>0
  <2> HIDE DEF V
  <2> QED BY <2>1, Zenon
<1> QED BY <1>0, <1>3, <1>4, Zenon DEF Progress

LEMMA ProgressAdvance ==
  ASSUME NEW C, NEW pt \in Seq(C), NEW D, NEW vl \in Seq(D), NEW M, Rules(M, pt, vl),
         NEW a \in 1..Len(pt), NEW b \in 1..Len(vl), NEW s \in 0..Len(pt), NEW t \in 1..b,
         Progress(M, Len(vl) + 1, a, b, s, t), pt[a] # "%", Takes(pt, vl, a, b)
  PROVE  Progress(M, Len(vl) + 1, a + Width(pt, a), b + 1, s, t)
<1> DEFINE V == Len(vl) + 1
           w == Width(pt, a)
<1>0. Len(pt) \in Nat /\ Len(vl) \in Nat /\ w \in 1..2
  BY WidthIs
<1>1. M[a][b] <=> M[a + w][b + 1]
  BY Zenon DEF Rules
<1>2. CASE s = 0
  <2>1. M[1][1] <=> M[a][b]
    BY <1>2, Zenon DEF Progress
  <2> HIDE DEF w
  <2> QED BY <1>1, <1>2, <2>1, Zenon DEF Progress, w
<1>3. CASE s # 0
  <2>1. /\ M[1][1] <=> \E c \in t..V : M[s + 1][c]
        /\ \A c \in t..V : M[s + 1][c] => c + (b - t) <= V /\ M[a][c + (b - t)]
        /\ M[a][b] => M[s + 1][t]
    BY <1>3, Zenon DEF Progress
  <2>2. ASSUME NEW c \in t..V, M[s + 1][c]
        PROVE  c + (b + 1 - t) <= V /\ M[a + w][c + (b + 1 - t)]
    <3> DEFINE e == c + (b - t)
    <3>1. e <= V /\ M[a][e]
      BY <2>1, <2>2
    <3>2. e # V
      <4>1. ~M[a][V]
        BY Zenon DEF Rules
      <4> HIDE DEF e, V
      <4> QED BY <3>1, <4>1
    <3>3. e \in 1..Len(vl) /\ e + 1 = c + (b + 1 - t) /\ e + 1 <= V
      BY <1>0, <3>1, <3>2, SMTT(30)
    <3>4. M[a + w][e + 1]
      <4> HIDE DEF e
      <4> QED BY <3>1, <3>3, Zenon DEF Rules
    <3> HIDE DEF e, w, V
    <3> QED BY <3>3, <3>4
  <2>3. M[a + w][b + 1] => M[s + 1][t]
    BY <1>1, <2>1, Zenon
  <2>4. M[1][1] <=> \E c \in t..V : M[s + 1][c]
    BY <2>1, Zenon
  <2>5. \A c \in t..V : M[s + 1][c] => c + (b + 1 - t) <= V /\ M[a + w][c + (b + 1 - t)]
    <3> HIDE DEF V, w
    <3> QED BY <2>2
  <2> DEFINE d == b + 1
             x == a + w
  <2>6. \A c \in t..V : M[s + 1][c] => c + (d - t) <= V /\ M[x][c + (d - t)]
    BY <2>5
  <2>7. M[x][d] => M[s + 1][t]
    BY <2>3, Zenon
  <2> HIDE DEF d, x
  <2>8. Progress(M, V, x, d, s, t)
    BY <1>3, <2>4, <2>6, <2>7, Zenon DEF Progress
  <2> QED BY <2>8 DEF d, x
<1> QED BY <1>2, <1>3

LEMMA ProgressBacktrack ==
  ASSUME NEW pt, NEW D, NEW vl \in Seq(D), NEW M,
         NEW a, NEW b \in 1..Len(vl), NEW s, NEW t \in 1..b,
         Progress(M, Len(vl) + 1, a, b, s, t), s # 0, ~M[a][b]
  PROVE  Progress(M, Len(vl) + 1, s + 1, t + 1, s, t + 1)
<1> DEFINE V == Len(vl) + 1
           u == t + 1
<1>0. Len(vl) \in Nat
  OBVIOUS
<1>1. /\ M[1][1] <=> \E c \in t..V : M[s + 1][c]
      /\ \A c \in t..V : M[s + 1][c] => c + (b - t) <= V /\ M[a][c + (b - t)]
  BY Zenon DEF Progress
<1>2. t \in t..V /\ t + (b - t) = b /\ t..V = {t} \cup (u..V)
  BY <1>0
<1>3. ~M[s + 1][t]
  BY <1>1, <1>2
<1>4. M[1][1] <=> \E c \in u..V : M[s + 1][c]
  <2> HIDE DEF u, V
  <2> QED BY <1>1, <1>2, <1>3, Zenon
<1>5. \A c \in u..V : M[s + 1][c] => c + (u - u) <= V /\ M[s + 1][c + (u - u)]
  <2>1. \A c \in u..V : c + (u - u) = c /\ c <= V
    BY <1>0
  <2> HIDE DEF V, u
  <2> QED BY <2>1, Zenon
<1> QED BY <1>4, <1>5, Zenon DEF Progress

LEMMA ProgressFinish ==
  ASSUME NEW pt, NEW D, NEW vl \in Seq(D), NEW M,
         NEW a, NEW s, NEW t \in 1..Len(vl) + 1,
         Progress(M, Len(vl) + 1, a, Len(vl) + 1, s, t)
  PROVE  M[1][1] <=> M[a][Len(vl) + 1]
<1> DEFINE V == Len(vl) + 1
<1>0. Len(vl) \in Nat
  OBVIOUS
<1>1. CASE s = 0
  BY <1>1, Zenon DEF Progress
<1>2. CASE s # 0
  <2>1. /\ M[1][1] <=> \E c \in t..V : M[s + 1][c]
        /\ \A c \in t..V : M[s + 1][c] => c + (V - t) <= V /\ M[a][c + (V - t)]
        /\ M[a][V] => M[s + 1][t]
    BY <1>2, Zenon DEF Progress
  <2>2. t \in t..V /\ \A c \in t..V : c + (V - t) <= V => c + (V - t) = V
    BY <1>0
  <2> HIDE DEF V
  <2>3. M[a][V] => M[1][1]
    BY <2>1, <2>2, Zenon
  <2>4. M[1][1] => M[a][V]
    <3> SUFFICES ASSUME M[1][1] PROVE M[a][V]
      OBVIOUS
    <3>1. PICK c \in t..V : M[s + 1][c]
      BY <2>1
    <3>2. c + (V - t) = V /\ M[a][c + (V - t)]
      BY <2>1, <2>2, <3>1, Zenon
    <3> QED BY <3>2
  <2> QED BY <2>3, <2>4 DEF V
<1> QED BY <1>1, <1>2

\* The invariant of the loop, and after it the answer.
LikeInv ==
    /\ pattern \in Seq(PatternChars) /\ value \in Seq(ValueChars)
    /\ p \in 1..Len(pattern) + 1 /\ v \in 1..Len(value) + 1
    /\ starP \in 0..Len(pattern) /\ starV \in 1..v
    /\ verdict = "none" =>
          Progress(Meaning(pattern, value), Len(value) + 1, p, v, starP, starV)
    /\ verdict # "none" =>
          (verdict = "yes" <=> pattern = <<>> \/ Meaning(pattern, value)[1][1])

LEMMA LikeInitOk == Init => LikeInv
<1>1. PatternAtRest => LikeInv
  <2> SUFFICES ASSUME PatternAtRest PROVE LikeInv
    OBVIOUS
  <2>1. pattern \in Seq(PatternChars) /\ value \in Seq(ValueChars) /\ Len(pattern) = 0 /\ Len(value) = 0
    BY EmptySeq DEF PatternAtRest
  <2>2. /\ p \in 1..Len(pattern) + 1 /\ v \in 1..Len(value) + 1
        /\ starP \in 0..Len(pattern) /\ starV \in 1..v
    BY <2>1 DEF PatternAtRest
  <2>3. verdict = "yes" /\ pattern = <<>> /\ verdict # "none"
    BY DEF PatternAtRest
  <2> QED BY <2>1, <2>2, <2>3, Zenon DEF LikeInv
<1>2. Pattern!Init => LikeInv
  <2> SUFFICES ASSUME Pattern!Init PROVE LikeInv
    OBVIOUS
  <2>1. pattern \in Seq(PatternChars) /\ value \in Seq(ValueChars)
    <3>1. \A S, k : \A x \in Pattern!Strings(S, k) : x \in Seq(S)
      <4> SUFFICES ASSUME NEW S, NEW k, NEW x, \E j \in 0..k : x \in [1..j -> S] PROVE x \in Seq(S)
        BY DEF Pattern!Strings
      <4>1. PICK j \in 0..k : x \in [1..j -> S]
        OBVIOUS
      <4>2. j \in Nat
        OBVIOUS
      <4> QED BY <4>1, <4>2, SeqDef, Zenon
    <3> QED BY <3>1, Zenon DEF Pattern!Init
  <2>2. p = 1 /\ v = 1 /\ starP = 0 /\ starV = 1 /\ verdict = "none"
    BY DEF Pattern!Init
  <2>3. /\ p \in 1..Len(pattern) + 1 /\ v \in 1..Len(value) + 1
        /\ starP \in 0..Len(pattern) /\ starV \in 1..v
    BY <2>1, <2>2
  <2>4. Progress(Meaning(pattern, value), Len(value) + 1, p, v, starP, starV)
    BY <2>2, Zenon DEF Progress
  <2> QED BY <2>1, <2>2, <2>3, <2>4, Zenon DEF LikeInv
<1> QED BY <1>1, <1>2, Zenon DEF Init

LEMMA LikeStepOk == LikeInv /\ [Next]_vars => LikeInv'
<1> SUFFICES ASSUME LikeInv, [Next]_vars PROVE LikeInv'
  OBVIOUS
<1> DEFINE M == Meaning(pattern, value)
<1>1. CASE UNCHANGED likeVars
  BY <1>1, Zenon DEF LikeInv, likeVars
<1>2. CASE Pattern!Next
  <2>1. /\ pattern \in Seq(PatternChars) /\ value \in Seq(ValueChars)
        /\ p \in 1..Len(pattern) + 1 /\ v \in 1..Len(value) + 1
        /\ starP \in 0..Len(pattern) /\ starV \in 1..v
    BY Zenon DEF LikeInv
  <2>2. verdict = "none" /\ UNCHANGED <<pattern, value>>
    BY <1>2 DEF Pattern!Next, Pattern!Star, Pattern!Advance, Pattern!Backtrack, Pattern!Mismatch,
                Pattern!Finish, Pattern!Looping, Pattern!input
  <2>3. Progress(M, Len(value) + 1, p, v, starP, starV)
    BY <2>2, Zenon DEF LikeInv
  <2>4. Rules(M, pattern, value)
    BY <2>1, MeaningRules
  <2> HIDE DEF M
  <2>6. Len(pattern) \in Nat /\ Len(value) \in Nat
    BY <2>1
  <2>5. ASSUME verdict' = "none", p' \in 1..Len(pattern) + 1, v' \in 1..Len(value) + 1,
               starP' \in 0..Len(pattern), starV' \in 1..v',
               Progress(M, Len(value) + 1, p', v', starP', starV')
        PROVE  LikeInv'
    BY <2>1, <2>2, <2>5, Zenon DEF LikeInv, M
  <2>used. ASSUME p \in 1..Len(pattern), v \in 1..Len(value)
           PROVE  /\ Pattern!Used > 0 => Takes(pattern, value, p, v) /\ Pattern!Used = Width(pattern, p)
                  /\ Pattern!Used = 0 => ~Takes(pattern, value, p, v)
    <3>1. p <= Len(pattern) /\ ~(p > Len(pattern))
      BY <2>used
    <3>2. CASE EscapesIn(pattern, p)
      <4>1. Pattern!Used = IF pattern[p + 1] = value[v] THEN 2 ELSE 0
        BY <3>1, <3>2, Zenon DEF Pattern!Used, Pattern!Escapes, EscapesIn
      <4>2. Width(pattern, p) = 2
        BY <3>2, Zenon DEF Width
      <4>3. Takes(pattern, value, p, v) <=> pattern[p + 1] = value[v]
        BY <3>2, Zenon DEF Takes
      <4> QED BY <4>1, <4>2, <4>3
    <3>3. CASE ~EscapesIn(pattern, p)
      <4>1. Pattern!Used = IF pattern[p] \in {"_", value[v]} THEN 1 ELSE 0
        BY <3>1, <3>3, Zenon DEF Pattern!Used, Pattern!Escapes, EscapesIn
      <4>2. Width(pattern, p) = 1
        BY <3>3, Zenon DEF Width
      <4>3. Takes(pattern, value, p, v) <=> pattern[p] \in {"_", value[v]}
        BY <3>3, Zenon DEF Takes
      <4>4. CASE pattern[p] \in {"_", value[v]}
        <5>1. Pattern!Used = 1 /\ Takes(pattern, value, p, v)
          BY <4>1, <4>3, <4>4, Zenon
        <5> QED BY <4>2, <5>1
      <4>5. CASE pattern[p] \notin {"_", value[v]}
        <5>1. Pattern!Used = 0 /\ ~Takes(pattern, value, p, v)
          BY <4>1, <4>3, <4>5, Zenon
        <5> QED BY <5>1
      <4> QED BY <4>4, <4>5
    <3> QED BY <3>2, <3>3
  <2>star. CASE Pattern!Star
    <3>1. /\ p <= Len(pattern) /\ pattern[p] = "%" /\ v <= Len(value)
          /\ starP' = p /\ starV' = v /\ p' = p + 1 /\ v' = v /\ verdict' = verdict
      BY <2>star DEF Pattern!Star, Pattern!Looping, Pattern!OnStar
    <3>2. p \in 1..Len(pattern) /\ v \in 1..Len(value)
      BY <2>1, <3>1
    <3>3. Progress(M, Len(value) + 1, p + 1, v, p, v)
      BY <2>1, <2>3, <2>4, <3>1, <3>2, ProgressStar
    <3>4. /\ p' \in 1..Len(pattern) + 1 /\ v' \in 1..Len(value) + 1
          /\ starP' \in 0..Len(pattern) /\ starV' \in 1..v'
      BY <2>1, <3>1, <3>2
    <3>5. Progress(M, Len(value) + 1, p', v', starP', starV')
      BY <3>1, <3>3, Zenon
    <3>6. verdict' = "none"
      BY <2>2, <3>1
    <3> QED BY <2>5, <3>4, <3>5, <3>6, Zenon
  <2>advance. CASE Pattern!Advance
    <3>1. /\ v <= Len(value) /\ ~(p <= Len(pattern) /\ pattern[p] = "%") /\ Pattern!Used > 0
          /\ p' = p + Pattern!Used /\ v' = v + 1
          /\ starP' = starP /\ starV' = starV /\ verdict' = verdict
      BY <2>advance DEF Pattern!Advance, Pattern!Looping, Pattern!OnStar
    <3>2. p <= Len(pattern)
      <4> SUFFICES ASSUME ~(p <= Len(pattern)) PROVE FALSE
        OBVIOUS
      <4>1. p > Len(pattern)
        BY <2>1
      <4>2. Pattern!Used = 0
        BY <4>1, Zenon DEF Pattern!Used
      <4> QED BY <3>1, <4>2
    <3>3. p \in 1..Len(pattern) /\ v \in 1..Len(value) /\ pattern[p] # "%"
      BY <2>1, <3>1, <3>2
    <3>4. Takes(pattern, value, p, v) /\ Pattern!Used = Width(pattern, p)
      BY <2>used, <3>1, <3>3, Zenon
    <3>5. Progress(M, Len(value) + 1, p + Width(pattern, p), v + 1, starP, starV)
      BY <2>1, <2>3, <2>4, <3>3, <3>4, ProgressAdvance
    <3>6. /\ p' \in 1..Len(pattern) + 1 /\ v' \in 1..Len(value) + 1
          /\ starP' \in 0..Len(pattern) /\ starV' \in 1..v'
      BY <2>1, <3>1, <3>3, <3>4, WidthIs
    <3>7. Progress(M, Len(value) + 1, p', v', starP', starV')
      BY <3>1, <3>4, <3>5, Zenon
    <3>8. verdict' = "none"
      BY <2>2, <3>1
    <3> QED BY <2>5, <3>6, <3>7, <3>8, Zenon
  <2>stuck. Pattern!Looping /\ ~Pattern!OnStar /\ Pattern!Used = 0 => v \in 1..Len(value) /\ ~M[p][v]
    <3> SUFFICES ASSUME v <= Len(value), ~(p <= Len(pattern) /\ pattern[p] = "%"), Pattern!Used = 0
                 PROVE  v \in 1..Len(value) /\ ~M[p][v]
      BY DEF Pattern!Looping, Pattern!OnStar
    <3>1. v \in 1..Len(value) /\ v # Len(value) + 1
      BY <2>1
    <3>2. CASE p = Len(pattern) + 1
      <4>1. M[Len(pattern) + 1][v] <=> v = Len(value) + 1
        BY <2>1, <2>4, Zenon DEF Rules
      <4> QED BY <3>1, <3>2, <4>1
    <3>3. CASE p # Len(pattern) + 1
      <4>1. p \in 1..Len(pattern) /\ p <= Len(pattern) /\ ~(p > Len(pattern)) /\ pattern[p] # "%"
        BY <2>1, <3>3
      <4>2. ~Takes(pattern, value, p, v)
        BY <2>used, <3>1, <4>1, Zenon
      <4> QED BY <2>4, <3>1, <4>1, <4>2, Zenon DEF Rules
    <3> QED BY <3>2, <3>3
  <2>backtrack. CASE Pattern!Backtrack
    <3>1. /\ starP # 0 /\ p' = starP + 1 /\ v' = starV + 1 /\ starV' = starV + 1
          /\ starP' = starP /\ verdict' = verdict
      BY <2>backtrack DEF Pattern!Backtrack, Pattern!Retry
    <3>2. v \in 1..Len(value) /\ ~M[p][v]
      BY <2>stuck, <2>backtrack DEF Pattern!Backtrack
    <3>3. Progress(M, Len(value) + 1, starP + 1, starV + 1, starP, starV + 1)
      BY <2>1, <2>3, <3>1, <3>2, ProgressBacktrack
    <3>4. /\ p' \in 1..Len(pattern) + 1 /\ v' \in 1..Len(value) + 1
          /\ starP' \in 0..Len(pattern) /\ starV' \in 1..v'
      BY <2>1, <3>1, <3>2
    <3>5. Progress(M, Len(value) + 1, p', v', starP', starV')
      BY <3>1, <3>3, Zenon
    <3>6. verdict' = "none"
      BY <2>2, <3>1
    <3> QED BY <2>5, <3>4, <3>5, <3>6, Zenon
  <2>7. ASSUME verdict' # "none", UNCHANGED <<p, v, starP, starV>>,
               verdict' = "yes" <=> pattern = <<>> \/ M[1][1]
        PROVE  LikeInv'
    BY <2>1, <2>2, <2>7, Zenon DEF LikeInv, M
  <2>mismatch. CASE Pattern!Mismatch
    <3>1. starP = 0 /\ verdict' = "no" /\ UNCHANGED <<p, v, starP, starV>> /\ pattern # <<>>
      BY <2>mismatch DEF Pattern!Mismatch, Pattern!Looping
    <3>2. ~M[p][v]
      BY <2>stuck, <2>mismatch DEF Pattern!Mismatch
    <3>3. ~M[1][1]
      BY <2>3, <3>1, <3>2, Zenon DEF Progress
    <3>4. verdict' # "none" /\ verdict' # "yes"
      BY <3>1
    <3> QED BY <2>7, <3>1, <3>3, <3>4, Zenon
  <2>finish. CASE Pattern!Finish
    <3>1. /\ UNCHANGED <<p, v, starP, starV>> /\ (pattern = <<>> \/ v > Len(value))
          /\ verdict' = IF pattern = <<>> \/ \A j \in p..Len(pattern) : pattern[j] = "%"
                        THEN "yes" ELSE "no"
      BY <2>1, <2>finish DEF Pattern!Finish, Pattern!Looping
    <3>2. verdict' # "none"
          /\ (verdict' = "yes" <=> pattern = <<>> \/ \A j \in p..Len(pattern) : pattern[j] = "%")
      BY <3>1
    <3>3. pattern # <<>> => (M[1][1] <=> \A j \in p..Len(pattern) : pattern[j] = "%")
      <4> SUFFICES ASSUME pattern # <<>>
                   PROVE  M[1][1] <=> \A j \in p..Len(pattern) : pattern[j] = "%"
        OBVIOUS
      <4>1. v = Len(value) + 1
        BY <2>1, <3>1
      <4>2. M[1][1] <=> M[p][Len(value) + 1]
        <5>1. starV \in 1..Len(value) + 1
          BY <2>1, <4>1
        <5>2. Progress(M, Len(value) + 1, p, Len(value) + 1, starP, starV)
          BY <2>3, <4>1, Zenon
        <5> QED BY <2>1, <5>1, <5>2, ProgressFinish
      <4>3. M[p][Len(value) + 1] <=> \A j \in p..Len(pattern) : pattern[j] = "%"
        BY <2>1, <2>4, AtEnd
      <4> QED BY <4>2, <4>3
    <3> QED BY <2>7, <3>1, <3>2, <3>3, Zenon
  <2> QED BY <1>2, <2>star, <2>advance, <2>backtrack, <2>mismatch, <2>finish DEF Pattern!Next
<1>3. UNCHANGED likeVars \/ Pattern!Next
  BY Zenon DEF Next, vars
<1> QED BY <1>1, <1>2, <1>3

\* likeMatch answers what a pattern means, for every pattern and every name:
\* going back to the last '%' only loses no match and invents none.
THEOREM LikeAnswers == Spec => []AnswersMeaning
<1>1. Init => LikeInv
  BY LikeInitOk
<1>2. LikeInv /\ [Next]_vars => LikeInv'
  BY LikeStepOk
<1>3. LikeInv => AnswersMeaning
  BY MatchesIs, Zenon DEF LikeInv, AnswersMeaning, Pattern!AnswersMeaning
<1> QED BY <1>1, <1>2, <1>3, PTL DEF Spec

-----------------------------------------------------------------------------
(* SqlText *)

States == {"code", "dash", "slash", "quote", "string", "identifier", "line", "block", "star"}

\* The lexer, state by state.
LEMMA LexRules ==
  ASSUME NEW c
  PROVE  /\ Sql!LexStep("string", c) = IF c = "'" THEN "quote" ELSE "string"
         /\ Sql!LexStep("identifier", c) = IF c = "\"" THEN "code" ELSE "identifier"
         /\ Sql!LexStep("line", c) = IF c = "\n" THEN "code" ELSE "line"
         /\ Sql!LexStep("block", c) = IF c = "*" THEN "star" ELSE "block"
         /\ Sql!LexStep("star", c) =
               IF c = "/" THEN "code" ELSE IF c = "*" THEN "star" ELSE "block"
<1>1. "string" # "identifier" /\ "string" # "line" /\ "string" # "block" /\ "string" # "star"
  OBVIOUS
<1>2. Sql!LexStep("string", c) = IF c = "'" THEN "quote" ELSE "string"
  BY Zenon DEF Sql!LexStep
<1>3. Sql!LexStep("identifier", c) = IF c = "\"" THEN "code" ELSE "identifier"
  BY Zenon DEF Sql!LexStep
<1>4. Sql!LexStep("line", c) = IF c = "\n" THEN "code" ELSE "line"
  BY Zenon DEF Sql!LexStep
<1>5. Sql!LexStep("block", c) = IF c = "*" THEN "star" ELSE "block"
  BY Zenon DEF Sql!LexStep
<1>6. Sql!LexStep("star", c) = IF c = "/" THEN "code" ELSE IF c = "*" THEN "star" ELSE "block"
  BY DEF Sql!LexStep
<1> QED BY <1>2, <1>3, <1>4, <1>5, <1>6

LEMMA LexOpen ==
  /\ \A s, c : Sql!Open(s) /\ c = "'" => Sql!LexStep(s, c) = "string"
  /\ \A s, c : Sql!Open(s) /\ c = "\"" => Sql!LexStep(s, c) = "identifier"
  /\ \A s, c : Sql!Open(s) /\ c = "-" /\ s = "dash" => Sql!LexStep(s, c) = "line"
  /\ \A s, c : Sql!Open(s) /\ c = "-" /\ s # "dash" => Sql!LexStep(s, c) = "dash"
  /\ \A s, c : Sql!Open(s) /\ c = "/" => Sql!LexStep(s, c) = "slash"
  /\ \A s, c : Sql!Open(s) /\ c = "*" /\ s = "slash" => Sql!LexStep(s, c) = "block"
  /\ \A s, c : Sql!Open(s) /\ c \notin {"'", "\"", "-", "/"} /\ ~(c = "*" /\ s = "slash")
               => Sql!LexStep(s, c) = "code"
<1> SUFFICES ASSUME NEW s, NEW c, Sql!Open(s)
    PROVE  /\ c = "'" => Sql!LexStep(s, c) = "string"
           /\ c = "\"" => Sql!LexStep(s, c) = "identifier"
           /\ c = "-" /\ s = "dash" => Sql!LexStep(s, c) = "line"
           /\ c = "-" /\ s # "dash" => Sql!LexStep(s, c) = "dash"
           /\ c = "/" => Sql!LexStep(s, c) = "slash"
           /\ c = "*" /\ s = "slash" => Sql!LexStep(s, c) = "block"
           /\ c \notin {"'", "\"", "-", "/"} /\ ~(c = "*" /\ s = "slash")
                 => Sql!LexStep(s, c) = "code"
  BY Zenon
<1>1. s \in {"code", "dash", "slash", "quote"}
  BY DEF Sql!Open
<1>2. s \notin {"string", "identifier", "line", "block", "star"}
  BY <1>1
<1>3. Sql!LexStep(s, c) =
         CASE c = "'" -> "string"
           [] c = "\"" -> "identifier"
           [] c = "-" -> IF s = "dash" THEN "line" ELSE "dash"
           [] c = "/" -> "slash"
           [] c = "*" /\ s = "slash" -> "block"
           [] OTHER -> "code"
  BY <1>2 DEF Sql!LexStep
<1> HIDE <1>2
<1>4. CASE c = "'"
  BY <1>3, <1>4
<1>5. CASE c = "\""
  BY <1>3, <1>5
<1>6. CASE c = "-"
  BY <1>3, <1>6
<1>7. CASE c = "/"
  BY <1>3, <1>7
<1>8. CASE c = "*" /\ s = "slash"
  BY <1>3, <1>8
<1>9. CASE c \notin {"'", "\"", "-", "/"} /\ ~(c = "*" /\ s = "slash")
  BY <1>3, <1>9
<1> QED BY <1>4, <1>5, <1>6, <1>7, <1>8, <1>9

\* Parts of it that are cited alone.
LEMMA LexBlock == Sql!LexStep("slash", "*") = "block"
<1>1. Sql!LexStep("slash", "*") =
         CASE "*" = "'" -> "string"
           [] "*" = "\"" -> "identifier"
           [] "*" = "-" -> IF "slash" = "dash" THEN "line" ELSE "dash"
           [] "*" = "/" -> "slash"
           [] "*" = "*" /\ "slash" = "slash" -> "block"
           [] OTHER -> "code"
  BY DEF Sql!LexStep
<1> QED BY <1>1

LEMMA LexOther ==
  \A s, c : Sql!Open(s) /\ c \notin {"'", "\"", "-", "/"} /\ ~(c = "*" /\ s = "slash")
            => Sql!LexStep(s, c) = "code"
  BY LexOpen, Zenon

LEMMA LexDash == \A s, c : Sql!Open(s) /\ c = "-" /\ s # "dash" => Sql!LexStep(s, c) = "dash"
  BY LexOpen, Zenon

LEMMA LexStates == \A s, c : Sql!LexStep(s, c) \in States
<1> TAKE s, c
<1>1. CASE s \in {"string", "identifier", "line", "block", "star"}
  <2>1. /\ \A x \in {"string", "identifier", "line", "block", "star"} : x \in States
        /\ {"quote", "code"} \subseteq States
    BY DEF States
  <2>2. CASE s = "string"
    BY <2>1, <2>2, LexRules
  <2>3. CASE s = "identifier"
    BY <2>1, <2>3, LexRules
  <2>4. CASE s = "line"
    BY <2>1, <2>4, LexRules
  <2>5. CASE s = "block"
    BY <2>1, <2>5, LexRules
  <2>6. CASE s = "star"
    BY <2>1, <2>6, LexRules
  <2> QED BY <1>1, <2>2, <2>3, <2>4, <2>5, <2>6
<1>2. CASE Sql!Open(s)
  <2>1. \/ Sql!LexStep(s, c) = "string" \/ Sql!LexStep(s, c) = "identifier"
        \/ Sql!LexStep(s, c) = "line" \/ Sql!LexStep(s, c) = "dash"
        \/ Sql!LexStep(s, c) = "slash" \/ Sql!LexStep(s, c) = "block"
        \/ Sql!LexStep(s, c) = "code"
    <3>1. CASE c = "'"
      BY <1>2, <3>1, LexOpen, Zenon
    <3>2. CASE c = "\""
      BY <1>2, <3>2, LexOpen, Zenon
    <3>3. CASE c = "-"
      <4>1. CASE s = "dash"
        BY <1>2, <3>3, <4>1, LexOpen, Zenon
      <4>2. CASE s # "dash"
        BY <1>2, <3>3, <4>2, LexDash, Zenon
      <4> QED BY <4>1, <4>2
    <3>4. CASE c = "/"
      BY <1>2, <3>4, LexOpen, Zenon
    <3>5. CASE c = "*" /\ s = "slash"
      BY <3>5, LexBlock
    <3>6. CASE c \notin {"'", "\"", "-", "/"} /\ ~(c = "*" /\ s = "slash")
      BY <1>2, <3>6, LexOther, Zenon
    <3> QED BY <3>1, <3>2, <3>3, <3>4, <3>5, <3>6
  <2> QED BY <2>1 DEF States
<1>3. CASE s \notin {"string", "identifier", "line", "block", "star"} /\ ~Sql!Open(s)
  <2>1. Sql!LexStep(s, c) =
         CASE c = "'" -> "string"
           [] c = "\"" -> "identifier"
           [] c = "-" -> IF s = "dash" THEN "line" ELSE "dash"
           [] c = "/" -> "slash"
           [] c = "*" /\ s = "slash" -> "block"
           [] OTHER -> "code"
    BY <1>3 DEF Sql!LexStep
  <2> QED BY <2>1 DEF States
<1> QED BY <1>1, <1>2, <1>3

\* The pairs that mean something.
LEMMA LexPairs ==
  /\ Sql!LexStep("slash", "*") = "block" /\ Sql!LexStep("dash", "-") = "line"
  /\ Sql!LexStep("quote", "'") = "string"
<1>1. Sql!Open("slash") /\ Sql!Open("dash") /\ Sql!Open("quote")
  BY DEF Sql!Open
<1>3. \A s, c : Sql!Open(s) /\ s = "dash" /\ c = "-" => Sql!LexStep(s, c) = "line"
  BY LexOpen, Zenon
<1>4. \A s, c : Sql!Open(s) /\ c = "'" => Sql!LexStep(s, c) = "string"
  BY LexOpen, Zenon
<1> QED BY <1>1, <1>3, <1>4, LexBlock

\* The lexer is at "code" before the first character, and steps from there.
LEMMA LexIs ==
  ASSUME NEW C, NEW t \in Seq(C)
  PROVE  /\ Sql!Lex(t) \in [0..Len(t) -> States] /\ Sql!Lex(t)[0] = "code"
         /\ \A k \in 1..Len(t) : Sql!Lex(t)[k] = Sql!LexStep(Sql!Lex(t)[k - 1], t[k])
<1> DEFINE n == Len(t)
           G == [x \in States \X (1..n) |-> Sql!LexStep(x[1], t[x[2]])]
           L == Sql!Lex(t)
<1>1. n \in Nat /\ "code" \in States
  BY DEF States
<1> HIDE DEF n
<1>2. \A k \in 1..n, x \in States : G[<<x, k>>] = Sql!LexStep(x, t[k])
  OBVIOUS
<1> HIDE DEF G, L
<1>3. Steps(n, States, G)
  <2> SUFFICES ASSUME NEW k \in 1..n, NEW x \in States PROVE G[<<x, k>>] \in States
    BY Zenon DEF Steps
  <2>1. G[<<x, k>>] = Sql!LexStep(x, t[k])
    BY <1>2
  <2>2. Sql!LexStep(x, t[k]) \in States
    BY LexStates, Zenon
  <2> QED BY <2>1, <2>2
<1>4. \E f \in [0..n -> States] : Chained(f, n, "code", G)
  BY <1>1, <1>3, Chain
<1>5. PICK f \in [0..n -> States] : f = [k \in 0..n |-> IF k = 0 THEN "code" ELSE G[<<f[k - 1], k>>]]
  BY <1>4 DEF Chained
<1>6. \A k \in 0..n : k # 0 => k \in 1..n /\ k - 1 \in 0..n
  BY <1>1
<1>7. f = [k \in 0..n |-> IF k = 0 THEN "code" ELSE Sql!LexStep(f[k - 1], t[k])]
  <2>1. \A k \in 0..n : (IF k = 0 THEN "code" ELSE G[<<f[k - 1], k>>])
                        = IF k = 0 THEN "code" ELSE Sql!LexStep(f[k - 1], t[k])
    BY <1>2, <1>6
  <2> QED BY <1>5, <2>1
<1>8. L = [k \in 0..n |-> IF k = 0 THEN "code" ELSE Sql!LexStep(L[k - 1], t[k])]
  BY <1>7, Zenon DEF L, Sql!Lex, n
<1>9. L[0] = "code" /\ \A k \in 1..n : L[k] = Sql!LexStep(L[k - 1], t[k])
  <2> DEFINE h == [k \in 0..n |-> IF k = 0 THEN "code" ELSE Sql!LexStep(L[k - 1], t[k])]
  <2>1. h[0] = "code" /\ \A k \in 1..n : h[k] = Sql!LexStep(L[k - 1], t[k])
    BY <1>1
  <2> HIDE DEF h
  <2> QED BY <1>8, <2>1 DEF h
<1>10. L \in [0..n -> States]
  <2>1. \A k \in 0..n : (IF k = 0 THEN "code" ELSE Sql!LexStep(L[k - 1], t[k])) \in States
    BY <1>1, LexStates
  <2> QED BY <1>8, <2>1
<1> QED BY <1>9, <1>10 DEF L, n

\* Where the scan is, in the terms of the lexer, with st the state before i.
AtRegion(t, j, where, st) ==
    /\ where \in {"code", "string", "identifier", "line", "block"}
    /\ where = "code" /\ j <= Len(t) =>
          \/ /\ Sql!Open(st) /\ (st = "dash" => t[j] # "-")
             /\ (st = "slash" => t[j] # "*") /\ (st = "quote" => t[j] # "'")
          \/ st = "line" /\ t[j] = "\n"
    /\ where = "string" => st = "string"
    /\ where = "identifier" => st = "identifier"
    /\ where = "line" =>
          \/ st = "line"
          \/ /\ j < Len(t) /\ t[j] = "-" /\ t[j + 1] = "-"
             /\ Sql!Open(st) /\ st # "dash"
          \/ j <= Len(t) /\ t[j] = "-" /\ st = "dash"
    /\ where = "block" /\ j <= Len(t) =>
          st = "block" \/ (st = "star" /\ t[j] # "/")

\* The markers before j.
MarkersTo(t, L, ps, j) ==
    /\ ps \in Seq(Nat)
    /\ {ps[k] : k \in DOMAIN ps} = {l \in 1..j - 1 : t[l] = "?" /\ Sql!Open(L[l - 1])}
    /\ \A k \in 2..Len(ps) : ps[k - 1] < ps[k]

ScanInv ==
    /\ sql \in Seq(SqlChars)
    /\ substitution = "scan" =>
        /\ i \in 1..Len(sql) + 1
        /\ AtRegion(sql, i, region, Sql!Lex(sql)[i - 1])
        /\ MarkersTo(sql, Sql!Lex(sql), positions, i)
    /\ substitution # "scan" =>
        MarkersTo(sql, Sql!Lex(sql), positions, Len(sql) + 1)

\* A step over characters that are no markers adds none; over one it adds it.
LEMMA NoMarker ==
  ASSUME NEW t, NEW L, NEW ps, NEW j \in Nat, MarkersTo(t, L, ps, j),
         t[j] # "?" \/ ~Sql!Open(L[j - 1])
  PROVE  MarkersTo(t, L, ps, j + 1)
<1>1. {l \in 1..(j + 1) - 1 : t[l] = "?" /\ Sql!Open(L[l - 1])}
        = {l \in 1..j - 1 : t[l] = "?" /\ Sql!Open(L[l - 1])}
  <2>1. \A l : l \in 1..(j + 1) - 1 => l \in 1..j - 1 \/ l = j
    BY SMT
  <2>2. 1..j - 1 \subseteq 1..(j + 1) - 1
    BY SMT
  <2> QED BY <2>1, <2>2, Zenon
<1> QED BY <1>1, Zenon DEF MarkersTo

LEMMA OneMarker ==
  ASSUME NEW t, NEW L, NEW ps, NEW j \in Nat \ {0}, MarkersTo(t, L, ps, j),
         t[j] = "?", Sql!Open(L[j - 1])
  PROVE  MarkersTo(t, L, Append(ps, j), j + 1)
<1> DEFINE qs == Append(ps, j)
<1>1. ps \in Seq(Nat)
  BY Zenon DEF MarkersTo
<1>2. qs \in Seq(Nat) /\ Len(qs) = Len(ps) + 1 /\ Len(ps) \in Nat /\ qs[Len(ps) + 1] = j
      /\ \A k \in 1..Len(ps) : qs[k] = ps[k]
  BY <1>1
<1>3. DOMAIN ps = 1..Len(ps) /\ DOMAIN qs = DOMAIN ps \cup {Len(ps) + 1}
  BY <1>1
<1> HIDE DEF qs
<1>4. {qs[k] : k \in DOMAIN qs} = {ps[k] : k \in DOMAIN ps} \cup {j}
  BY <1>2, <1>3
<1>5. {l \in 1..(j + 1) - 1 : t[l] = "?" /\ Sql!Open(L[l - 1])}
        = {l \in 1..j - 1 : t[l] = "?" /\ Sql!Open(L[l - 1])} \cup {j}
  <2>1. \A l : l \in 1..(j + 1) - 1 <=> l \in 1..j - 1 \/ l = j
    BY SMT
  <2> QED BY <2>1, Zenon
<1>6. {ps[k] : k \in DOMAIN ps} = {l \in 1..j - 1 : t[l] = "?" /\ Sql!Open(L[l - 1])}
  BY Zenon DEF MarkersTo
<1>7. \A k \in 1..Len(ps) : ps[k] < j
  <2> TAKE k \in 1..Len(ps)
  <2>1. ps[k] \in {l \in 1..j - 1 : t[l] = "?" /\ Sql!Open(L[l - 1])}
    BY <1>3, <1>6
  <2> QED BY <2>1
<1>8. \A k \in 2..Len(qs) : qs[k - 1] < qs[k]
  <2> SUFFICES ASSUME NEW k \in 2..Len(qs) PROVE qs[k - 1] < qs[k]
    OBVIOUS
  <2>1. \A l \in 2..Len(ps) : ps[l - 1] < ps[l]
    BY Zenon DEF MarkersTo
  <2>2. CASE k = Len(ps) + 1
    BY <1>2, <1>7, <2>2
  <2>3. CASE k # Len(ps) + 1
    <3>1. k \in 2..Len(ps) /\ k - 1 \in 1..Len(ps) /\ k \in 1..Len(ps)
      BY <1>2, <2>3
    <3>2. qs[k] = ps[k] /\ qs[k - 1] = ps[k - 1]
      BY <1>2, <3>1
    <3> QED BY <2>1, <3>1, <3>2
  <2> QED BY <2>2, <2>3
<1> QED BY <1>2, <1>4, <1>5, <1>6, <1>8, Zenon DEF MarkersTo, qs

LEMMA NoMarkers ==
  ASSUME NEW t, NEW L, NEW ps, NEW j \in Nat, MarkersTo(t, L, ps, j),
         t[j] # "?" \/ ~Sql!Open(L[j - 1]), t[j + 1] # "?" \/ ~Sql!Open(L[j])
  PROVE  MarkersTo(t, L, ps, j + 2)
<1>1. MarkersTo(t, L, ps, j + 1)
  BY NoMarker
<1>2. (j + 1) - 1 = j /\ j + 1 \in Nat /\ (j + 1) + 1 = j + 2
  BY SMT
<1>3. t[j + 1] # "?" \/ ~Sql!Open(L[(j + 1) - 1])
  BY <1>2
<1> QED BY <1>1, <1>2, <1>3, NoMarker

\* No state that is not open is one of the open ones.
LEMMA NotOpen == \A s \in {"string", "identifier", "line", "block", "star"} : ~Sql!Open(s)
  BY DEF Sql!Open

\* One turn of the loop, in each region: the lexer has gone along.
LEMMA ScanCode ==
  ASSUME NEW C, NEW t \in Seq(C), NEW L, NEW ps,
         \A k \in 1..Len(t) : L[k] = Sql!LexStep(L[k - 1], t[k]),
         NEW j \in 1..Len(t), AtRegion(t, j, "code", L[j - 1]), MarkersTo(t, L, ps, j)
  PROVE  /\ t[j] = "'" => AtRegion(t, j + 1, "string", L[j])
         /\ t[j] = "\"" => AtRegion(t, j + 1, "identifier", L[j])
         /\ j < Len(t) /\ t[j] = "-" /\ t[j + 1] = "-" => AtRegion(t, j, "line", L[j - 1])
         /\ j < Len(t) /\ t[j] = "/" /\ t[j + 1] = "*" => AtRegion(t, j + 2, "block", L[j + 1])
         /\ t[j] \notin {"'", "\""}
               /\ ~(j < Len(t) /\ t[j] = "-" /\ t[j + 1] = "-")
               /\ ~(j < Len(t) /\ t[j] = "/" /\ t[j + 1] = "*")
               => AtRegion(t, j + 1, "code", L[j])
         /\ t[j] # "?" => MarkersTo(t, L, ps, j + 1)
         /\ t[j] = "?" => MarkersTo(t, L, Append(ps, j), j + 1)
         /\ j < Len(t) /\ t[j] = "/" /\ t[j + 1] = "*" => MarkersTo(t, L, ps, j + 2)
<1> DEFINE s == L[j - 1]
<1>0. Len(t) \in Nat /\ j <= Len(t)
  OBVIOUS
<1>1. L[j] = Sql!LexStep(s, t[j])
  OBVIOUS
<1>2. \/ /\ Sql!Open(s) /\ (s = "dash" => t[j] # "-")
         /\ (s = "slash" => t[j] # "*") /\ (s = "quote" => t[j] # "'")
      \/ s = "line" /\ t[j] = "\n"
  BY <1>0, Zenon DEF AtRegion
<1>3. t[j] # "\n" => Sql!Open(s) /\ (s = "dash" => t[j] # "-")
  BY <1>2, Zenon
<1> HIDE DEF s
<1>4. t[j] = "'" => AtRegion(t, j + 1, "string", L[j])
  <2> SUFFICES ASSUME t[j] = "'" PROVE AtRegion(t, j + 1, "string", L[j])
    OBVIOUS
  <2>1. L[j] = "string"
    BY <1>1, <1>3, LexOpen, Zenon
  <2> QED BY <2>1 DEF AtRegion
<1>5. t[j] = "\"" => AtRegion(t, j + 1, "identifier", L[j])
  <2> SUFFICES ASSUME t[j] = "\"" PROVE AtRegion(t, j + 1, "identifier", L[j])
    OBVIOUS
  <2>1. L[j] = "identifier"
    BY <1>1, <1>3, LexOpen, Zenon
  <2> QED BY <2>1 DEF AtRegion
<1>6. j < Len(t) /\ t[j] = "-" /\ t[j + 1] = "-" => AtRegion(t, j, "line", L[j - 1])
  BY <1>3 DEF AtRegion, s
<1>7. j < Len(t) /\ t[j] = "/" /\ t[j + 1] = "*" => AtRegion(t, j + 2, "block", L[j + 1])
  <2> SUFFICES ASSUME j < Len(t), t[j] = "/", t[j + 1] = "*" PROVE AtRegion(t, j + 2, "block", L[j + 1])
    OBVIOUS
  <2>1. L[j] = "slash"
    BY <1>1, <1>3, LexOpen, Zenon
  <2>2. Sql!Open("slash")
    BY DEF Sql!Open
  <2>3. L[j + 1] = Sql!LexStep(L[j], t[j + 1])
    <3>1. j + 1 \in 1..Len(t) /\ (j + 1) - 1 = j
      BY <1>0
    <3> QED BY <3>1
  <2>4. L[j + 1] = "block"
    BY <2>1, <2>3, LexPairs
  <2> QED BY <2>4 DEF AtRegion
<1>8. t[j] \notin {"'", "\""}
        /\ ~(j < Len(t) /\ t[j] = "-" /\ t[j + 1] = "-")
        /\ ~(j < Len(t) /\ t[j] = "/" /\ t[j + 1] = "*")
        => AtRegion(t, j + 1, "code", L[j])
  <2> SUFFICES ASSUME t[j] \notin {"'", "\""}, ~(j < Len(t) /\ t[j] = "-" /\ t[j + 1] = "-"),
                      ~(j < Len(t) /\ t[j] = "/" /\ t[j + 1] = "*")
               PROVE  AtRegion(t, j + 1, "code", L[j])
    OBVIOUS
  <2>0. {"code", "dash", "slash"} \subseteq {"code", "dash", "slash", "quote"}
    OBVIOUS
  <2>1. CASE s = "line" /\ t[j] = "\n"
    <3>1. L[j] = "code"
      BY <1>1, <2>1, LexRules
    <3> QED BY <3>1 DEF AtRegion, Sql!Open
  <2>2. CASE Sql!Open(s) /\ t[j] = "-"
    <3>1. L[j] = "dash"
      BY <1>1, <1>3, <2>2, LexOpen, Zenon
    <3>2. j + 1 <= Len(t) => t[j + 1] # "-"
      BY <1>0, <2>2
    <3> QED BY <3>1, <3>2 DEF AtRegion, Sql!Open
  <2>3. CASE Sql!Open(s) /\ t[j] = "/"
    <3>1. L[j] = "slash"
      BY <1>1, <2>3, LexOpen, Zenon
    <3>2. j + 1 <= Len(t) => t[j + 1] # "*"
      BY <1>0, <2>3
    <3> QED BY <3>1, <3>2 DEF AtRegion, Sql!Open
  <2>4. CASE Sql!Open(s) /\ t[j] \notin {"-", "/"} /\ (s = "slash" => t[j] # "*")
    <3>1. t[j] \notin {"'", "\"", "-", "/"} /\ ~(t[j] = "*" /\ s = "slash")
      BY <2>4
    <3>2. \A c : c \notin {"'", "\"", "-", "/"} /\ ~(c = "*" /\ s = "slash")
                => Sql!LexStep(s, c) = "code"
      BY <2>4, LexOther, Zenon
    <3>3. L[j] = "code"
      BY <1>1, <3>1, <3>2
    <3> QED BY <3>3 DEF AtRegion, Sql!Open
  <2> QED BY <1>2, <2>1, <2>2, <2>3, <2>4
<1>9. t[j] = "?" => MarkersTo(t, L, Append(ps, j), j + 1)
  <2>1. t[j] = "?" => Sql!Open(s)
    BY <1>3
  <2> QED BY <2>1, OneMarker DEF s
<1>10. t[j] # "?" => MarkersTo(t, L, ps, j + 1)
  BY NoMarker DEF s
<1>11. j < Len(t) /\ t[j] = "/" /\ t[j + 1] = "*" => MarkersTo(t, L, ps, j + 2)
  BY NoMarkers
<1> QED BY <1>4, <1>5, <1>6, <1>7, <1>8, <1>9, <1>10, <1>11

LEMMA ScanString ==
  ASSUME NEW C, NEW t \in Seq(C), NEW L, NEW ps,
         \A k \in 1..Len(t) : L[k] = Sql!LexStep(L[k - 1], t[k]),
         NEW j \in 1..Len(t), AtRegion(t, j, "string", L[j - 1]), MarkersTo(t, L, ps, j)
  PROVE  /\ j < Len(t) /\ t[j] = "'" /\ t[j + 1] = "'" =>
               AtRegion(t, j + 2, "string", L[j + 1]) /\ MarkersTo(t, L, ps, j + 2)
         /\ t[j] = "'" /\ ~(j < Len(t) /\ t[j + 1] = "'") =>
               AtRegion(t, j + 1, "code", L[j])
         /\ t[j] # "'" => AtRegion(t, j + 1, "string", L[j])
         /\ MarkersTo(t, L, ps, j + 1)
<1>0. Len(t) \in Nat /\ j <= Len(t)
  OBVIOUS
<1>1. L[j - 1] = "string" /\ ~Sql!Open("string")
  BY NotOpen DEF AtRegion
<1>2. L[j] = Sql!LexStep("string", t[j])
  BY <1>1
<1>3. L[j] = IF t[j] = "'" THEN "quote" ELSE "string"
  BY <1>2, LexRules
<1>4. Sql!Open("quote")
  BY DEF Sql!Open
<1>5. j < Len(t) /\ t[j] = "'" /\ t[j + 1] = "'" =>
         AtRegion(t, j + 2, "string", L[j + 1]) /\ MarkersTo(t, L, ps, j + 2)
  <2> SUFFICES ASSUME j < Len(t), t[j] = "'", t[j + 1] = "'"
               PROVE  AtRegion(t, j + 2, "string", L[j + 1]) /\ MarkersTo(t, L, ps, j + 2)
    OBVIOUS
  <2>1. L[j + 1] = Sql!LexStep(L[j], t[j + 1])
    <3>1. j + 1 \in 1..Len(t) /\ (j + 1) - 1 = j
      BY <1>0
    <3> QED BY <3>1
  <2>3. L[j + 1] = "string"
    BY <1>3, <2>1, LexPairs
  <2>4. t[j] # "?" /\ t[j + 1] # "?"
    OBVIOUS
  <2> QED BY <2>3, <2>4, NoMarkers DEF AtRegion
<1>6. t[j] = "'" /\ ~(j < Len(t) /\ t[j + 1] = "'") => AtRegion(t, j + 1, "code", L[j])
  BY <1>0, <1>3, <1>4 DEF AtRegion
<1>7. t[j] # "'" => AtRegion(t, j + 1, "string", L[j])
  BY <1>3 DEF AtRegion
<1>8. MarkersTo(t, L, ps, j + 1)
  BY <1>1, NoMarker
<1> QED BY <1>5, <1>6, <1>7, <1>8

LEMMA ScanIdentifier ==
  ASSUME NEW C, NEW t \in Seq(C), NEW L, NEW ps,
         \A k \in 1..Len(t) : L[k] = Sql!LexStep(L[k - 1], t[k]),
         NEW j \in 1..Len(t), AtRegion(t, j, "identifier", L[j - 1]), MarkersTo(t, L, ps, j)
  PROVE  /\ t[j] = "\"" => AtRegion(t, j + 1, "code", L[j])
         /\ t[j] # "\"" => AtRegion(t, j + 1, "identifier", L[j])
         /\ MarkersTo(t, L, ps, j + 1)
<1>1. L[j - 1] = "identifier" /\ ~Sql!Open("identifier")
  BY NotOpen DEF AtRegion
<1>2. L[j] = Sql!LexStep("identifier", t[j])
  BY <1>1
<1>3. L[j] = IF t[j] = "\"" THEN "code" ELSE "identifier"
  BY <1>2, LexRules
<1>4. Sql!Open("code")
  BY DEF Sql!Open
<1>5. t[j] = "\"" => AtRegion(t, j + 1, "code", L[j])
  BY <1>3, <1>4 DEF AtRegion
<1>6. t[j] # "\"" => AtRegion(t, j + 1, "identifier", L[j])
  BY <1>3 DEF AtRegion
<1>7. MarkersTo(t, L, ps, j + 1)
  BY <1>1, NoMarker
<1> QED BY <1>5, <1>6, <1>7

LEMMA ScanLine ==
  ASSUME NEW C, NEW t \in Seq(C), NEW L, NEW ps,
         \A k \in 1..Len(t) : L[k] = Sql!LexStep(L[k - 1], t[k]),
         NEW j \in 1..Len(t), AtRegion(t, j, "line", L[j - 1]), MarkersTo(t, L, ps, j)
  PROVE  /\ t[j] = "\n" => AtRegion(t, j, "code", L[j - 1])
         /\ t[j] # "\n" => AtRegion(t, j + 1, "line", L[j]) /\ MarkersTo(t, L, ps, j + 1)
<1> DEFINE s == L[j - 1]
<1>0. Len(t) \in Nat /\ j <= Len(t)
  OBVIOUS
<1>1. L[j] = Sql!LexStep(s, t[j])
  OBVIOUS
<1>2. \/ s = "line"
      \/ j < Len(t) /\ t[j] = "-" /\ t[j + 1] = "-" /\ Sql!Open(s) /\ s # "dash"
      \/ t[j] = "-" /\ s = "dash"
  BY Zenon DEF AtRegion
<1>3. t[j] = "\n" => AtRegion(t, j, "code", s)
  BY <1>2 DEF AtRegion
<1>4. ASSUME t[j] # "\n" PROVE AtRegion(t, j + 1, "line", L[j]) /\ MarkersTo(t, L, ps, j + 1)
  <2> HIDE DEF s
  <2>1. CASE s = "line"
    <3>1. L[j] = "line" /\ ~Sql!Open(s)
      BY <1>1, <1>4, <2>1, LexRules, NotOpen
    <3> QED BY <3>1, NoMarker DEF AtRegion, s
  <2>2. CASE j < Len(t) /\ t[j] = "-" /\ t[j + 1] = "-" /\ Sql!Open(s) /\ s # "dash"
    <3>1. L[j] = "dash"
      BY <1>1, <2>2, LexOpen, Zenon
    <3>2. t[j] # "?" /\ j + 1 <= Len(t)
      BY <1>0, <2>2
    <3> QED BY <2>2, <3>1, <3>2, NoMarker DEF AtRegion
  <2>3. CASE t[j] = "-" /\ s = "dash"
    <3>1. Sql!Open("dash") /\ t[j] # "?"
      BY <2>3 DEF Sql!Open
    <3>3. L[j] = "line"
      BY <1>1, <2>3, LexPairs
    <3> QED BY <3>1, <3>3, NoMarker DEF AtRegion
  <2> QED BY <1>2, <2>1, <2>2, <2>3
<1> QED BY <1>3, <1>4

LEMMA ScanBlock ==
  ASSUME NEW C, NEW t \in Seq(C), NEW L, NEW ps,
         \A k \in 1..Len(t) : L[k] = Sql!LexStep(L[k - 1], t[k]),
         NEW j \in 1..Len(t), AtRegion(t, j, "block", L[j - 1]), MarkersTo(t, L, ps, j)
  PROVE  /\ j < Len(t) /\ t[j] = "*" /\ t[j + 1] = "/" =>
               AtRegion(t, j + 2, "code", L[j + 1]) /\ MarkersTo(t, L, ps, j + 2)
         /\ ~(j < Len(t) /\ t[j] = "*" /\ t[j + 1] = "/") =>
               AtRegion(t, j + 1, "block", L[j])
         /\ j = Len(t) => AtRegion(t, j + 1, "code", L[j])
         /\ MarkersTo(t, L, ps, j + 1)
<1> DEFINE s == L[j - 1]
<1>0. Len(t) \in Nat /\ j <= Len(t)
  OBVIOUS
<1>1. L[j] = Sql!LexStep(s, t[j])
  OBVIOUS
<1>2. s = "block" \/ (s = "star" /\ t[j] # "/")
  BY <1>0, Zenon DEF AtRegion
<1>3. ~Sql!Open(s)
  BY <1>2, NotOpen
<1>4. L[j] = IF t[j] = "*" THEN "star" ELSE "block"
  <2> HIDE DEF s
  <2>1. CASE s = "block"
    BY <1>1, <2>1, LexRules
  <2>2. CASE s = "star" /\ t[j] # "/"
    BY <1>1, <2>2, LexRules
  <2> QED BY <1>2, <2>1, <2>2
<1>5. ASSUME j < Len(t), t[j] = "*", t[j + 1] = "/"
      PROVE  AtRegion(t, j + 2, "code", L[j + 1]) /\ MarkersTo(t, L, ps, j + 2)
  <2>1. L[j + 1] = Sql!LexStep(L[j], t[j + 1])
    <3>1. j + 1 \in 1..Len(t) /\ (j + 1) - 1 = j
      BY <1>0, <1>5
    <3> QED BY <3>1
  <2>2. L[j] = "star"
    BY <1>4, <1>5
  <2>3. L[j + 1] = "code"
    BY <1>5, <2>1, <2>2, LexRules
  <2>4. Sql!Open("code") /\ t[j] # "?" /\ t[j + 1] # "?"
    BY <1>5 DEF Sql!Open
  <2> QED BY <2>3, <2>4, NoMarkers DEF AtRegion
<1>6. ASSUME ~(j < Len(t) /\ t[j] = "*" /\ t[j + 1] = "/") PROVE AtRegion(t, j + 1, "block", L[j])
  BY <1>0, <1>4, <1>6 DEF AtRegion
<1>7. j = Len(t) => AtRegion(t, j + 1, "code", L[j])
  BY <1>0 DEF AtRegion
<1>8. MarkersTo(t, L, ps, j + 1)
  BY <1>3, NoMarker DEF s
<1> QED BY <1>5, <1>6, <1>7, <1>8

LEMMA SqlInitOk == Init => ScanInv
<1> SUFFICES ASSUME Init PROVE ScanInv
  OBVIOUS
<1>1. sql \in Seq(SqlChars) /\ i = 1 /\ region = "code" /\ positions = <<>>
  <2>1. CASE Sql!Init
    <3>1. PICK k \in 0..MaxSql : sql \in [1..k -> SqlChars]
      BY <2>1 DEF Sql!Init
    <3>2. k \in Nat
      OBVIOUS
    <3> QED BY <2>1, <3>1, <3>2, SeqDef DEF Sql!Init
  <2>2. CASE SqlAtRest
    BY <2>2 DEF SqlAtRest
  <2> QED BY <2>1, <2>2 DEF Init
<1>2. CASE substitution = "scan"
  <2>1. Sql!Lex(sql)[0] = "code" /\ Len(sql) \in Nat
    BY <1>1, LexIs
  <2>2. AtRegion(sql, 1, "code", "code")
    BY DEF AtRegion, Sql!Open
  <2>3. MarkersTo(sql, Sql!Lex(sql), <<>>, 1)
    BY DEF MarkersTo
  <2>4. i \in 1..Len(sql) + 1 /\ i - 1 = 0
    BY <1>1, <2>1
  <2>5. AtRegion(sql, i, region, Sql!Lex(sql)[i - 1]) /\ MarkersTo(sql, Sql!Lex(sql), positions, i)
    BY <1>1, <2>1, <2>2, <2>3, <2>4
  <2> QED BY <1>1, <1>2, <2>4, <2>5 DEF ScanInv
<1>3. CASE substitution # "scan"
  <2>1. SqlAtRest
    BY <1>3 DEF Init, Sql!Init
  <2>2. sql = <<>> /\ Len(sql) + 1 = 1
    BY <2>1 DEF SqlAtRest
  <2>3. MarkersTo(sql, Sql!Lex(sql), <<>>, 1)
    BY DEF MarkersTo
  <2>4. MarkersTo(sql, Sql!Lex(sql), positions, Len(sql) + 1)
    BY <1>1, <2>2, <2>3
  <2> QED BY <1>1, <1>3, <2>4 DEF ScanInv
<1> QED BY <1>2, <1>3

LEMMA SqlStepOk == ScanInv /\ [Next]_vars => ScanInv'
<1> SUFFICES ASSUME ScanInv, [Next]_vars PROVE ScanInv'
  OBVIOUS
<1> DEFINE t == sql
           L == Sql!Lex(sql)
<1>0. sql \in Seq(SqlChars)
  BY Zenon DEF ScanInv
<1>1. CASE UNCHANGED sqlVars
  BY <1>1, Zenon DEF ScanInv, sqlVars
<1>2. CASE Sql!Next
  <2>0. UNCHANGED sql
    BY <1>2 DEF Sql!Next, Sql!Code, Sql!String, Sql!Identifier, Sql!Line, Sql!Block, Sql!Scanning,
                Sql!Scanned, Sql!Substitute, Sql!Rest
  <2>1. ASSUME substitution' = "scan", i' \in 1..Len(sql) + 1,
               AtRegion(t, i', region', L[i' - 1]), MarkersTo(t, L, positions', i')
        PROVE  ScanInv'
    BY <1>0, <2>0, <2>1, Zenon DEF ScanInv
  <2>2. Len(sql) \in Nat /\ \A k \in 1..Len(t) : L[k] = Sql!LexStep(L[k - 1], t[k])
    BY <1>0, LexIs
  <2>3. substitution = "scan" => /\ i \in 1..Len(sql) + 1
                                 /\ AtRegion(t, i, region, L[i - 1])
                                 /\ MarkersTo(t, L, positions, i)
    BY Zenon DEF ScanInv
  <2>4. substitution # "scan" => MarkersTo(t, L, positions, Len(sql) + 1)
    BY Zenon DEF ScanInv
  <2> HIDE DEF L, t
  <2>5. CASE Sql!Scanned
    <3>1. substitution = "scan" /\ i > Len(sql) /\ substitution' = "substitute" /\ UNCHANGED positions
      BY <2>5 DEF Sql!Scanned, Sql!n
    <3>2. i = Len(sql) + 1
      BY <2>2, <2>3, <3>1
    <3>3. MarkersTo(t, L, positions', Len(sql) + 1)
      BY <2>3, <3>1, <3>2
    <3> QED BY <1>0, <2>0, <3>1, <3>3 DEF ScanInv, t, L
  <2>6. CASE (\E literal \in Sql!Literals : Sql!Substitute(literal)) \/ Sql!Rest
    <3>1. substitution # "scan" /\ substitution' # "scan" /\ UNCHANGED positions
      BY <2>6 DEF Sql!Substitute, Sql!Rest
    <3> QED BY <1>0, <2>0, <2>4, <3>1, Zenon DEF ScanInv, t, L
  <2>7. ASSUME NEW where, Sql!Scanning(where)
        PROVE  /\ substitution = "scan" /\ substitution' = "scan" /\ i \in 1..Len(t)
               /\ region = where /\ MarkersTo(t, L, positions, i)
               /\ AtRegion(t, i, where, L[i - 1])
               /\ Len(t) \in Nat /\ i \in Nat /\ i + 1 \in 1..Len(t) + 1
               /\ i < Len(t) => i + 2 \in 1..Len(t) + 1
               /\ (i + 1) - 1 = i /\ (i + 2) - 1 = i + 1 /\ i + 0 = i
    <3>1. substitution = "scan" /\ substitution' = "scan" /\ i <= Len(t) /\ region = where
      BY <2>7 DEF Sql!Scanning, Sql!n, t
    <3>2. Len(t) \in Nat /\ i \in 1..Len(t)
      BY <2>2, <2>3, <3>1 DEF t
    <3> QED BY <2>3, <3>1, <3>2
  <2>8. \A k, where : Sql!Move(k, where) => i' = i + k /\ region' = where
    BY Zenon DEF Sql!Move
  <2>code. CASE Sql!Code
    <3>0. Sql!Scanning("code")
      BY <2>code DEF Sql!Code
    <3>1. /\ substitution = "scan" /\ substitution' = "scan" /\ i \in 1..Len(t)
          /\ MarkersTo(t, L, positions, i) /\ AtRegion(t, i, "code", L[i - 1])
          /\ Len(t) \in Nat /\ i \in Nat /\ i + 1 \in 1..Len(t) + 1
          /\ i < Len(t) => i + 2 \in 1..Len(t) + 1
          /\ (i + 1) - 1 = i /\ (i + 2) - 1 = i + 1 /\ i + 0 = i
      BY <2>7, <3>0
    <3>2. /\ t[i] = "'" => AtRegion(t, i + 1, "string", L[i])
          /\ t[i] = "\"" => AtRegion(t, i + 1, "identifier", L[i])
          /\ i < Len(t) /\ t[i] = "-" /\ t[i + 1] = "-" => AtRegion(t, i, "line", L[i - 1])
          /\ i < Len(t) /\ t[i] = "/" /\ t[i + 1] = "*" => AtRegion(t, i + 2, "block", L[i + 1])
          /\ t[i] \notin {"'", "\""}
                /\ ~(i < Len(t) /\ t[i] = "-" /\ t[i + 1] = "-")
                /\ ~(i < Len(t) /\ t[i] = "/" /\ t[i + 1] = "*")
                => AtRegion(t, i + 1, "code", L[i])
          /\ t[i] # "?" => MarkersTo(t, L, positions, i + 1)
          /\ t[i] = "?" => MarkersTo(t, L, Append(positions, i), i + 1)
          /\ i < Len(t) /\ t[i] = "/" /\ t[i + 1] = "*" => MarkersTo(t, L, positions, i + 2)
      BY <1>0, <2>2, <3>1, ScanCode DEF t
    <3>3. positions' = IF t[i] = "?" THEN Append(positions, i) ELSE positions
      BY <2>code DEF Sql!Code, Sql!Is, t
    <3>4. CASE t[i] = "'" /\ Sql!Move(1, "string")
      BY <2>1, <2>8, <3>1, <3>2, <3>3, <3>4 DEF t
    <3>5. CASE t[i] = "\"" /\ Sql!Move(1, "identifier")
      <4>1. i' = i + 1 /\ region' = "identifier" /\ t[i] # "?"
        BY <3>5 DEF Sql!Move
      <4>2. AtRegion(t, i', region', L[i' - 1]) /\ i' \in 1..Len(t) + 1
        BY <3>1, <3>2, <3>5, <4>1
      <4> QED BY <2>1, <3>1, <3>2, <3>3, <4>1, <4>2 DEF t
    <3>6. CASE i < Len(t) /\ t[i] = "-" /\ t[i + 1] = "-" /\ Sql!Move(0, "line")
      BY <2>1, <2>8, <3>1, <3>2, <3>3, <3>6 DEF t
    <3>7. CASE i < Len(t) /\ t[i] = "/" /\ t[i + 1] = "*" /\ Sql!Move(2, "block")
      BY <2>1, <2>8, <3>1, <3>2, <3>3, <3>7 DEF t
    <3>8. CASE /\ t[i] \notin {"'", "\""}
               /\ ~(i < Len(t) /\ t[i] = "-" /\ t[i + 1] = "-")
               /\ ~(i < Len(t) /\ t[i] = "/" /\ t[i + 1] = "*")
               /\ Sql!Move(1, "code")
      BY <2>1, <2>8, <3>1, <3>2, <3>3, <3>8 DEF t
    <3> QED BY <2>code, <3>4, <3>5, <3>6, <3>7, <3>8
            DEF Sql!Code, Sql!Is, Sql!Pair, Sql!n, Sql!OpenBlock, t
  <2>string. CASE Sql!String
    <3>0. Sql!Scanning("string") /\ UNCHANGED positions
      BY <2>string DEF Sql!String
    <3>1. /\ substitution = "scan" /\ substitution' = "scan" /\ i \in 1..Len(t)
          /\ MarkersTo(t, L, positions, i) /\ AtRegion(t, i, "string", L[i - 1])
          /\ Len(t) \in Nat /\ i \in Nat /\ i + 1 \in 1..Len(t) + 1
          /\ i < Len(t) => i + 2 \in 1..Len(t) + 1
          /\ (i + 1) - 1 = i /\ (i + 2) - 1 = i + 1 /\ i + 0 = i
      BY <2>7, <3>0
    <3>2. /\ i < Len(t) /\ t[i] = "'" /\ t[i + 1] = "'" =>
               AtRegion(t, i + 2, "string", L[i + 1]) /\ MarkersTo(t, L, positions, i + 2)
          /\ t[i] = "'" /\ ~(i < Len(t) /\ t[i + 1] = "'") =>
               AtRegion(t, i + 1, "code", L[i])
          /\ t[i] # "'" => AtRegion(t, i + 1, "string", L[i])
          /\ MarkersTo(t, L, positions, i + 1)
      BY <1>0, <2>2, <3>1, ScanString DEF t
    <3>3. CASE i < Len(t) /\ t[i] = "'" /\ t[i + 1] = "'" /\ Sql!Move(2, "string")
      BY <2>1, <2>8, <3>0, <3>1, <3>2, <3>3 DEF t
    <3>4. CASE t[i] = "'" /\ ~(i < Len(t) /\ t[i] = "'" /\ t[i + 1] = "'") /\ Sql!Move(1, "code")
      BY <2>1, <2>8, <3>0, <3>1, <3>2, <3>4 DEF t
    <3>5. CASE t[i] # "'" /\ Sql!Move(1, "string")
      BY <2>1, <2>8, <3>0, <3>1, <3>2, <3>5 DEF t
    <3> QED BY <2>string, <3>3, <3>4, <3>5 DEF Sql!String, Sql!Is, Sql!Pair, Sql!n, t
  <2>identifier. CASE Sql!Identifier
    <3>0. /\ Sql!Scanning("identifier") /\ UNCHANGED positions
          /\ Sql!Move(1, IF t[i] = "\"" THEN "code" ELSE "identifier")
      BY <2>identifier DEF Sql!Identifier, Sql!Is, t
    <3>1. /\ substitution = "scan" /\ substitution' = "scan" /\ i \in 1..Len(t)
          /\ MarkersTo(t, L, positions, i) /\ AtRegion(t, i, "identifier", L[i - 1])
          /\ i + 1 \in 1..Len(t) + 1 /\ (i + 1) - 1 = i
      BY <2>7, <3>0
    <3>2. /\ t[i] = "\"" => AtRegion(t, i + 1, "code", L[i])
          /\ t[i] # "\"" => AtRegion(t, i + 1, "identifier", L[i])
          /\ MarkersTo(t, L, positions, i + 1)
      BY <1>0, <2>2, <3>1, ScanIdentifier DEF t
    <3>3. i' = i + 1 /\ region' = IF t[i] = "\"" THEN "code" ELSE "identifier"
      BY <3>0 DEF Sql!Move
    <3> QED BY <2>1, <3>0, <3>1, <3>2, <3>3 DEF t
  <2>line. CASE Sql!Line
    <3>0. /\ Sql!Scanning("line") /\ UNCHANGED positions
          /\ IF t[i] = "\n" THEN Sql!Move(0, "code") ELSE Sql!Move(1, "line")
      BY <2>line DEF Sql!Line, Sql!Is, t
    <3>1. /\ substitution = "scan" /\ substitution' = "scan" /\ i \in 1..Len(t)
          /\ MarkersTo(t, L, positions, i) /\ AtRegion(t, i, "line", L[i - 1])
          /\ i + 1 \in 1..Len(t) + 1 /\ (i + 1) - 1 = i /\ i + 0 = i
      BY <2>7, <3>0
    <3>2. /\ t[i] = "\n" => AtRegion(t, i, "code", L[i - 1])
          /\ t[i] # "\n" => AtRegion(t, i + 1, "line", L[i]) /\ MarkersTo(t, L, positions, i + 1)
      BY <1>0, <2>2, <3>1, ScanLine DEF t
    <3>3. CASE t[i] = "\n" /\ Sql!Move(0, "code")
      BY <2>1, <2>2, <2>8, <3>0, <3>1, <3>2, <3>3 DEF t
    <3>4. CASE t[i] # "\n" /\ Sql!Move(1, "line")
      BY <2>1, <2>8, <3>0, <3>1, <3>2, <3>4 DEF t
    <3> QED BY <3>0, <3>3, <3>4
  <2>block. CASE Sql!Block
    <3>0. Sql!Scanning("block") /\ UNCHANGED positions
      BY <2>block DEF Sql!Block
    <3>1. /\ substitution = "scan" /\ substitution' = "scan" /\ i \in 1..Len(t)
          /\ MarkersTo(t, L, positions, i) /\ AtRegion(t, i, "block", L[i - 1])
          /\ Len(t) \in Nat /\ i \in Nat /\ i + 1 \in 1..Len(t) + 1
          /\ i < Len(t) => i + 2 \in 1..Len(t) + 1
          /\ (i + 1) - 1 = i /\ (i + 2) - 1 = i + 1
      BY <2>7, <3>0
    <3>2. /\ i < Len(t) /\ t[i] = "*" /\ t[i + 1] = "/" =>
               AtRegion(t, i + 2, "code", L[i + 1]) /\ MarkersTo(t, L, positions, i + 2)
          /\ ~(i < Len(t) /\ t[i] = "*" /\ t[i + 1] = "/") => AtRegion(t, i + 1, "block", L[i])
          /\ i = Len(t) => AtRegion(t, i + 1, "code", L[i])
          /\ MarkersTo(t, L, positions, i + 1)
      BY <1>0, <2>2, <3>1, ScanBlock DEF t
    <3>3. CASE i < Len(t) /\ t[i] = "*" /\ t[i + 1] = "/" /\ Sql!Move(2, "code")
      BY <2>1, <2>8, <3>0, <3>1, <3>2, <3>3 DEF t
    <3>4. CASE /\ ~(i < Len(t) /\ t[i] = "*" /\ t[i + 1] = "/")
               /\ Sql!Move(1, IF i < Len(t) THEN "block" ELSE "code")
      <4>1. i' = i + 1 /\ region' = IF i < Len(t) THEN "block" ELSE "code"
        BY <2>8, <3>4
      <4>2. ~(i < Len(t)) => i = Len(t)
        BY <3>1
      <4>3. AtRegion(t, i + 1, region', L[i])
        BY <3>2, <3>4, <4>1, <4>2
      <4> QED BY <2>1, <3>0, <3>1, <3>2, <4>1, <4>3 DEF t
    <3> QED BY <2>block, <3>3, <3>4 DEF Sql!Block, Sql!Pair, Sql!LastBlock, Sql!n, t
  <2> QED BY <1>2, <2>5, <2>6, <2>code, <2>string, <2>identifier, <2>line, <2>block DEF Sql!Next
<1> QED BY <1>1, <1>2, Zenon DEF Next, vars

\* The markers scanParameterMarkers finds are the question marks that the
\* broker's lexer reads in the open, in their order, in every text: whatever
\* strings, names and comments it holds, ended or not.
THEOREM MarkersFound == Spec => []MarkersInTheOpen
<1>1. Init => ScanInv
  BY SqlInitOk
<1>2. ScanInv /\ [Next]_vars => ScanInv'
  BY SqlStepOk
<1>3. ScanInv => MarkersInTheOpen
  <2> SUFFICES ASSUME ScanInv, substitution = "substitute"
      PROVE  LET lex == Sql!Lex(sql) IN
             /\ {positions[k] : k \in DOMAIN positions} =
                   {j \in 1..Len(sql) : sql[j] = "?" /\ Sql!Open(lex[j - 1])}
             /\ \A k \in 2..Len(positions) : positions[k - 1] < positions[k]
    BY Zenon DEF MarkersInTheOpen, Sql!MarkersInTheOpen, Sql!n
  <2>1. MarkersTo(sql, Sql!Lex(sql), positions, Len(sql) + 1) /\ sql \in Seq(SqlChars)
    BY DEF ScanInv
  <2>2. (Len(sql) + 1) - 1 = Len(sql)
    BY <2>1
  <2> QED BY <2>1, <2>2 DEF MarkersTo
<1> QED BY <1>1, <1>2, <1>3, PTL DEF Spec

-----------------------------------------------------------------------------
(* WideText: sequences of bytes and of units *)

WideChars == {"one", "two", "four", "replacement"}
WideUnits == {"one", "two", "replacement", "high", "low"}
Bytes == {x \in WideChars \X (1..4) : x[2] <= Wide!SizeOf(x[1])}

LEMMA WideSizes ==
  /\ Wide!SizeOf("one") = 1 /\ Wide!SizeOf("two") = 2
  /\ Wide!SizeOf("replacement") = 3 /\ Wide!SizeOf("four") = 4
  BY DEF Wide!SizeOf, Wide!Sizes

LEMMA SizeRange == \A c \in WideChars : Wide!SizeOf(c) \in 1..4
  BY WideSizes DEF WideChars

LEMMA BytesAre ==
  ASSUME NEW c \in WideChars
  PROVE  /\ Wide!BytesOf(c) \in Seq(Bytes) /\ Len(Wide!BytesOf(c)) = Wide!SizeOf(c)
         /\ \A b \in 1..Wide!SizeOf(c) : Wide!BytesOf(c)[b] = <<c, b>>
<1>1. Wide!SizeOf(c) \in 1..4
  BY SizeRange
<1> DEFINE m == Wide!SizeOf(c)
<1>2. Wide!BytesOf(c) = [b \in 1..m |-> <<c, b>>]
  BY DEF Wide!BytesOf
<1>3. \A b \in 1..m : <<c, b>> \in Bytes
  BY <1>1 DEF Bytes
<1> HIDE DEF m
<1>4. [b \in 1..m |-> <<c, b>>] \in [1..m -> Bytes]
  BY <1>3
<1>5. m \in Nat
  BY <1>1 DEF m
<1>6. Wide!BytesOf(c) \in Seq(Bytes)
  BY <1>2, <1>4, <1>5, SeqDef
<1> QED BY <1>2, <1>5, <1>6 DEF m

LEMMA UnitsAre ==
  /\ \A c \in WideChars : Wide!UnitsOf(c) \in Seq(WideUnits)
  /\ \A c \in WideChars \ {"four"} : Wide!UnitsOf(c) = <<c>>
  /\ Wide!UnitsOf("four") = <<"high", "low">>
<1>1. \A c \in WideChars \ {"four"} : Wide!UnitsOf(c) = <<c>>
  BY DEF Wide!UnitsOf
<1>2. Wide!UnitsOf("four") = <<"high", "low">>
  BY DEF Wide!UnitsOf
<1>3. <<"high", "low">> \in Seq(WideUnits)
  BY DEF WideUnits
<1>4. \A c \in WideChars \ {"four"} : <<c>> \in Seq(WideUnits)
  BY DEF WideChars, WideUnits
<1> QED BY <1>1, <1>2, <1>3, <1>4

-----------------------------------------------------------------------------
(* WideText: Concat *)

\* The sequences of the first characters, one after the other.
Joined(f, F, t) == f = [k \in 0..Len(t) |-> IF k = 0 THEN <<>> ELSE f[k - 1] \o F[t[k]]]
Listed(f, n, g) == f = [k \in 0..n |-> IF k = 0 THEN <<>> ELSE f[k - 1] \o g[k]]

LEMMA JoinExists ==
  ASSUME NEW C, NEW S, NEW F \in [C -> Seq(S)], NEW t \in Seq(C)
  PROVE  \E f \in [0..Len(t) -> Seq(S)] : Joined(f, F, t)
<1> DEFINE n == Len(t)
           G == [x \in Seq(S) \X (1..n) |-> x[1] \o F[t[x[2]]]]
<1>1. n \in Nat /\ <<>> \in Seq(S) /\ \A k \in 1..n : t[k] \in C
  BY EmptySeq
<1> HIDE DEF n
<1>2. \A k \in 1..n, x \in Seq(S) : G[<<x, k>>] = x \o F[t[k]]
  OBVIOUS
<1> HIDE DEF G
<1>3. Steps(n, Seq(S), G)
  <2>1. \A k \in 1..n, x \in Seq(S) : G[<<x, k>>] \in Seq(S)
    <3> TAKE k \in 1..n, x \in Seq(S)
    <3>1. F[t[k]] \in Seq(S)
      BY <1>1
    <3>2. x \o F[t[k]] \in Seq(S)
      BY <3>1, ConcatProperties
    <3> QED BY <1>2, <3>2
  <2> QED BY <2>1, Zenon DEF Steps
<1>4. \E f \in [0..n -> Seq(S)] : Chained(f, n, <<>>, G)
  BY <1>1, <1>3, Chain, Zenon
<1>5. PICK f \in [0..n -> Seq(S)] : f = [k \in 0..n |-> IF k = 0 THEN <<>> ELSE G[<<f[k - 1], k>>]]
  BY <1>4 DEF Chained
<1>6. \A k \in 0..n : k # 0 => k \in 1..n /\ k - 1 \in 0..n
  BY <1>1
<1>7. \A k \in 0..n : (IF k = 0 THEN <<>> ELSE G[<<f[k - 1], k>>])
                      = IF k = 0 THEN <<>> ELSE f[k - 1] \o F[t[k]]
  BY <1>2, <1>6
<1>8. f = [k \in 0..n |-> IF k = 0 THEN <<>> ELSE f[k - 1] \o F[t[k]]]
  BY <1>5, <1>7
<1> QED BY <1>8 DEF n, Joined

\* Utf8 and Utf16, of the first characters.
Utf8Of(t) ==
    LET all[k \in 0..Len(t)] == IF k = 0 THEN <<>> ELSE all[k - 1] \o Wide!BytesOf(t[k]) IN all
Utf16Of(t) ==
    LET all[k \in 0..Len(t)] == IF k = 0 THEN <<>> ELSE all[k - 1] \o Wide!UnitsOf(t[k]) IN all

LEMMA Utf8Is == \A t : Wide!Utf8(t) = Utf8Of(t)[Len(t)] /\ Wide!Utf16(t) = Utf16Of(t)[Len(t)]
  BY DEF Wide!Utf8, Wide!Utf16, Wide!Concat, Utf8Of, Utf16Of

Lists(f, n, g) == f[0] = <<>> /\ \A k \in 1..n : f[k] = f[k - 1] \o g[k]

LEMMA JoinUnfolds == ASSUME NEW n \in Nat, NEW f, NEW g, Listed(f, n, g) PROVE Lists(f, n, g)
<1> DEFINE e(k) == f[k - 1] \o g[k]
<1>1. f = [k \in 0..n |-> IF k = 0 THEN <<>> ELSE e(k)]
  BY Zenon DEF Listed
<1>2. 0 \in 0..n /\ \A k \in 1..n : k \in 0..n /\ k # 0
  OBVIOUS
<1> HIDE DEF e
<1>3. f[0] = <<>> /\ \A k \in 1..n : f[k] = e(k)
  BY <1>1, <1>2
<1> QED BY <1>3 DEF e, Lists

\* What a function is that follows the rule of Concat.
LEMMA JoinRules ==
  ASSUME NEW n \in Nat, NEW f, NEW S, NEW g \in [1..n -> Seq(S)], Listed(f, n, g)
  PROVE  Lists(f, n, g) /\ \A k \in 0..n : f[k] \in Seq(S)
<1>1. Lists(f, n, g)
  BY JoinUnfolds, Zenon
<1>3. f[0] = <<>> /\ \A k \in 1..n : f[k] = f[k - 1] \o g[k]
  BY <1>1 DEF Lists
<1>4. \A k \in 0..n : f[k] \in Seq(S)
  <2> DEFINE P == {k \in Nat : k <= n => f[k] \in Seq(S)}
  <2>1. 0 \in P
    BY <1>3, EmptySeq
  <2>2. ASSUME NEW k \in Nat, k \in P PROVE k + 1 \in P
    <3> SUFFICES ASSUME k + 1 <= n PROVE f[k + 1] \in Seq(S)
      OBVIOUS
    <3>1. f[k] \in Seq(S) /\ k + 1 \in 1..n /\ (k + 1) - 1 = k
      BY <2>2
    <3>2. f[k + 1] = f[k] \o g[k + 1] /\ g[k + 1] \in Seq(S)
      BY <1>3, <3>1
    <3> QED BY <3>1, <3>2, ConcatProperties
  <2>3. Nat \subseteq P
    BY <2>1, <2>2, SetInduction
  <2>4. \A k \in Nat : k <= n => f[k] \in Seq(S)
    BY <2>3
  <2>5. \A k \in 0..n : k \in Nat /\ k <= n
    OBVIOUS
  <2> QED BY <2>4, <2>5, Zenon
<1> QED BY <1>1, <1>4

LEMMA Utf8Rules ==
  ASSUME NEW t \in Seq(WideChars)
  PROVE  /\ Utf8Of(t)[0] = <<>> /\ \A k \in 0..Len(t) : Utf8Of(t)[k] \in Seq(Bytes)
         /\ \A k \in 1..Len(t) : Utf8Of(t)[k] = Utf8Of(t)[k - 1] \o Wide!BytesOf(t[k])
<1> DEFINE n == Len(t)
           F == [c \in WideChars |-> Wide!BytesOf(c)]
           L == Utf8Of(t)
           g == [k \in 1..n |-> Wide!BytesOf(t[k])]
<1>1. n \in Nat /\ \A k \in 1..n : t[k] \in WideChars
  OBVIOUS
<1>2. F \in [WideChars -> Seq(Bytes)]
  BY BytesAre
<1>3. \A k \in 1..n : F[t[k]] = Wide!BytesOf(t[k])
  BY <1>1
<1> HIDE DEF F, n
<1>j. \E f \in [0..Len(t) -> Seq(Bytes)] : Joined(f, F, t)
  BY <1>2, JoinExists, Zenon
<1>4. PICK f \in [0..n -> Seq(Bytes)] :
            f = [k \in 0..n |-> IF k = 0 THEN <<>> ELSE f[k - 1] \o F[t[k]]]
  BY <1>j DEF n, Joined
<1>5. \A k \in 0..n : k # 0 => k \in 1..n
  BY <1>1
<1>6. f = [k \in 0..n |-> IF k = 0 THEN <<>> ELSE f[k - 1] \o Wide!BytesOf(t[k])]
  <2>1. \A k \in 0..n : (IF k = 0 THEN <<>> ELSE f[k - 1] \o F[t[k]])
                        = IF k = 0 THEN <<>> ELSE f[k - 1] \o Wide!BytesOf(t[k])
    BY <1>3, <1>5
  <2> QED BY <1>4, <2>1
<1> HIDE DEF L
<1>7. L = [k \in 0..n |-> IF k = 0 THEN <<>> ELSE L[k - 1] \o Wide!BytesOf(t[k])]
  BY <1>6, Zenon DEF L, Utf8Of, n
<1>8. g \in [1..n -> Seq(Bytes)] /\ \A k \in 1..n : g[k] = Wide!BytesOf(t[k])
  BY <1>1, BytesAre
<1> HIDE DEF g
<1>9. L = [k \in 0..n |-> IF k = 0 THEN <<>> ELSE L[k - 1] \o g[k]]
  <2>1. \A k \in 0..n : (IF k = 0 THEN <<>> ELSE L[k - 1] \o g[k])
                        = IF k = 0 THEN <<>> ELSE L[k - 1] \o Wide!BytesOf(t[k])
    BY <1>5, <1>8
  <2> QED BY <1>7, <2>1
<1>10. L[0] = <<>> /\ (\A k \in 1..n : L[k] = L[k - 1] \o g[k]) /\ \A k \in 0..n : L[k] \in Seq(Bytes)
  BY <1>1, <1>8, <1>9, JoinRules DEF Listed, Lists
<1> QED BY <1>8, <1>10 DEF L, n

LEMMA Utf16Rules ==
  ASSUME NEW t \in Seq(WideChars)
  PROVE  /\ Utf16Of(t)[0] = <<>> /\ \A k \in 0..Len(t) : Utf16Of(t)[k] \in Seq(WideUnits)
         /\ \A k \in 1..Len(t) : Utf16Of(t)[k] = Utf16Of(t)[k - 1] \o Wide!UnitsOf(t[k])
<1> DEFINE n == Len(t)
           F == [c \in WideChars |-> Wide!UnitsOf(c)]
           L == Utf16Of(t)
           g == [k \in 1..n |-> Wide!UnitsOf(t[k])]
<1>1. n \in Nat /\ \A k \in 1..n : t[k] \in WideChars
  OBVIOUS
<1>2. F \in [WideChars -> Seq(WideUnits)]
  BY UnitsAre
<1>3. \A k \in 1..n : F[t[k]] = Wide!UnitsOf(t[k])
  BY <1>1
<1> HIDE DEF F, n
<1>j. \E f \in [0..Len(t) -> Seq(WideUnits)] : Joined(f, F, t)
  BY <1>2, JoinExists, Zenon
<1>4. PICK f \in [0..n -> Seq(WideUnits)] :
            f = [k \in 0..n |-> IF k = 0 THEN <<>> ELSE f[k - 1] \o F[t[k]]]
  BY <1>j DEF n, Joined
<1>5. \A k \in 0..n : k # 0 => k \in 1..n
  BY <1>1
<1>6. f = [k \in 0..n |-> IF k = 0 THEN <<>> ELSE f[k - 1] \o Wide!UnitsOf(t[k])]
  <2>1. \A k \in 0..n : (IF k = 0 THEN <<>> ELSE f[k - 1] \o F[t[k]])
                        = IF k = 0 THEN <<>> ELSE f[k - 1] \o Wide!UnitsOf(t[k])
    BY <1>3, <1>5
  <2> QED BY <1>4, <2>1
<1> HIDE DEF L
<1>7. L = [k \in 0..n |-> IF k = 0 THEN <<>> ELSE L[k - 1] \o Wide!UnitsOf(t[k])]
  BY <1>6, Zenon DEF L, Utf16Of, n
<1>8. g \in [1..n -> Seq(WideUnits)] /\ \A k \in 1..n : g[k] = Wide!UnitsOf(t[k])
  BY <1>1, UnitsAre
<1> HIDE DEF g
<1>9. L = [k \in 0..n |-> IF k = 0 THEN <<>> ELSE L[k - 1] \o g[k]]
  <2>1. \A k \in 0..n : (IF k = 0 THEN <<>> ELSE L[k - 1] \o g[k])
                        = IF k = 0 THEN <<>> ELSE L[k - 1] \o Wide!UnitsOf(t[k])
    BY <1>5, <1>8
  <2> QED BY <1>7, <2>1
<1>10. L[0] = <<>> /\ (\A k \in 1..n : L[k] = L[k - 1] \o g[k]) /\ \A k \in 0..n : L[k] \in Seq(WideUnits)
  BY <1>1, <1>8, <1>9, JoinRules DEF Listed, Lists
<1> QED BY <1>8, <1>10 DEF L, n

-----------------------------------------------------------------------------
(* WideText: utf8ToWide *)

Reads(s, f, k) ==
    IF k > Len(s) THEN <<>>
    ELSE IF Wide!Whole(s, k) THEN Wide!UnitsOf(s[k][1]) \o f[k + Wide!SizeOf(s[k][1])]
    ELSE <<"replacement">> \o f[k + 1]

DecodeOf(s) == CHOOSE f : f = [k \in 1..Len(s) + 4 |-> Reads(s, f, k)]

LEMMA DecodeIs == \A s : Wide!Utf8ToWide(s) = DecodeOf(s)[1]
  BY DEF Wide!Utf8ToWide, DecodeOf, Reads

LEMMA ByteIs ==
  ASSUME NEW s \in Seq(Bytes), NEW k \in 1..Len(s)
  PROVE  /\ s[k][1] \in WideChars /\ Wide!SizeOf(s[k][1]) \in 1..4
         /\ s[k][2] \in 1..Wide!SizeOf(s[k][1]) /\ s[k] = <<s[k][1], s[k][2]>>
<1>1. s[k] \in Bytes
  OBVIOUS
<1>2. s[k][1] \in WideChars /\ s[k][2] \in 1..4 /\ s[k][2] <= Wide!SizeOf(s[k][1]) /\ s[k] = <<s[k][1], s[k][2]>>
  BY <1>1 DEF Bytes
<1> QED BY <1>2, SizeRange

\* A sequence put together piece by piece: the piece at k, and then those from
\* nx[k] on, up to n.
Piece(f, n, K, nx, k) == IF k > n THEN <<>> ELSE K[k] \o f[nx[k]]
Pieced(f, N, n, K, nx) == f = [k \in 1..N |-> Piece(f, n, K, nx, k)]
Pieces(f, S, N, n, K, nx) == \A k \in 1..N : f[k] \in Seq(S) /\ f[k] = Piece(f, n, K, nx, k)

LEMMA PiecesExist ==
  ASSUME NEW S, NEW n \in Nat, NEW N \in Nat, n <= N, NEW K \in [1..n -> Seq(S)],
         NEW nx \in [1..n -> 1..N], \A k \in 1..n : nx[k] > k
  PROVE  \E f : Pieced(f, N, n, K, nx)
<1> DEFINE D == 1..N
           T == Seq(S)
           rank == [k \in D |-> N - k]
           G == [x \in D \X [D -> T] |-> Piece(x[2], n, K, nx, x[1])]
<1>s. <<>> \in T
  BY EmptySeq
<1>1. rank \in [D -> Nat] /\ T # {}
  <2>1. \A k \in D : N - k \in Nat
    OBVIOUS
  <2> HIDE DEF D, T
  <2> QED BY <1>s, <2>1
<1>2. \A k \in D, f \in [D -> T] : G[<<k, f>>] = Piece(f, n, K, nx, k)
  OBVIOUS
<1>3. \A k \in D : k > n \/ (k \in 1..n /\ ~(k > n) /\ nx[k] \in D /\ rank[nx[k]] < rank[k])
  OBVIOUS
<1> HIDE DEF D, rank, G, T
<1>4. Into(D, T, G)
  <2> SUFFICES ASSUME NEW k \in D, NEW f \in [D -> T] PROVE G[<<k, f>>] \in T
    BY Zenon DEF Into
  <2>1. CASE k > n
    BY <1>2, <1>s, <2>1 DEF Piece
  <2>2. CASE k \in 1..n /\ ~(k > n) /\ nx[k] \in D
    <3>1. K[k] \in Seq(S) /\ f[nx[k]] \in Seq(S)
      BY <2>2 DEF T
    <3>2. K[k] \o f[nx[k]] \in T
      BY <3>1, ConcatProperties DEF T
    <3> QED BY <1>2, <2>2, <3>2 DEF Piece
  <2> QED BY <1>3, <2>1, <2>2
<1>5. Below(D, T, rank, G)
  <2> SUFFICES ASSUME NEW k \in D, NEW f \in [D -> T], NEW g \in [D -> T],
                      \A c \in D : rank[c] < rank[k] => f[c] = g[c]
               PROVE  G[<<k, f>>] = G[<<k, g>>]
    BY Zenon DEF Below
  <2>1. k > n \/ (~(k > n) /\ f[nx[k]] = g[nx[k]])
    BY <1>3
  <2>2. Piece(f, n, K, nx, k) = Piece(g, n, K, nx, k)
    BY <2>1, Zenon DEF Piece
  <2> QED BY <1>2, <2>2
<1>6. \E f \in [D -> T] : Follows(f, D, G)
  BY <1>1, <1>4, <1>5, Recursion
<1>7. PICK f \in [D -> T] : f = [k \in D |-> G[<<k, f>>]]
  BY <1>6, Zenon DEF Follows
<1>8. f = [k \in D |-> Piece(f, n, K, nx, k)]
  BY <1>2, <1>7
<1> QED BY <1>8, Zenon DEF Pieced, D

LEMMA PiecesAre ==
  ASSUME NEW S, NEW n \in Nat, NEW N \in Nat, n <= N, NEW K \in [1..n -> Seq(S)],
         NEW nx \in [1..n -> 1..N], \A k \in 1..n : nx[k] > k,
         NEW f, Pieced(f, N, n, K, nx)
  PROVE  Pieces(f, S, N, n, K, nx)
<1> DEFINE D == 1..N
           h == [k \in D |-> Piece(f, n, K, nx, k)]
           P == {m \in Nat : \A k \in D : N - k <= m => f[k] \in Seq(S)}
<1>1. \A k \in D : f[k] = Piece(f, n, K, nx, k)
  <2>1. f = h
    BY Zenon DEF Pieced
  <2>2. \A k \in D : h[k] = Piece(f, n, K, nx, k)
    OBVIOUS
  <2> HIDE DEF h
  <2> QED BY <2>1, <2>2
<1>2. ASSUME NEW k \in D, \A c \in D : c > k => f[c] \in Seq(S) PROVE f[k] \in Seq(S)
  <2>1. CASE k > n
    BY <1>1, <2>1, EmptySeq DEF Piece
  <2>2. CASE ~(k > n)
    <3>1. k \in 1..n
      BY <2>2
    <3>2. K[k] \in Seq(S) /\ f[nx[k]] \in Seq(S)
      BY <1>2, <3>1
    <3>3. K[k] \o f[nx[k]] \in Seq(S)
      BY <3>2, ConcatProperties
    <3> QED BY <1>1, <2>2, <3>3 DEF Piece
  <2> QED BY <2>1, <2>2
<1>3. 0 \in P
  <2> SUFFICES ASSUME NEW k \in D, N - k <= 0 PROVE f[k] \in Seq(S)
    OBVIOUS
  <2>1. \A c \in D : ~(c > k)
    OBVIOUS
  <2> QED BY <1>2, <2>1
<1>4. ASSUME NEW m \in Nat, m \in P PROVE m + 1 \in P
  <2> SUFFICES ASSUME NEW k \in D, N - k <= m + 1 PROVE f[k] \in Seq(S)
    OBVIOUS
  <2>1. \A c \in D : c > k => N - c <= m
    OBVIOUS
  <2>2. \A c \in D : c > k => f[c] \in Seq(S)
    BY <1>4, <2>1
  <2> QED BY <1>2, <2>2
<1>5. Nat \subseteq P
  BY <1>3, <1>4, SetInduction
<1>6. \A k \in D : f[k] \in Seq(S)
  <2> TAKE k \in D
  <2>1. N - k \in Nat /\ N - k <= N - k
    OBVIOUS
  <2>2. \A m \in Nat : m \in P
    BY <1>5
  <2>3. \A m \in Nat : N - k <= m => f[k] \in Seq(S)
    BY <2>2
  <2> QED BY <2>1, <2>3
<1> QED BY <1>1, <1>6 DEF Pieces

LEMMA DecodeRules ==
  ASSUME NEW s \in Seq(Bytes)
  PROVE  \A k \in 1..Len(s) + 4 :
            DecodeOf(s)[k] \in Seq(WideUnits) /\ DecodeOf(s)[k] = Reads(s, DecodeOf(s), k)
<1> DEFINE n == Len(s)
           N == n + 4
           K == [k \in 1..n |-> IF Wide!Whole(s, k) THEN Wide!UnitsOf(s[k][1]) ELSE <<"replacement">>]
           nx == [k \in 1..n |-> IF Wide!Whole(s, k) THEN k + Wide!SizeOf(s[k][1]) ELSE k + 1]
           L == DecodeOf(s)
<1>n. n \in Nat /\ N \in Nat /\ n <= N
  OBVIOUS
<1>b. \A k \in 1..n : Wide!UnitsOf(s[k][1]) \in Seq(WideUnits) /\ Wide!SizeOf(s[k][1]) \in 1..4
  BY ByteIs, UnitsAre
<1>s. <<"replacement">> \in Seq(WideUnits)
  BY DEF WideUnits
<1> HIDE DEF n
<1>1. K \in [1..n -> Seq(WideUnits)]
  BY <1>b, <1>s
<1>2. nx \in [1..n -> 1..N] /\ \A k \in 1..n : nx[k] > k
  <2>1. \A k \in 1..n : \A z \in 1..4 : k + z \in 1..N /\ k + z > k
    BY <1>n
  <2>2. \A k \in 1..n : k + Wide!SizeOf(s[k][1]) \in 1..N /\ k + Wide!SizeOf(s[k][1]) > k
    BY <1>b, <2>1
  <2>3. \A k \in 1..n : k + 1 \in 1..N /\ k + 1 > k
    BY <2>1
  <2> HIDE DEF N
  <2> QED BY <2>2, <2>3
<1> HIDE DEF N
<1>3. \A f : \A k \in 1..N : Piece(f, n, K, nx, k) = Reads(s, f, k)
  <2> TAKE f
  <2> TAKE k \in 1..N
  <2>1. CASE k > n
    BY <2>1, Zenon DEF Piece, Reads, n
  <2>2. CASE ~(k > n)
    <3>1. k \in 1..n
      BY <1>n, <2>2
    <3>2. CASE Wide!Whole(s, k)
      <4>1. K[k] = Wide!UnitsOf(s[k][1]) /\ nx[k] = k + Wide!SizeOf(s[k][1])
        BY <3>1, <3>2
      <4> HIDE DEF K, nx
      <4> QED BY <2>2, <3>2, <4>1 DEF Piece, Reads, n
    <3>3. CASE ~Wide!Whole(s, k)
      <4>1. K[k] = <<"replacement">> /\ nx[k] = k + 1
        BY <3>1, <3>3
      <4> HIDE DEF K, nx
      <4> QED BY <2>2, <3>3, <4>1 DEF Piece, Reads, n
    <3> QED BY <3>2, <3>3
  <2> QED BY <2>1, <2>2
<1> HIDE DEF K, nx
<1>4. PICK f : Pieced(f, N, n, K, nx)
  BY <1>n, <1>1, <1>2, PiecesExist
<1>5. f = [k \in 1..N |-> Reads(s, f, k)]
  BY <1>3, <1>4 DEF Pieced
<1> HIDE DEF L
<1>6. L = [k \in 1..N |-> Reads(s, L, k)]
  BY <1>5, Zenon DEF L, DecodeOf, N, n
<1>7. Pieced(L, N, n, K, nx)
  BY <1>3, <1>6 DEF Pieced
<1>8. \A k \in 1..N : L[k] \in Seq(WideUnits) /\ L[k] = Piece(L, n, K, nx, k)
  <2>1. Pieces(L, WideUnits, N, n, K, nx)
    BY <1>n, <1>1, <1>2, <1>7, PiecesAre, Zenon
  <2> QED BY <2>1 DEF Pieces
<1> QED BY <1>3, <1>8 DEF L, N, n

\* Bytes in front of others do not change how these are read.
LEMMA Shift ==
  ASSUME NEW b \in Seq(Bytes), NEW s \in Seq(Bytes)
  PROVE  \A k \in 1..Len(s) + 1 : DecodeOf(b \o s)[k + Len(b)] = DecodeOf(s)[k]
<1> DEFINE u == b \o s
           m == Len(b)
           n == Len(s)
           L == DecodeOf(s)
           M == DecodeOf(u)
<1>1. m \in Nat /\ n \in Nat /\ u \in Seq(Bytes) /\ Len(u) = m + n
  BY ConcatProperties
<1>2. \A k \in 1..n : u[k + m] = s[k]
  BY <1>1, ConcatProperties
<1>3. \A k \in 1..n + 4 : L[k] = Reads(s, L, k)
  BY DecodeRules
<1>4. \A k \in 1..Len(u) + 4 : M[k] = Reads(u, M, k)
  BY <1>1, DecodeRules
<1>b. \A k \in 1..n : Wide!SizeOf(s[k][1]) \in 1..4
  BY ByteIs
<1> HIDE DEF u, m, n, L, M
<1>5. \A k \in 1..n : Wide!Whole(u, k + m) <=> Wide!Whole(s, k)
  <2> TAKE k \in 1..n
  <2> DEFINE z == Wide!SizeOf(s[k][1])
  <2>1. u[k + m] = s[k] /\ z \in 1..4
    BY <1>2, <1>b
  <2> HIDE DEF z
  <2>2. (k + m) + z - 1 <= Len(u) <=> k + z - 1 <= n
    BY <1>1, <2>1
  <2>3. ASSUME k + z - 1 <= n
        PROVE  (\A j \in (k + m) + 1..(k + m) + z - 1 : u[j][2] > 1)
                 <=> \A j \in k + 1..k + z - 1 : s[j][2] > 1
    <3>1. \A j \in k + 1..k + z - 1 : u[j + m] = s[j] /\ j + m \in (k + m) + 1..(k + m) + z - 1
      BY <1>1, <1>2, <2>1, <2>3
    <3>2. \A j \in (k + m) + 1..(k + m) + z - 1 : j - m \in k + 1..k + z - 1 /\ (j - m) + m = j
      BY <1>1, <2>1
    <3> QED BY <3>1, <3>2, SMTT(30)
  <2>4. Wide!Whole(u, k + m) <=> /\ s[k][2] = 1 /\ (k + m) + z - 1 <= Len(u)
                                 /\ \A j \in (k + m) + 1..(k + m) + z - 1 : u[j][2] > 1
    BY <2>1 DEF Wide!Whole, z
  <2>5. Wide!Whole(s, k) <=> /\ s[k][2] = 1 /\ k + z - 1 <= n
                             /\ \A j \in k + 1..k + z - 1 : s[j][2] > 1
    BY DEF Wide!Whole, z, n
  <2> QED BY <2>2, <2>3, <2>4, <2>5
<1>6. \A k \in 1..n : Wide!Whole(s, k) => k + Wide!SizeOf(s[k][1]) \in 1..n + 1
  BY <1>1, <1>b, SMTT(30) DEF Wide!Whole, n
<1> DEFINE P == {d \in Nat : \A k \in 1..n + 1 : n + 1 - k <= d => M[k + m] = L[k]}
<1>7. 0 \in P
  <2> SUFFICES ASSUME NEW k \in 1..n + 1, n + 1 - k <= 0 PROVE M[k + m] = L[k]
    OBVIOUS
  <2>1. k = n + 1 /\ k > n /\ k \in 1..n + 4 /\ k + m > Len(u) /\ k + m \in 1..Len(u) + 4
    BY <1>1
  <2>2. L[k] = <<>>
    BY <1>3, <2>1 DEF Reads, n
  <2>3. M[k + m] = <<>>
    BY <1>4, <2>1 DEF Reads
  <2> QED BY <2>2, <2>3
<1>8. ASSUME NEW d \in Nat, d \in P PROVE d + 1 \in P
  <2> SUFFICES ASSUME NEW k \in 1..n + 1, n + 1 - k <= d + 1 PROVE M[k + m] = L[k]
    OBVIOUS
  <2>0. \A j \in 1..n + 1 : j > k => M[j + m] = L[j]
    BY <1>1, <1>8
  <2>1. CASE k = n + 1
    <3>1. n + 1 - k <= 0
      BY <1>1, <2>1
    <3>2. \A j \in 1..n + 1 : n + 1 - j <= 0 => M[j + m] = L[j]
      BY <1>7
    <3> QED BY <3>1, <3>2
  <2>2. CASE k # n + 1
    <3>1. /\ k \in 1..n /\ ~(k > Len(s)) /\ ~(k + m > Len(u))
          /\ k \in 1..n + 4 /\ k + m \in 1..Len(u) + 4
      BY <1>1, <2>2 DEF n
    <3>2. u[k + m] = s[k]
      BY <1>2, <3>1
    <3>3. CASE Wide!Whole(s, k)
      <4> DEFINE z == Wide!SizeOf(s[k][1])
      <4>1. z \in 1..4 /\ k + z \in 1..n + 1 /\ k + z > k
        BY <1>6, <1>b, <3>1, <3>3
      <4>2. M[(k + z) + m] = L[k + z]
        BY <2>0, <4>1
      <4>3. (k + m) + z = (k + z) + m
        BY <1>1, <4>1
      <4>4. L[k] = Wide!UnitsOf(s[k][1]) \o L[k + z]
        BY <1>3, <3>1, <3>3, Zenon DEF Reads, z
      <4>5. Wide!Whole(u, k + m)
        BY <1>5, <3>1, <3>3
      <4>6. M[k + m] = Wide!UnitsOf(s[k][1]) \o M[(k + m) + z]
        BY <1>4, <3>1, <3>2, <4>5, Zenon DEF Reads, z
      <4> HIDE DEF z
      <4> QED BY <4>2, <4>3, <4>4, <4>6
    <3>4. CASE ~Wide!Whole(s, k)
      <4>1. k + 1 \in 1..n + 1 /\ k + 1 > k /\ (k + m) + 1 = (k + 1) + m
        BY <1>1, <3>1
      <4>2. M[(k + 1) + m] = L[k + 1]
        BY <2>0, <4>1
      <4>4. L[k] = <<"replacement">> \o L[k + 1]
        BY <1>3, <3>1, <3>4, Zenon DEF Reads
      <4>5. ~Wide!Whole(u, k + m)
        BY <1>5, <3>1, <3>4
      <4>6. M[k + m] = <<"replacement">> \o M[(k + m) + 1]
        BY <1>4, <3>1, <4>5, Zenon DEF Reads
      <4> QED BY <4>1, <4>2, <4>4, <4>6
    <3> QED BY <3>3, <3>4
  <2> QED BY <2>1, <2>2
<1>9. Nat \subseteq P
  BY <1>7, <1>8, SetInduction
<1>10. \A k \in 1..n + 1 : M[k + m] = L[k]
  <2> TAKE k \in 1..n + 1
  <2>1. n + 1 - k \in Nat /\ n + 1 - k <= n + 1 - k
    BY <1>1
  <2>2. n + 1 - k \in P
    BY <1>9, <2>1
  <2> QED BY <2>1, <2>2
<1> QED BY <1>10 DEF u, m, n, L, M

LEMMA DecodeInUnits == \A s \in Seq(Bytes) : Wide!Utf8ToWide(s) \in Seq(WideUnits)
<1> TAKE s \in Seq(Bytes)
<1>1. 1 \in 1..Len(s) + 4
  OBVIOUS
<1> QED BY <1>1, DecodeRules, DecodeIs

LEMMA DecodeNothing == Wide!Utf8ToWide(<<>>) = <<>>
<1>1. <<>> \in Seq(Bytes) /\ Len(<<>>) = 0
  BY EmptySeq
<1>2. 1 \in 1..Len(<<>>) + 4 /\ 1 > Len(<<>>)
  BY <1>1
<1>3. DecodeOf(<<>>)[1] = Reads(<<>>, DecodeOf(<<>>), 1)
  BY <1>1, <1>2, DecodeRules
<1> QED BY <1>2, <1>3, DecodeIs DEF Reads

\* A character's bytes are read as the character.
LEMMA DecodeFirst ==
  ASSUME NEW c \in WideChars, NEW s \in Seq(Bytes)
  PROVE  Wide!Utf8ToWide(Wide!BytesOf(c) \o s) = Wide!UnitsOf(c) \o Wide!Utf8ToWide(s)
<1> DEFINE b == Wide!BytesOf(c)
           z == Wide!SizeOf(c)
           u == b \o s
<1>1. b \in Seq(Bytes) /\ Len(b) = z /\ \A j \in 1..z : b[j] = <<c, j>>
  BY BytesAre
<1>2. z \in 1..4 /\ Len(s) \in Nat
  BY SizeRange
<1> HIDE DEF b, z
<1>3. u \in Seq(Bytes) /\ Len(u) = z + Len(s) /\ \A j \in 1..z : u[j] = <<c, j>>
  <2>1. /\ u \in Seq(Bytes) /\ Len(u) = z + Len(s)
        /\ \A j \in 1..z + Len(s) : u[j] = IF j <= z THEN b[j] ELSE s[j - z]
    BY <1>1, ConcatProperties
  <2>2. \A j \in 1..z : j \in 1..z + Len(s) /\ j <= z
    BY <1>2
  <2> HIDE DEF u
  <2> QED BY <1>1, <2>1, <2>2
<1> HIDE DEF u
<1>4. u[1] = <<c, 1>> /\ u[1][1] = c /\ u[1][2] = 1
  BY <1>2, <1>3
<1>5. Wide!Whole(u, 1)
  <2>1. 1 + z - 1 <= Len(u)
    BY <1>2, <1>3
  <2>2. \A j \in 1 + 1..1 + z - 1 : u[j][2] > 1
    <3> TAKE j \in 1 + 1..1 + z - 1
    <3>1. j \in 1..z /\ j > 1
      BY <1>2
    <3>2. u[j] = <<c, j>>
      BY <1>3, <3>1
    <3> QED BY <3>1, <3>2
  <2> QED BY <1>4, <2>1, <2>2 DEF Wide!Whole, z
<1>6. 1 \in 1..Len(u) + 4 /\ ~(1 > Len(u)) /\ 1 \in 1..Len(s) + 1
  BY <1>2, <1>3
<1>7. DecodeOf(u)[1] = Reads(u, DecodeOf(u), 1)
  BY <1>3, <1>6, DecodeRules
<1>8. DecodeOf(u)[1] = Wide!UnitsOf(c) \o DecodeOf(u)[1 + z]
  BY <1>4, <1>5, <1>6, <1>7 DEF Reads, z
<1>9. DecodeOf(u)[1 + z] = DecodeOf(s)[1]
  BY <1>1, <1>6, Shift DEF u
<1> QED BY <1>8, <1>9, DecodeIs DEF u, b

Associate(x, y, z) == (x \o y) \o z = x \o (y \o z)

LEMMA Regroup ==
  ASSUME NEW S, NEW x \in Seq(S), NEW y \in Seq(S), NEW z \in Seq(S)
  PROVE  Associate(x, y, z)
  BY ConcatAssociative DEF Associate

\* A text's bytes are read as the text, and what follows as on its own.
LEMMA DecodeText ==
  ASSUME NEW t \in Seq(WideChars)
  PROVE  \A k \in 0..Len(t) : \A s \in Seq(Bytes) :
            Wide!Utf8ToWide(Utf8Of(t)[k] \o s) = Utf16Of(t)[k] \o Wide!Utf8ToWide(s)
<1> DEFINE A == Utf8Of(t)
           B == Utf16Of(t)
           E(s) == Wide!Utf8ToWide(s)
           n == Len(t)
<1>1. A[0] = <<>> /\ (\A k \in 0..n : A[k] \in Seq(Bytes))
      /\ \A k \in 1..n : A[k] = A[k - 1] \o Wide!BytesOf(t[k])
  BY Utf8Rules
<1>2. B[0] = <<>> /\ (\A k \in 0..n : B[k] \in Seq(WideUnits))
      /\ \A k \in 1..n : B[k] = B[k - 1] \o Wide!UnitsOf(t[k])
  BY Utf16Rules
<1>3. \A s \in Seq(Bytes) : E(s) \in Seq(WideUnits)
  BY DecodeInUnits
<1>4. \A k \in 1..n : /\ t[k] \in WideChars /\ Wide!BytesOf(t[k]) \in Seq(Bytes)
                     /\ Wide!UnitsOf(t[k]) \in Seq(WideUnits)
  BY BytesAre, UnitsAre
<1>5. \A k \in 1..n, s \in Seq(Bytes) :
         E(Wide!BytesOf(t[k]) \o s) = Wide!UnitsOf(t[k]) \o E(s)
  BY <1>4, DecodeFirst
<1>6. n \in Nat
  OBVIOUS
<1> HIDE DEF A, B, E, n
<1> DEFINE P == {k \in Nat : k <= n => \A s \in Seq(Bytes) : E(A[k] \o s) = B[k] \o E(s)}
<1>7. 0 \in P
  <2> SUFFICES ASSUME NEW s \in Seq(Bytes) PROVE E(A[0] \o s) = B[0] \o E(s)
    OBVIOUS
  <2>1. <<>> \o s = s /\ <<>> \o E(s) = E(s)
    BY <1>3, ConcatEmptySeq
  <2> QED BY <1>1, <1>2, <2>1
<1>8. ASSUME NEW k \in Nat, k \in P PROVE k + 1 \in P
  <2> SUFFICES ASSUME k + 1 <= n, NEW s \in Seq(Bytes) PROVE E(A[k + 1] \o s) = B[k + 1] \o E(s)
    OBVIOUS
  <2> DEFINE b == Wide!BytesOf(t[k + 1])
             w == Wide!UnitsOf(t[k + 1])
  <2>1. k + 1 \in 1..n /\ (k + 1) - 1 = k /\ k \in 0..n
    BY <1>6
  <2>2. /\ b \in Seq(Bytes) /\ w \in Seq(WideUnits) /\ A[k] \in Seq(Bytes) /\ B[k] \in Seq(WideUnits)
        /\ A[k + 1] = A[k] \o b /\ B[k + 1] = B[k] \o w /\ E(b \o s) = w \o E(s)
    BY <1>1, <1>2, <1>4, <1>5, <2>1
  <2> HIDE DEF b, w
  <2>3. b \o s \in Seq(Bytes) /\ E(s) \in Seq(WideUnits)
    BY <1>3, <2>2, ConcatProperties
  <2>4. A[k + 1] \o s = A[k] \o (b \o s) /\ B[k + 1] \o E(s) = B[k] \o (w \o E(s))
    <3> HIDE DEF P
    <3>1. Associate(A[k], b, s) /\ Associate(B[k], w, E(s))
      BY <2>2, <2>3, Regroup, Zenon
    <3> QED BY <2>2, <3>1 DEF Associate
  <2>5. E(A[k] \o (b \o s)) = B[k] \o E(b \o s)
    <3>1. k <= n
      BY <2>1
    <3> QED BY <1>8, <2>3, <3>1
  <2> QED BY <2>2, <2>4, <2>5
<1>9. Nat \subseteq P
  BY <1>7, <1>8, SetInduction
<1>10. \A k \in 0..n : \A s \in Seq(Bytes) : E(A[k] \o s) = B[k] \o E(s)
  <2>1. \A k \in 0..n : k \in P /\ k <= n
    BY <1>6, <1>9
  <2> QED BY <2>1
<1> QED BY <1>10 DEF A, B, E, n

\* utf8ToWide gives back the text that wideToUtf8, or the driver, wrote.
LEMMA TextReturns ==
  ASSUME NEW t \in Seq(WideChars)
  PROVE  /\ Wide!Utf8(t) \in Seq(Bytes) /\ Wide!Utf16(t) \in Seq(WideUnits)
         /\ Wide!Utf8ToWide(Wide!Utf8(t)) = Wide!Utf16(t)
<1>1. Len(t) \in 0..Len(t)
  OBVIOUS
<1>2. Wide!Utf8(t) = Utf8Of(t)[Len(t)] /\ Wide!Utf16(t) = Utf16Of(t)[Len(t)]
  BY Utf8Is
<1>3. Wide!Utf8(t) \in Seq(Bytes) /\ Wide!Utf16(t) \in Seq(WideUnits)
  BY <1>1, <1>2, Utf8Rules, Utf16Rules
<1>4. <<>> \in Seq(Bytes)
  BY EmptySeq
<1>5. Wide!Utf8ToWide(Wide!Utf8(t) \o <<>>) = Wide!Utf16(t) \o Wide!Utf8ToWide(<<>>)
  BY <1>1, <1>2, <1>4, DecodeText
<1>6. Wide!Utf8(t) \o <<>> = Wide!Utf8(t) /\ Wide!Utf16(t) \o <<>> = Wide!Utf16(t)
  BY <1>3, ConcatEmptySeq
<1> QED BY <1>3, <1>5, <1>6, DecodeNothing

-----------------------------------------------------------------------------
(* WideText: wideToUtf8 *)

Lone(x) == IF x \in {"high", "low"} THEN "replacement" ELSE x
Writes(w, f, k) ==
    IF k > Len(w) THEN <<>>
    ELSE IF Wide!PairAt(w, k) THEN Wide!BytesOf("four") \o f[k + 2]
    ELSE Wide!BytesOf(Lone(w[k])) \o f[k + 1]

EncodeOf(w) == CHOOSE f : f = [k \in 1..Len(w) + 2 |-> Writes(w, f, k)]

LEMMA EncodeIs == \A w : Wide!WideToUtf8(w) = EncodeOf(w)[1]
  BY DEF Wide!WideToUtf8, EncodeOf, Writes, Lone

LEMMA LoneIs == \A x \in Wide!Units : Lone(x) \in WideChars \ {"four"}
  BY DEF Wide!Units, WideChars, Lone

LEMMA EncodeRules ==
  ASSUME NEW w \in Seq(Wide!Units)
  PROVE  \A k \in 1..Len(w) + 2 :
            EncodeOf(w)[k] \in Seq(Bytes) /\ EncodeOf(w)[k] = Writes(w, EncodeOf(w), k)
<1> DEFINE n == Len(w)
           N == n + 2
           K == [k \in 1..n |-> IF Wide!PairAt(w, k) THEN Wide!BytesOf("four")
                                ELSE Wide!BytesOf(Lone(w[k]))]
           nx == [k \in 1..n |-> IF Wide!PairAt(w, k) THEN k + 2 ELSE k + 1]
           L == EncodeOf(w)
<1>n. n \in Nat /\ N \in Nat /\ n <= N
  OBVIOUS
<1>b. \A k \in 1..n : Wide!BytesOf(Lone(w[k])) \in Seq(Bytes)
  <2> TAKE k \in 1..n
  <2>1. Lone(w[k]) \in WideChars
    BY LoneIs
  <2> QED BY <2>1, BytesAre
<1>s. Wide!BytesOf("four") \in Seq(Bytes)
  <2>1. "four" \in WideChars
    BY DEF WideChars
  <2> QED BY <2>1, BytesAre
<1> HIDE DEF n
<1>1. K \in [1..n -> Seq(Bytes)]
  BY <1>b, <1>s
<1>2. nx \in [1..n -> 1..N] /\ \A k \in 1..n : nx[k] > k
  <2>1. \A k \in 1..n : k + 2 \in 1..N /\ k + 2 > k /\ k + 1 \in 1..N /\ k + 1 > k
    BY <1>n
  <2> HIDE DEF N
  <2> QED BY <2>1
<1> HIDE DEF N
<1>3. \A f : \A k \in 1..N : Piece(f, n, K, nx, k) = Writes(w, f, k)
  <2> TAKE f
  <2> TAKE k \in 1..N
  <2>1. CASE k > n
    BY <2>1, Zenon DEF Piece, Writes, n
  <2>2. CASE ~(k > n)
    <3>1. k \in 1..n
      BY <1>n, <2>2
    <3>2. CASE Wide!PairAt(w, k)
      <4>1. K[k] = Wide!BytesOf("four") /\ nx[k] = k + 2
        BY <3>1, <3>2
      <4> HIDE DEF K, nx
      <4> QED BY <2>2, <3>2, <4>1 DEF Piece, Writes, n
    <3>3. CASE ~Wide!PairAt(w, k)
      <4>1. K[k] = Wide!BytesOf(Lone(w[k])) /\ nx[k] = k + 1
        BY <3>1, <3>3
      <4> HIDE DEF K, nx
      <4> QED BY <2>2, <3>3, <4>1 DEF Piece, Writes, n
    <3> QED BY <3>2, <3>3
  <2> QED BY <2>1, <2>2
<1> HIDE DEF K, nx
<1>4. PICK f : Pieced(f, N, n, K, nx)
  BY <1>n, <1>1, <1>2, PiecesExist
<1>5. f = [k \in 1..N |-> Writes(w, f, k)]
  BY <1>3, <1>4 DEF Pieced
<1> HIDE DEF L
<1>6. L = [k \in 1..N |-> Writes(w, L, k)]
  BY <1>5, Zenon DEF L, EncodeOf, N, n
<1>7. Pieced(L, N, n, K, nx)
  BY <1>3, <1>6 DEF Pieced
<1>8. \A k \in 1..N : L[k] \in Seq(Bytes) /\ L[k] = Piece(L, n, K, nx, k)
  <2>1. Pieces(L, Bytes, N, n, K, nx)
    BY <1>n, <1>1, <1>2, <1>7, PiecesAre, Zenon
  <2> QED BY <2>1 DEF Pieces
<1> QED BY <1>3, <1>8 DEF L, N, n

\* A sequence from k on is its first elements and the rest.
LEMMA OneAndRest ==
  ASSUME NEW S, NEW r \in Seq(S), NEW k \in 1..Len(r), NEW x, x = r[k]
  PROVE  <<x>> \o SubSeq(r, k + 1, Len(r)) = SubSeq(r, k, Len(r))
<1>1. Len(r) \in k..Len(r)
  OBVIOUS
<1> QED BY <1>1, SubSeqRecursiveFirst

LEMMA TwoAndRest ==
  ASSUME NEW S, NEW r \in Seq(S), NEW k \in 1..Len(r), k < Len(r), NEW x, NEW y, x = r[k], y = r[k + 1]
  PROVE  <<x, y>> \o SubSeq(r, k + 2, Len(r)) = SubSeq(r, k, Len(r))
<1> DEFINE z == SubSeq(r, k + 2, Len(r))
<1>1. k + 1 \in 1..Len(r) /\ (k + 1) + 1 = k + 2 /\ x \in S /\ y \in S
  OBVIOUS
<1>2. <<y>> \o z = SubSeq(r, k + 1, Len(r)) /\ <<x>> \o SubSeq(r, k + 1, Len(r)) = SubSeq(r, k, Len(r))
  BY <1>1, OneAndRest
<1>3. z \in Seq(S)
  OBVIOUS
<1> HIDE DEF z
<1>4. Associate(<<x>>, <<y>>, z)
  <2>1. <<x>> \in Seq(S) /\ <<y>> \in Seq(S)
    BY <1>1
  <2> QED BY <1>3, <2>1, Regroup, Zenon
<1>5. <<x>> \o <<y>> = <<x, y>>
  <2> DEFINE a == <<x>> \o <<y>>
             b == <<x, y>>
  <2>1. a \in Seq(S) /\ Len(a) = 2 /\ a[1] = x /\ a[2] = y
    <3>1. <<x>> \in Seq(S) /\ <<y>> \in Seq(S) /\ Len(<<x>>) = 1 /\ Len(<<y>>) = 1
      BY <1>1
    <3>2. /\ a \in Seq(S) /\ Len(a) = 1 + 1
          /\ \A j \in 1..1 + 1 : a[j] = IF j <= 1 THEN <<x>>[j] ELSE <<y>>[j - 1]
      BY <3>1, ConcatProperties
    <3> HIDE DEF a
    <3> QED BY <3>2
  <2>2. b \in Seq(S) /\ Len(b) = 2 /\ b[1] = x /\ b[2] = y
    BY <1>1
  <2> HIDE DEF a, b
  <2>3. a = b
    <3>1. \A j \in 1..Len(a) : a[j] = b[j]
      <4>1. \A j \in 1..Len(a) : j = 1 \/ j = 2
        BY <2>1
      <4> QED BY <2>1, <2>2, <4>1
    <3> QED BY <2>1, <2>2, <3>1, SeqEqual
  <2> QED BY <2>3 DEF a, b
<1> QED BY <1>2, <1>4, <1>5 DEF Associate, z

\* Replaced, of any text.
PairIn(w, k) == k \in 1..Len(w) - 1 /\ w[k] = "high" /\ w[k + 1] = "low"
LoneIn(w, k) == w[k] \in {"high", "low"} /\ ~PairIn(w, k) /\ ~PairIn(w, k - 1)
ReplacedIn(w) == [k \in DOMAIN w |-> IF LoneIn(w, k) THEN "replacement" ELSE w[k]]

LEMMA ReplacedIs == Wide!Replaced = ReplacedIn(text)
  BY DEF Wide!Replaced, ReplacedIn, LoneIn, PairIn

\* What wideToUtf8 writes is read as the text it was written for.
LEMMA EncodeReturns ==
  ASSUME NEW w \in Seq(Wide!Units)
  PROVE  /\ Wide!WideToUtf8(w) \in Seq(Bytes)
         /\ Wide!Utf8ToWide(Wide!WideToUtf8(w)) = ReplacedIn(w)
<1> DEFINE n == Len(w)
           L == EncodeOf(w)
           R == ReplacedIn(w)
           E(s) == Wide!Utf8ToWide(s)
<1>n. n \in Nat /\ \A k \in 1..n : w[k] \in Wide!Units
  OBVIOUS
<1>1. \A k \in 1..n + 2 : L[k] \in Seq(Bytes) /\ L[k] = Writes(w, L, k)
  BY EncodeRules
<1>2. R \in Seq(WideUnits) /\ Len(R) = n
      /\ \A k \in 1..n : R[k] = IF LoneIn(w, k) THEN "replacement" ELSE w[k]
  <2>1. DOMAIN w = 1..n /\ R = [k \in 1..n |-> IF LoneIn(w, k) THEN "replacement" ELSE w[k]]
    BY DEF ReplacedIn
  <2>2. \A k \in 1..n : w[k] \in WideUnits
    BY DEF Wide!Units, WideUnits
  <2>3. "replacement" \in WideUnits
    BY DEF WideUnits
  <2> HIDE DEF n, R
  <2>4. R \in [1..n -> WideUnits]
    BY <2>1, <2>2, <2>3
  <2>5. R \in Seq(WideUnits)
    BY <1>n, <2>4, SeqDef
  <2> QED BY <1>n, <2>1, <2>5
<1>3. \A k \in 1..n : Wide!PairAt(w, k) <=> PairIn(w, k)
  BY <1>n DEF Wide!PairAt, PairIn
<1>4. \A c \in WideChars, s \in Seq(Bytes) : E(Wide!BytesOf(c) \o s) = Wide!UnitsOf(c) \o E(s)
  BY DecodeFirst
<1> HIDE DEF L, R, E, n
<1> DEFINE Q(k) == ~PairIn(w, k - 1) => E(L[k]) = SubSeq(R, k, n)
<1>5. Q(n + 1)
  <2>1. n + 1 \in 1..n + 2 /\ n + 1 > n
    BY <1>n
  <2>2. L[n + 1] = <<>>
    BY <1>1, <2>1 DEF Writes, n
  <2>3. SubSeq(R, n + 1, n) = <<>>
    BY <1>n, SubSeqEmpty
  <2> QED BY <2>2, <2>3, DecodeNothing DEF E
<1>6. ASSUME NEW k \in 1..n, \A j \in 1..n + 1 : j > k => Q(j) PROVE Q(k)
  <2> SUFFICES ASSUME ~PairIn(w, k - 1) PROVE E(L[k]) = SubSeq(R, k, n)
    OBVIOUS
  <2>1. L[k] = Writes(w, L, k) /\ ~(k > Len(w))
    BY <1>1, <1>n DEF n
  <2>2. CASE PairIn(w, k)
    <3>1. k + 1 \in 1..n /\ k + 2 \in 1..n + 1 /\ k + 2 > k /\ (k + 2) - 1 = k + 1 /\ k < n
          /\ w[k] = "high" /\ w[k + 1] = "low" /\ (k + 1) - 1 = k /\ k + 2 \in 1..n + 2
      BY <1>n, <2>2 DEF PairIn, n
    <3>2. ~PairIn(w, k + 1)
      BY <3>1 DEF PairIn
    <3>3. E(L[k + 2]) = SubSeq(R, k + 2, n)
      BY <1>6, <3>1, <3>2
    <3>4. L[k] = Wide!BytesOf("four") \o L[k + 2]
      BY <1>3, <2>1, <2>2 DEF Writes
    <3>5. E(L[k]) = <<"high", "low">> \o SubSeq(R, k + 2, n)
      <4>1. "four" \in WideChars /\ L[k + 2] \in Seq(Bytes)
        BY <1>1, <3>1 DEF WideChars
      <4> QED BY <1>4, <3>3, <3>4, <4>1, UnitsAre
    <3>6. R[k] = "high" /\ R[k + 1] = "low"
      <4>1. ~LoneIn(w, k) /\ ~LoneIn(w, k + 1)
        BY <2>2, <3>1 DEF LoneIn
      <4> QED BY <1>2, <3>1, <4>1
    <3>7. <<"high", "low">> \o SubSeq(R, k + 2, Len(R)) = SubSeq(R, k, Len(R))
      <4>1. k \in 1..Len(R) /\ k < Len(R)
        BY <1>2, <3>1
      <4> QED BY <1>2, <3>6, <4>1, TwoAndRest
    <3> QED BY <1>2, <3>5, <3>7
  <2>3. CASE ~PairIn(w, k)
    <3>1. k + 1 \in 1..n + 1 /\ k + 1 > k /\ (k + 1) - 1 = k /\ k + 1 \in 1..n + 2
      BY <1>n
    <3>3. E(L[k + 1]) = SubSeq(R, k + 1, n)
      BY <1>6, <2>3, <3>1
    <3>4. L[k] = Wide!BytesOf(Lone(w[k])) \o L[k + 1]
      BY <1>3, <2>1, <2>3 DEF Writes
    <3>5. Lone(w[k]) \in WideChars \ {"four"}
      BY <1>n, LoneIs
    <3>6. E(L[k]) = <<Lone(w[k])>> \o SubSeq(R, k + 1, n)
      <4>1. L[k + 1] \in Seq(Bytes)
        BY <1>1, <3>1
      <4>2. E(Wide!BytesOf(Lone(w[k])) \o L[k + 1]) = Wide!UnitsOf(Lone(w[k])) \o E(L[k + 1])
        BY <1>4, <3>5, <4>1
      <4> QED BY <3>3, <3>4, <3>5, <4>2, UnitsAre
    <3>7. R[k] = Lone(w[k])
      BY <1>2, <2>3 DEF LoneIn, Lone
    <3>8. <<Lone(w[k])>> \o SubSeq(R, k + 1, Len(R)) = SubSeq(R, k, Len(R))
      <4>1. k \in 1..Len(R)
        BY <1>2
      <4> QED BY <1>2, <3>7, <4>1, OneAndRest
    <3> QED BY <1>2, <3>6, <3>8
  <2> QED BY <2>2, <2>3
<1> HIDE DEF Q
<1> DEFINE P == {d \in Nat : \A k \in 1..n + 1 : n + 1 - k <= d => Q(k)}
<1>7. 0 \in P
  <2> SUFFICES ASSUME NEW k \in 1..n + 1, n + 1 - k <= 0 PROVE Q(k)
    OBVIOUS
  <2>1. k = n + 1
    BY <1>n
  <2> QED BY <1>5, <2>1
<1>8. ASSUME NEW d \in Nat, d \in P PROVE d + 1 \in P
  <2> SUFFICES ASSUME NEW k \in 1..n + 1, n + 1 - k <= d + 1 PROVE Q(k)
    OBVIOUS
  <2>1. \A j \in 1..n + 1 : j > k => n + 1 - j <= d
    BY <1>n
  <2>2. \A j \in 1..n + 1 : j > k => Q(j)
    BY <1>8, <2>1
  <2>3. k \in 1..n \/ k = n + 1
    BY <1>n
  <2> QED BY <1>5, <1>6, <2>2, <2>3
<1>9. Nat \subseteq P
  BY <1>7, <1>8, SetInduction
<1>10. Q(1)
  <2>1. 1 \in 1..n + 1 /\ n + 1 - 1 <= n
    BY <1>n
  <2>2. \A d \in Nat : d \in P
    BY <1>9
  <2>3. \A d \in Nat : \A k \in 1..n + 1 : n + 1 - k <= d => Q(k)
    BY <2>2
  <2> QED BY <1>n, <2>1, <2>3
<1>11. E(L[1]) = R
  <2>1. ~PairIn(w, 1 - 1)
    BY DEF PairIn
  <2>2. SubSeq(R, 1, Len(R)) = R
    BY <1>2, SubSeqFull
  <2> QED BY <1>2, <1>10, <2>1, <2>2 DEF Q
<1>12. L[1] \in Seq(Bytes)
  BY <1>1, <1>n
<1> QED BY <1>11, <1>12, EncodeIs DEF L, R, E

-----------------------------------------------------------------------------
(* WideText: a text cut off *)

\* What is put together only grows, and keeps its beginning.
Extends(a, b) == Len(a) <= Len(b) /\ \A q \in 1..Len(a) : b[q] = a[q]

LEMMA Grows ==
  ASSUME NEW S, NEW n \in Nat, NEW f, NEW g, \A k \in 0..n : f[k] \in Seq(S),
         \A k \in 1..n : g[k] \in Seq(S) /\ f[k] = f[k - 1] \o g[k]
  PROVE  \A j \in 0..n, k \in 0..n : j <= k => Extends(f[j], f[k])
<1> SUFFICES ASSUME NEW j \in 0..n PROVE \A k \in 0..n : j <= k => Extends(f[j], f[k])
  OBVIOUS
<1>1. f[j] \in Seq(S) /\ Extends(f[j], f[j])
  BY DEF Extends
<1>2. ASSUME NEW k \in 0..n, k + 1 \in 1..n, Extends(f[j], f[k])
      PROVE  Extends(f[j], f[k + 1])
  <2> DEFINE a == f[j]
             b == f[k]
             c == g[k + 1]
             d == f[k + 1]
  <2>0. (k + 1) - 1 = k
    OBVIOUS
  <2>1. a \in Seq(S) /\ b \in Seq(S) /\ c \in Seq(S)
    BY <1>2, Zenon
  <2>2. d = b \o c
    BY <1>2, <2>0
  <2> HIDE DEF a, b, c, d
  <2>3. /\ Len(d) = Len(b) + Len(c)
        /\ \A q \in 1..Len(b) + Len(c) : d[q] = IF q <= Len(b) THEN b[q] ELSE c[q - Len(b)]
    BY <2>1, <2>2, ConcatProperties
  <2>4. Len(a) <= Len(b) /\ \A q \in 1..Len(a) : b[q] = a[q]
    BY <1>2 DEF Extends, a, b
  <2>5. Len(a) \in Nat /\ Len(b) \in Nat /\ Len(c) \in Nat
    BY <2>1
  <2>6. \A q \in 1..Len(a) : d[q] = a[q]
    BY <2>3, <2>4, <2>5
  <2> QED BY <2>3, <2>4, <2>5, <2>6 DEF Extends, a, d
<1> DEFINE P == {z \in Nat : j + z <= n => Extends(f[j], f[j + z])}
<1>3. 0 \in P
  BY <1>1
<1>4. ASSUME NEW z \in Nat, z \in P PROVE z + 1 \in P
  <2> SUFFICES ASSUME j + (z + 1) <= n PROVE Extends(f[j], f[j + (z + 1)])
    OBVIOUS
  <2>1. j + z \in 0..n /\ (j + z) + 1 \in 1..n /\ j + (z + 1) = (j + z) + 1 /\ j + z <= n
    OBVIOUS
  <2>2. Extends(f[j], f[j + z])
    BY <1>4, <2>1
  <2> HIDE DEF P
  <2> QED BY <1>2, <2>1, <2>2
<1>5. Nat \subseteq P
  <2> HIDE DEF P
  <2> QED BY <1>3, <1>4, SetInduction
<1>6. \A z \in Nat : j + z <= n => Extends(f[j], f[j + z])
  BY <1>5
<1> QED
  <2> TAKE k \in 0..n
  <2> HAVE j <= k
  <2>1. k - j \in Nat /\ j + (k - j) = k /\ k <= n
    OBVIOUS
  <2>2. Extends(f[j], f[j + (k - j)])
    BY <1>6, <2>1
  <2> QED BY <2>1, <2>2

\* Where a place within the whole falls: in one of the pieces.
LEMMA FallsIn ==
  ASSUME NEW n \in Nat, NEW h, h[0] = 0, \A k \in 0..n : h[k] \in Nat, NEW m \in Nat, m < h[n]
  PROVE  \E j \in 0..n - 1 : h[j] <= m /\ m < h[j + 1]
<1> SUFFICES ASSUME \A j \in 0..n - 1 : ~(h[j] <= m /\ m < h[j + 1]) PROVE FALSE
  OBVIOUS
<1> DEFINE P == {k \in Nat : k <= n => h[k] <= m}
<1>1. 0 \in P
  OBVIOUS
<1>2. ASSUME NEW k \in Nat, k \in P PROVE k + 1 \in P
  <2> SUFFICES ASSUME k + 1 <= n PROVE h[k + 1] <= m
    OBVIOUS
  <2>1. k \in 0..n - 1 /\ k <= n /\ k + 1 \in 0..n
    OBVIOUS
  <2>2. h[k] <= m
    BY <1>2, <2>1
  <2>3. h[k + 1] \in Nat /\ ~(m < h[k + 1])
    BY <2>1, <2>2
  <2> QED BY <2>3
<1>3. Nat \subseteq P
  <2> HIDE DEF P
  <2> QED BY <1>1, <1>2, SetInduction
<1>4. \A k \in Nat : k <= n => h[k] <= m
  BY <1>3
<1> QED BY <1>4

\* Of a character that is not all there, the first unit read is a replacement.
LEMMA Incomplete ==
  ASSUME NEW c \in WideChars, NEW r \in Nat, r < Wide!SizeOf(c),
         NEW y, y = Wide!Utf8ToWide(SubSeq(Wide!BytesOf(c), 1, r))
  PROVE  y = <<>> \/ (Len(y) \in Nat \ {0} /\ y[1] = "replacement")
<1> DEFINE b == Wide!BytesOf(c)
           z == Wide!SizeOf(c)
           u == SubSeq(b, 1, r)
<1>1. b \in Seq(Bytes) /\ Len(b) = z /\ z \in 1..4 /\ \A q \in 1..z : b[q] = <<c, q>>
  BY BytesAre, SizeRange
<1> HIDE DEF b, z
<1>2. CASE r = 0
  <2>1. u = <<>>
    BY <1>2, SubSeqEmpty
  <2> QED BY <2>1, DecodeNothing DEF b
<1>3. CASE r # 0
  <2>1. \A q \in 1..r : b[q] \in Bytes
    BY <1>1 DEF z
  <2>2. u \in Seq(Bytes) /\ Len(u) = r /\ u[1] = b[1]
    <3>1. /\ u \in Seq(Bytes) /\ Len(u) = IF 1 <= r THEN r - 1 + 1 ELSE 0
          /\ \A q \in 1..r - 1 + 1 : u[q] = b[1 + q - 1]
      BY <2>1, SubSeqProperties
    <3> HIDE DEF u
    <3> QED BY <1>3, <3>1
  <2> HIDE DEF u
  <2>3. u[1] = <<c, 1>> /\ u[1][1] = c
    BY <1>1, <2>2
  <2>4. ~Wide!Whole(u, 1)
    <3>1. ~(1 + z - 1 <= r)
      BY <1>1 DEF z
    <3> QED BY <2>2, <2>3, <3>1 DEF Wide!Whole, z
  <2>5. 1 \in 1..Len(u) + 4 /\ 2 \in 1..Len(u) + 4 /\ ~(1 > Len(u)) /\ 1 + 1 = 2
    BY <1>3, <2>2
  <2>6. DecodeOf(u)[1] = Reads(u, DecodeOf(u), 1) /\ DecodeOf(u)[2] \in Seq(WideUnits)
    BY <2>2, <2>5, DecodeRules
  <2>7. DecodeOf(u)[1] = <<"replacement">> \o DecodeOf(u)[2]
    BY <2>4, <2>5, <2>6 DEF Reads
  <2>8. y = DecodeOf(u)[1]
    BY DecodeIs DEF u, b
  <2> DEFINE x == DecodeOf(u)[2]
             e == <<"replacement">>
  <2>9. e \in Seq(WideUnits) /\ Len(e) = 1 /\ e[1] = "replacement" /\ x \in Seq(WideUnits)
    BY <2>6 DEF WideUnits
  <2>10. y = e \o x
    BY <2>7, <2>8
  <2> HIDE DEF e, x
  <2>11. /\ Len(y) = Len(e) + Len(x) /\ Len(x) \in Nat
         /\ \A q \in 1..Len(e) + Len(x) : y[q] = IF q <= Len(e) THEN e[q] ELSE x[q - Len(e)]
    <3>1. Len(x) \in Nat
      BY <2>9
    <3>2. /\ Len(e \o x) = Len(e) + Len(x)
          /\ \A q \in 1..Len(e) + Len(x) : (e \o x)[q] = IF q <= Len(e) THEN e[q] ELSE x[q - Len(e)]
      BY <2>9, ConcatProperties
    <3> QED BY <2>10, <3>1, <3>2
  <2>12. 1 \in 1..Len(e) + Len(x) /\ 1 <= Len(e)
    BY <2>9, <2>11
  <2> QED BY <2>9, <2>11, <2>12
<1> QED BY <1>2, <1>3

\* The first m bytes of a text: all those of its first characters, and some of
\* the next.
LEMMA CutBytes ==
  ASSUME NEW t \in Seq(WideChars), NEW m \in Nat, m < Len(Wide!Utf8(t))
  PROVE  \E j \in 0..Len(t) - 1 : \E r \in Nat :
            /\ r < Wide!SizeOf(t[j + 1])
            /\ SubSeq(Wide!Utf8(t), 1, m) = Utf8Of(t)[j] \o SubSeq(Wide!BytesOf(t[j + 1]), 1, r)
<1> DEFINE A == Utf8Of(t)
           n == Len(t)
           g == [k \in 1..n |-> Wide!BytesOf(t[k])]
           h == [k \in 0..n |-> Len(A[k])]
<1>n. n \in Nat /\ \A k \in 1..n : t[k] \in WideChars
  OBVIOUS
<1>1. /\ A[0] = <<>> /\ \A k \in 0..n : A[k] \in Seq(Bytes)
      /\ \A k \in 1..n : A[k] = A[k - 1] \o Wide!BytesOf(t[k])
  BY Utf8Rules
<1>2. Wide!Utf8(t) = A[n]
  BY Utf8Is
<1>3. \A k \in 1..n : /\ g[k] = Wide!BytesOf(t[k]) /\ g[k] \in Seq(Bytes)
                     /\ Len(g[k]) = Wide!SizeOf(t[k])
  BY <1>n, BytesAre
<1> HIDE DEF A, n, g
<1>4. \A k \in 1..n : g[k] \in Seq(Bytes) /\ A[k] = A[k - 1] \o g[k]
  BY <1>1, <1>3
<1>5. \A j \in 0..n, k \in 0..n : j <= k => Extends(A[j], A[k])
  BY <1>n, <1>1, <1>4, Grows, Zenon
<1>6. \E j \in 0..n - 1 : Len(A[j]) <= m /\ m < Len(A[j + 1])
  <2>1. h[0] = 0 /\ \A k \in 0..n : h[k] \in Nat /\ h[k] = Len(A[k])
    BY <1>n, <1>1, EmptySeq
  <2>2. m < h[n]
    BY <1>n, <1>2, <2>1
  <2> HIDE DEF h
  <2>3. \E j \in 0..n - 1 : h[j] <= m /\ m < h[j + 1]
    BY <1>n, <2>1, <2>2, FallsIn
  <2>4. \A j \in 0..n - 1 : j \in 0..n /\ j + 1 \in 0..n
    BY <1>n
  <2> QED BY <2>1, <2>3, <2>4
<1>7. PICK j \in 0..n - 1 : Len(A[j]) <= m /\ m < Len(A[j + 1])
  BY <1>6
<1> DEFINE a == A[j]
           b == g[j + 1]
           d == A[j + 1]
           w == A[n]
           r == m - Len(a)
           x == SubSeq(b, 1, r)
<1>8. /\ j \in 0..n /\ j + 1 \in 1..n /\ j + 1 \in 0..n /\ n \in 0..n /\ j + 1 <= n
      /\ (j + 1) - 1 = j
  BY <1>n
<1>9. /\ a \in Seq(Bytes) /\ b \in Seq(Bytes) /\ d \in Seq(Bytes) /\ w \in Seq(Bytes)
      /\ d = a \o b /\ Extends(d, w)
  BY <1>1, <1>4, <1>5, <1>8
<1>10. Len(a) <= m /\ m < Len(d) /\ Len(b) = Wide!SizeOf(t[j + 1]) /\ b = Wide!BytesOf(t[j + 1])
  BY <1>3, <1>7, <1>8
<1> HIDE DEF a, b, d, w
<1>11. /\ Len(d) = Len(a) + Len(b) /\ Len(a) \in Nat /\ Len(b) \in Nat /\ Len(w) \in Nat
       /\ \A q \in 1..Len(a) + Len(b) : d[q] = IF q <= Len(a) THEN a[q] ELSE b[q - Len(a)]
  <2>1. Len(a) \in Nat /\ Len(b) \in Nat /\ Len(w) \in Nat
    BY <1>9
  <2>2. /\ Len(a \o b) = Len(a) + Len(b)
        /\ \A q \in 1..Len(a) + Len(b) : (a \o b)[q] = IF q <= Len(a) THEN a[q] ELSE b[q - Len(a)]
    BY <1>9, ConcatProperties
  <2> QED BY <1>9, <2>1, <2>2
<1>12. r \in Nat /\ r < Len(b) /\ m = Len(a) + r
  BY <1>10, <1>11
<1> HIDE DEF r
<1>13. Len(d) <= Len(w) /\ \A q \in 1..Len(d) : w[q] = d[q]
  BY <1>9 DEF Extends
<1> DEFINE u == SubSeq(w, 1, m)
           c == a \o x
<1>14. u \in Seq(Bytes) /\ Len(u) = m /\ \A q \in 1..m : u[q] = w[q]
  <2>1. \A q \in 1..m : w[q] \in Bytes
    BY <1>9, <1>10, <1>11, <1>13
  <2>2. /\ u \in Seq(Bytes) /\ Len(u) = IF 1 <= m THEN m - 1 + 1 ELSE 0
        /\ \A q \in 1..m - 1 + 1 : u[q] = w[1 + q - 1]
    BY <2>1, SubSeqProperties
  <2> HIDE DEF u
  <2> QED BY <2>2
<1>15. x \in Seq(Bytes) /\ Len(x) = r /\ \A q \in 1..r : x[q] = b[q]
  <2>1. \A q \in 1..r : b[q] \in Bytes
    BY <1>9, <1>12
  <2>2. /\ x \in Seq(Bytes) /\ Len(x) = IF 1 <= r THEN r - 1 + 1 ELSE 0
        /\ \A q \in 1..r - 1 + 1 : x[q] = b[1 + q - 1]
    BY <1>12, <2>1, SubSeqProperties
  <2> HIDE DEF x
  <2> QED BY <1>12, <2>2
<1> HIDE DEF u, x
<1>16. /\ c \in Seq(Bytes) /\ Len(c) = m
       /\ \A q \in 1..m : c[q] = IF q <= Len(a) THEN a[q] ELSE x[q - Len(a)]
  <2>1. /\ c \in Seq(Bytes) /\ Len(c) = Len(a) + Len(x)
        /\ \A q \in 1..Len(a) + Len(x) : c[q] = IF q <= Len(a) THEN a[q] ELSE x[q - Len(a)]
    BY <1>9, <1>15, ConcatProperties
  <2> HIDE DEF c
  <2> QED BY <1>12, <1>15, <2>1
<1> HIDE DEF c
<1>17. u = c
  <2>1. \A q \in 1..m : u[q] = c[q]
    <3> TAKE q \in 1..m
    <3>0. q \in 1..Len(d) /\ q \in 1..Len(a) + Len(b)
      BY <1>10, <1>11
    <3>1. u[q] = d[q] /\ d[q] = IF q <= Len(a) THEN a[q] ELSE b[q - Len(a)]
      <4>1. u[q] = w[q] /\ w[q] = d[q]
        BY <1>13, <1>14, <3>0
      <4>2. d[q] = IF q <= Len(a) THEN a[q] ELSE b[q - Len(a)]
        BY <1>11, <3>0
      <4> QED BY <4>1, <4>2
    <3>2. CASE q <= Len(a)
      BY <1>16, <3>1, <3>2
    <3>3. CASE ~(q <= Len(a))
      <4>1. q - Len(a) \in 1..r
        BY <1>11, <1>12, <3>3
      <4>2. x[q - Len(a)] = b[q - Len(a)]
        BY <1>15, <4>1
      <4> QED BY <1>16, <3>1, <3>3, <4>2
    <3> QED BY <3>2, <3>3
  <2> QED BY <1>14, <1>16, <2>1, SeqEqual
<1>18. SubSeq(Wide!Utf8(t), 1, m) = Utf8Of(t)[j] \o SubSeq(Wide!BytesOf(t[j + 1]), 1, r)
  BY <1>2, <1>10, <1>17 DEF u, c, x, w, a, A
<1>19. j \in 0..Len(t) - 1
  BY DEF n
<1> QED BY <1>10, <1>12, <1>18, <1>19, Zenon

\* A text that the driver's own buffer cuts off is not read as the whole text,
\* and what is read does not begin with it.
LEMMA CutShort ==
  ASSUME NEW t \in Seq(Wide!Characters), NEW m \in Nat, m < Len(Wide!Utf8(t)),
         NEW o, Extends(o, Wide!Utf8ToWide(SubSeq(Wide!Utf8(t), 1, m)))
  PROVE  o # Wide!Utf16(t)
<1> SUFFICES ASSUME o = Wide!Utf16(t) PROVE FALSE
  OBVIOUS
<1> DEFINE B == Utf16Of(t)
           n == Len(t)
           s == Wide!Utf8ToWide(SubSeq(Wide!Utf8(t), 1, m))
<1>n. /\ n \in Nat /\ t \in Seq(WideChars)
      /\ \A k \in 1..n : t[k] \in WideChars /\ t[k] # "replacement"
  <2>1. n \in Nat /\ \A k \in 1..n : t[k] \in Wide!Characters
    OBVIOUS
  <2>2. Wide!Characters \subseteq WideChars /\ "replacement" \notin Wide!Characters
    BY DEF Wide!Characters, WideChars
  <2>3. t \in Seq(WideChars)
    BY <2>2, SeqMonotonic
  <2> QED BY <2>1, <2>2, <2>3
<1>1. PICK j \in 0..n - 1, r \in Nat :
            /\ r < Wide!SizeOf(t[j + 1])
            /\ SubSeq(Wide!Utf8(t), 1, m) = Utf8Of(t)[j] \o SubSeq(Wide!BytesOf(t[j + 1]), 1, r)
  BY <1>n, CutBytes
<1> DEFINE ch == t[j + 1]
           x == SubSeq(Wide!BytesOf(ch), 1, r)
           y == Wide!Utf8ToWide(x)
           u == Wide!UnitsOf(ch)
<1>2. /\ j \in 0..n /\ j + 1 \in 1..n /\ j + 1 \in 0..n /\ n \in 0..n /\ j + 1 <= n
      /\ (j + 1) - 1 = j
  BY <1>n
<1>3. ch \in WideChars /\ ch # "replacement" /\ r < Wide!SizeOf(ch)
  BY <1>n, <1>1, <1>2
<1>4. /\ \A k \in 0..n : B[k] \in Seq(WideUnits)
      /\ \A k \in 1..n : B[k] = B[k - 1] \o Wide!UnitsOf(t[k]) /\ Wide!UnitsOf(t[k]) \in Seq(WideUnits)
  BY <1>n, Utf16Rules, UnitsAre
<1>5. Wide!Utf16(t) = B[n]
  BY Utf8Is
<1>6. u \in Seq(WideUnits) /\ Len(u) >= 1 /\ u[1] # "replacement"
  <2>1. u \in Seq(WideUnits)
    BY <1>3, UnitsAre
  <2>2. CASE ch = "four"
    <3>1. u = <<"high", "low">>
      BY <2>2, UnitsAre
    <3> HIDE DEF u
    <3> QED BY <2>1, <3>1
  <2>3. CASE ch # "four"
    <3>1. u = <<ch>>
      BY <1>3, <2>3, UnitsAre
    <3> HIDE DEF u, ch
    <3> QED BY <1>3, <2>1, <3>1
  <2> QED BY <2>2, <2>3
<1>7. x \in Seq(Bytes)
  <2> DEFINE b == Wide!BytesOf(ch)
  <2>1. b \in Seq(Bytes) /\ Len(b) = Wide!SizeOf(ch) /\ Wide!SizeOf(ch) \in 1..4
    BY <1>3, BytesAre, SizeRange
  <2> HIDE DEF b, ch
  <2>2. \A q \in 1..r : b[q] \in Bytes
    BY <1>3, <2>1
  <2> QED BY <2>2, SubSeqProperties DEF b
<1>8. s = B[j] \o y /\ y \in Seq(WideUnits)
  <2>1. Wide!Utf8ToWide(Utf8Of(t)[j] \o x) = Utf16Of(t)[j] \o Wide!Utf8ToWide(x)
    BY <1>n, <1>2, <1>7, DecodeText
  <2> QED BY <1>1, <1>7, <2>1, DecodeInUnits
<1>9. y = <<>> \/ (Len(y) \in Nat \ {0} /\ y[1] = "replacement")
  BY <1>3, Incomplete
<1> HIDE DEF n, B, s, u, y, x, ch
<1>10. Extends(B[j + 1], B[n])
  <2> DEFINE g == [k \in 1..n |-> Wide!UnitsOf(t[k])]
  <2>1. \A k \in 1..n : g[k] \in Seq(WideUnits) /\ B[k] = B[k - 1] \o g[k]
    BY <1>4
  <2> HIDE DEF g
  <2>2. \A i1 \in 0..n, i2 \in 0..n : i1 <= i2 => Extends(B[i1], B[i2])
    BY <1>n, <1>4, <2>1, Grows, Zenon
  <2> QED BY <1>2, <2>2
<1> DEFINE a == B[j]
           d == B[j + 1]
           w == B[n]
<1>11. /\ a \in Seq(WideUnits) /\ d \in Seq(WideUnits) /\ w \in Seq(WideUnits)
       /\ d = a \o u /\ s = a \o y /\ Extends(d, w) /\ Extends(w, s)
  <2>1. B[j] \in Seq(WideUnits) /\ B[j + 1] \in Seq(WideUnits) /\ B[n] \in Seq(WideUnits)
    BY <1>2, <1>4
  <2>2. B[j + 1] = B[j] \o u
    BY <1>2, <1>4 DEF u, ch
  <2> QED BY <1>5, <1>8, <1>10, <2>1, <2>2 DEF s
<1> HIDE DEF a, d, w
<1>12. Len(a) \in Nat /\ Len(u) \in Nat /\ Len(y) \in Nat
  BY <1>6, <1>8, <1>11
<1>13. Len(d) = Len(a) + Len(u) /\ d[Len(a) + 1] = u[1]
  <2>1. /\ Len(a \o u) = Len(a) + Len(u)
        /\ \A q \in 1..Len(a) + Len(u) : (a \o u)[q] = IF q <= Len(a) THEN a[q] ELSE u[q - Len(a)]
    BY <1>6, <1>11, ConcatProperties
  <2>2. /\ Len(a) + 1 \in 1..Len(a) + Len(u) /\ ~(Len(a) + 1 <= Len(a))
        /\ (Len(a) + 1) - Len(a) = 1
    BY <1>6, <1>12
  <2> QED BY <1>11, <2>1, <2>2
<1>14. Len(s) = Len(a) + Len(y) /\ (y # <<>> => s[Len(a) + 1] = "replacement")
  <2>1. /\ Len(a \o y) = Len(a) + Len(y)
        /\ \A q \in 1..Len(a) + Len(y) : (a \o y)[q] = IF q <= Len(a) THEN a[q] ELSE y[q - Len(a)]
    BY <1>8, <1>11, ConcatProperties
  <2>2. ~(Len(a) + 1 <= Len(a)) /\ (Len(a) + 1) - Len(a) = 1
        /\ (y # <<>> => Len(a) + 1 \in 1..Len(a) + Len(y))
    BY <1>9, <1>12
  <2> QED BY <1>9, <1>11, <2>1, <2>2
<1>15. Len(d) <= Len(w) /\ Len(w) <= Len(s) /\ (\A q \in 1..Len(d) : w[q] = d[q])
       /\ \A q \in 1..Len(w) : s[q] = w[q]
  BY <1>11 DEF Extends
<1>16. Len(w) \in Nat /\ Len(a) + 1 <= Len(d)
  BY <1>6, <1>11, <1>12, <1>13
<1>17. CASE y = <<>>
  <2>1. Len(y) = 0
    BY <1>17
  <2> QED BY <1>12, <1>13, <1>14, <1>15, <1>16, <2>1
<1>18. CASE y # <<>>
  <2>1. Len(a) + 1 \in 1..Len(d) /\ Len(a) + 1 \in 1..Len(w)
    BY <1>12, <1>15, <1>16
  <2> QED BY <1>6, <1>13, <1>14, <1>15, <1>18, <2>1
<1> QED BY <1>17, <1>18

-----------------------------------------------------------------------------
(* WideText: copying out *)

\* What a copy with this room is: of the beginning, and not told whole unless
\* it is.
CopyOf(c, S, s, absent, room) ==
    /\ c.cut \in BOOLEAN /\ c.out \in Seq(S)
    /\ IF absent \/ room = 0 THEN c.out = <<>> ELSE Len(c.out) < room
    /\ Len(c.out) <= Len(s) /\ c.out = SubSeq(s, 1, Len(c.out)) /\ Extends(c.out, s)
    /\ ~absent => (c.cut <=> c.out # s)

LEMMA CopyIs ==
  ASSUME NEW S, NEW s \in Seq(S), NEW absent \in BOOLEAN, NEW room \in Nat
  PROVE  CopyOf(Wide!Copy(s, absent, room), S, s, absent, room)
<1> DEFINE k == IF Len(s) <= room - 1 THEN Len(s) ELSE room - 1
           o == SubSeq(s, 1, k)
<1>1. Len(s) \in Nat /\ (s = <<>> <=> Len(s) = 0)
  OBVIOUS
<1>2. CASE absent \/ room = 0
  <2> DEFINE c == Wide!Copy(s, absent, room)
  <2>1. c.out = <<>> /\ c.cut \in BOOLEAN /\ (~absent => (c.cut <=> s # <<>>))
    <3>1. CASE absent
      BY <3>1 DEF Wide!Copy
    <3>2. CASE ~absent
      <4>1. c = [cut |-> s # <<>>, out |-> <<>>]
        BY <1>2, <3>2 DEF Wide!Copy
      <4> HIDE DEF c
      <4> QED BY <4>1
    <3> QED BY <3>1, <3>2
  <2> HIDE DEF c
  <2>2. <<>> \in Seq(S) /\ Len(<<>>) = 0 /\ SubSeq(s, 1, 0) = <<>>
    BY EmptySeq, SubSeqEmpty
  <2>3. CopyOf(c, S, s, absent, room)
    BY <1>1, <1>2, <2>1, <2>2 DEF CopyOf, Extends
  <2> QED BY <2>3 DEF c
<1>3. CASE ~absent /\ room # 0
  <2> DEFINE c == Wide!Copy(s, absent, room)
  <2>1. c = [cut |-> k < Len(s), out |-> o]
    BY <1>3 DEF Wide!Copy, Wide!RoomForText
  <2>2. k \in Nat /\ k <= Len(s) /\ k < room
    BY <1>1, <1>3
  <2> HIDE DEF c, k
  <2>3. o \in Seq(S) /\ Len(o) = k /\ \A q \in 1..k : o[q] = s[q]
    <3>1. \A q \in 1..k : s[q] \in S
      BY <1>1, <2>2
    <3>2. /\ o \in Seq(S) /\ Len(o) = IF 1 <= k THEN k - 1 + 1 ELSE 0
          /\ \A q \in 1..k - 1 + 1 : o[q] = s[1 + q - 1]
      BY <2>2, <3>1, SubSeqProperties
    <3> HIDE DEF o
    <3> QED BY <2>2, <3>2
  <2>4. k < Len(s) <=> o # s
    <3>1. k = Len(s) => o = s
      BY SubSeqFull
    <3> HIDE DEF o
    <3> QED BY <1>1, <2>2, <2>3, <3>1
  <2>5. o = SubSeq(s, 1, Len(o))
    BY <2>3
  <2> HIDE DEF o
  <2>6. c.out = o /\ (c.cut <=> k < Len(s)) /\ c.cut \in BOOLEAN
    <3>1. c.out = o
      BY <2>1
    <3>2. c.cut = (k < Len(s))
      BY <2>1
    <3>3. (k < Len(s)) \in BOOLEAN
      OBVIOUS
    <3> QED BY <3>1, <3>2, <3>3, Zenon
  <2>7. CopyOf(c, S, s, absent, room)
    BY <1>3, <2>2, <2>3, <2>4, <2>5, <2>6 DEF CopyOf, Extends
  <2> QED BY <2>7 DEF c
<1> QED BY <1>2, <1>3

-----------------------------------------------------------------------------
(* WideText: the invariant *)

Measure == IF fn \in Wide!InBytes THEN 2 ELSE 1

\* What the application got is the text, or is told to be less.
Delivered ==
    /\ IF null \/ Wide!Room = 0 THEN copied = <<>> ELSE Len(copied) < Wide!Room
    /\ Wide!FitsInside => Wide!IsPrefix(copied, Wide!FullText) /\ len = Len(Wide!FullText) * Measure
    /\ ~null /\ (fn \in Wide!Diag => Wide!Room > 0)
          => (ret = "SQL_SUCCESS" <=> copied = Wide!FullText)

Own == Wide!Copy(Wide!Utf8(text), FALSE, Intermediate)
Between ==
    /\ fn \in Wide!InChars \cup Wide!InBytes
    /\ fn \in Wide!Via => utf8 = Own.out /\ ret = Wide!Info(Own.cut)
    /\ fn \notin Wide!Via => utf8 = Wide!Utf8(text) /\ ret = "SQL_SUCCESS"

WideInv ==
    /\ bufLen \in Nat /\ null \in BOOLEAN
    /\ \/ fn \in Wide!Functions /\ text \in Seq(Wide!Characters)
       \/ fn = "argument" /\ text \in Seq(Wide!Units)
    /\ copying = "convert" => Between
    /\ copying = "done" /\ fn \in Wide!Functions => Delivered
    /\ copying = "done" /\ fn = "argument" /\ Len(Wide!WideToUtf8(text)) < ShortSize \div 2
          => Wide!Utf8ToWide(copied) = Wide!Replaced

LEMMA WideSays == WideInv => StaysInBuffer /\ LossIsTold /\ ArgumentArrives
  BY Zenon DEF WideInv, Delivered, Measure, StaysInBuffer, LossIsTold, ArgumentArrives,
               Wide!StaysInBuffer, Wide!LossIsTold, Wide!ArgumentArrives, Wide!TextOut

LEMMA KindsApart ==
  /\ "argument" \notin Wide!Functions /\ {"string", "diag"} \subseteq Wide!Functions
  /\ Wide!InChars \cup Wide!InBytes \subseteq Wide!Functions
  /\ Wide!InChars \cap Wide!InBytes = {} /\ Wide!Via \subseteq Wide!InChars \cup Wide!InBytes
  /\ {"string", "diag"} \cap (Wide!InChars \cup Wide!InBytes) = {}
  BY DEF Wide!Functions, Wide!InChars, Wide!InBytes, Wide!Via

LEMMA TextsAreSeqs == \A C : Wide!Texts(C) \subseteq Seq(C)
<1> TAKE C
<1> SUFFICES ASSUME NEW k \in 0..MaxText, NEW w \in [1..k -> C] PROVE w \in Seq(C)
  BY DEF Wide!Texts
<1>1. k \in Nat
  OBVIOUS
<1> QED BY <1>1, SeqDef

LEMMA WideInitOk == Init => WideInv
<1> SUFFICES ASSUME Init PROVE WideInv
  OBVIOUS
<1>1. CASE WideAtRest
  <2>1. Wide!Utf8(<<>>) = <<>>
    <3>1. <<>> \in Seq(WideChars) /\ Len(<<>>) = 0
      BY EmptySeq
    <3> QED BY <3>1, Utf8Is, Utf8Rules
  <2>2. SubSeq(<<>>, 1, 0) = <<>> /\ Len(<<>>) = 0 /\ <<>> \in Seq(Wide!Characters)
    BY SubSeqEmpty, EmptySeq
  <2>3. fn = "string" /\ fn \notin Wide!InBytes /\ fn \in Wide!Functions /\ fn # "argument"
    BY <1>1 DEF WideAtRest, Wide!InBytes, Wide!Functions
  <2>4. Delivered
    <3>1. Wide!FullText = <<>> /\ Wide!Room = 0 /\ Measure = 1
      BY <1>1, <2>1, <2>3 DEF WideAtRest, Wide!FullText, Wide!Room, Measure
    <3> QED BY <1>1, <2>2, <3>1 DEF WideAtRest, Delivered, Wide!IsPrefix
  <2> QED BY <1>1, <2>2, <2>3, <2>4 DEF WideAtRest, WideInv
<1>2. CASE Wide!Init
  <2>1. copying = "call" /\ bufLen \in Nat /\ null \in BOOLEAN
    <3>1. copying = "call" /\ null \in BOOLEAN /\ (bufLen \in 0..MaxBuffer \/ bufLen = 0)
      BY <1>2, Zenon DEF Wide!Init
    <3>2. bufLen \in Nat
      BY <3>1
    <3> QED BY <3>1, <3>2
  <2>2. \/ fn \in Wide!Functions /\ text \in Seq(Wide!Characters)
        \/ fn = "argument" /\ text \in Seq(Wide!Units)
    BY <1>2, TextsAreSeqs, Zenon DEF Wide!Init
  <2> QED BY <2>1, <2>2 DEF WideInv
<1> QED BY <1>1, <1>2, Zenon DEF Init

\* What a function gives back that has this text in its buffer's unit.
Returned(s, room, unit, rc, c) ==
    /\ copied' = c.out /\ len' = Len(s) * unit /\ copying' = "done"
    /\ ret' = IF c.cut THEN "SQL_SUCCESS_WITH_INFO" ELSE rc
    /\ IF null \/ room = 0 THEN c.out = <<>> ELSE Len(c.out) < room
    /\ Wide!IsPrefix(c.out, s) /\ Extends(c.out, s)
    /\ ~null /\ (fn \in Wide!Diag => room > 0) => (c.cut <=> c.out # s)
    /\ c.cut \in BOOLEAN

Gives(s, room, unit, rc) ==
    UNCHANGED <<fn, text, null, bufLen>> /\ \E c : Returned(s, room, unit, rc, c)

LEMMA ReturnsCopy ==
  ASSUME NEW S, NEW s \in Seq(S), NEW room \in Nat, NEW unit, NEW rc, null \in BOOLEAN,
         Wide!Return(s, room, unit, rc)
  PROVE  Gives(s, room, unit, rc)
<1> DEFINE c == Wide!CopyFor(s, room)
           absent == IF fn \in Wide!Diag THEN null \/ room <= 0 ELSE null
<1>1. absent \in BOOLEAN /\ (absent \/ room = 0 <=> null \/ room = 0)
      /\ (~null /\ (fn \in Wide!Diag => room > 0) => ~absent)
  <2>1. (null \/ room <= 0) \in BOOLEAN
    OBVIOUS
  <2>2. CASE fn \in Wide!Diag
    <3>1. absent = (null \/ room <= 0)
      BY <2>2
    <3>2. absent \in BOOLEAN
      BY <3>1
    <3>3. absent <=> (null \/ room <= 0)
      BY <3>1
    <3> HIDE DEF absent
    <3> QED BY <2>2, <3>2, <3>3
  <2>3. CASE fn \notin Wide!Diag
    BY <2>3
  <2> QED BY <2>2, <2>3
<1>2. c = Wide!Copy(s, absent, room)
  BY DEF Wide!CopyFor, Wide!CopyIfRoom
<1>3. /\ copied' = c.out /\ len' = Len(s) * unit /\ copying' = "done"
      /\ ret' = Wide!Either(c.cut, rc) /\ UNCHANGED <<fn, text, null, bufLen>>
  BY Zenon DEF Wide!Return, Wide!call
<1> HIDE DEF c, absent
<1>4. CopyOf(c, S, s, absent, room)
  BY <1>1, <1>2, CopyIs
<1>5. Returned(s, room, unit, rc, c)
  <2>1. ret' = IF c.cut THEN "SQL_SUCCESS_WITH_INFO" ELSE rc
    BY <1>3 DEF Wide!Either, Wide!Info
  <2>2. IF null \/ room = 0 THEN c.out = <<>> ELSE Len(c.out) < room
    BY <1>1, <1>4 DEF CopyOf
  <2>3. Wide!IsPrefix(c.out, s)
    BY <1>4 DEF CopyOf, Wide!IsPrefix
  <2>4. Extends(c.out, s) /\ c.cut \in BOOLEAN
    BY <1>4, Zenon DEF CopyOf
  <2>5. ~null /\ (fn \in Wide!Diag => room > 0) => (c.cut <=> c.out # s)
    BY <1>1, <1>4, Zenon DEF CopyOf
  <2> QED BY <1>3, <2>1, <2>2, <2>3, <2>4, <2>5, Zenon DEF Returned
<1> QED BY <1>3, <1>5, Zenon DEF Gives

\* With the whole text in the driver's buffer, or a text that is not.
LEMMA DeliversAll ==
  ASSUME NEW c, NEW s, NEW room \in Nat, Returned(s, room, Measure, "SQL_SUCCESS", c),
         UNCHANGED <<fn, text, null, bufLen>>, room = Wide!Room, s = Wide!FullText
  PROVE  Delivered'
<1>1. /\ Wide!Room' = room /\ Wide!FullText' = s /\ Measure' = Measure
      /\ (Wide!FitsInside' <=> Wide!FitsInside) /\ UNCHANGED <<fn, null>>
  BY DEF Wide!Room, Wide!FullText, Measure, Wide!FitsInside
<1>2. copied' = c.out /\ len' = Len(s) * Measure
      /\ ret' = IF c.cut THEN "SQL_SUCCESS_WITH_INFO" ELSE "SQL_SUCCESS"
  BY Zenon DEF Returned
<1>3. IF null \/ room = 0 THEN c.out = <<>> ELSE Len(c.out) < room
  BY Zenon DEF Returned
<1>4. Wide!IsPrefix(c.out, s)
  BY Zenon DEF Returned
<1>5. ~null /\ (fn \in Wide!Diag => room > 0) => (c.cut <=> c.out # s)
  BY Zenon DEF Returned
<1>6. ret' = "SQL_SUCCESS" <=> ~c.cut
  BY <1>2
<1>7. ~null /\ (fn \in Wide!Diag => room > 0) => (ret' = "SQL_SUCCESS" <=> copied' = s)
  BY <1>2, <1>5, <1>6, Zenon
<1>8. IF null \/ room = 0 THEN copied' = <<>> ELSE Len(copied') < room
  BY <1>2, <1>3
<1>9. Wide!IsPrefix(copied', s)
  BY <1>2, <1>4
<1>10. IF null' \/ Wide!Room' = 0 THEN copied' = <<>> ELSE Len(copied') < Wide!Room'
  BY <1>1, <1>8
<1>11. Wide!IsPrefix(copied', Wide!FullText') /\ len' = Len(Wide!FullText') * Measure'
  BY <1>1, <1>2, <1>9
<1>12. ~null' /\ (fn' \in Wide!Diag => Wide!Room' > 0) => (ret' = "SQL_SUCCESS" <=> copied' = Wide!FullText')
  BY <1>1, <1>7
<1>13. Wide!IsPrefix(copied, Wide!FullText)'
  BY <1>11 DEF Wide!IsPrefix
<1> QED BY <1>10, <1>11, <1>12, <1>13, Zenon DEF Delivered, Wide!Diag

LEMMA DeliversPart ==
  ASSUME NEW c, NEW s, NEW room \in Nat, NEW rc, Returned(s, room, Measure, rc, c),
         UNCHANGED <<fn, text, null, bufLen>>, room = Wide!Room, ~Wide!FitsInside,
         rc # "SQL_SUCCESS", c.out # Wide!FullText
  PROVE  Delivered'
<1>1. /\ Wide!Room' = room /\ Wide!FullText' = Wide!FullText
      /\ ~Wide!FitsInside' /\ UNCHANGED <<fn, null>>
  BY DEF Wide!Room, Wide!FullText, Wide!FitsInside
<1>2. copied' = c.out /\ ret' = IF c.cut THEN "SQL_SUCCESS_WITH_INFO" ELSE rc
  BY Zenon DEF Returned
<1>3. IF null \/ room = 0 THEN c.out = <<>> ELSE Len(c.out) < room
  BY Zenon DEF Returned
<1>4. IF null \/ room = 0 THEN copied' = <<>> ELSE Len(copied') < room
  BY <1>2, <1>3
<1>5. IF null' \/ Wide!Room' = 0 THEN copied' = <<>> ELSE Len(copied') < Wide!Room'
  BY <1>1, <1>4
<1>6. ret' # "SQL_SUCCESS" /\ copied' # Wide!FullText'
  BY <1>1, <1>2
<1> QED BY <1>1, <1>5, <1>6, Zenon DEF Delivered

\* A length that a SQLSMALLINT can say is said.
LEMMA ShortSays == \A k \in Nat : k < ShortSize \div 2 => Wide!Short(k) = k
<1> TAKE k \in Nat
<1> HAVE k < ShortSize \div 2
<1>1. ShortSize \in Nat \ {0}
  BY WideAssumption
<1>2. k < ShortSize
  BY <1>1
<1>3. k % ShortSize = k
  BY <1>1, <1>2
<1> QED BY <1>3 DEF Wide!Short

\* The text in the driver's own buffer: all of it, or fewer bytes.
LEMMA InOwnBuffer ==
  ASSUME NEW b \in Seq(Bytes), NEW c, c = Wide!Copy(b, FALSE, Intermediate)
  PROVE  /\ c.cut \in BOOLEAN /\ (c.cut <=> ~(Len(b) < Intermediate))
         /\ ~c.cut => c.out = b
         /\ c.cut => \E m \in Nat : m < Len(b) /\ c.out = SubSeq(b, 1, m)
<1>1. Intermediate \in Nat \ {0}
  BY WideAssumption
<1>2. CopyOf(c, Bytes, b, FALSE, Intermediate)
  BY <1>1, CopyIs
<1> DEFINE o == c.out
           k == IF Len(b) <= Intermediate - 1 THEN Len(b) ELSE Intermediate - 1
<1>3. c.cut \in BOOLEAN /\ o \in Seq(Bytes) /\ (c.cut <=> o # b)
  BY <1>2, Zenon DEF CopyOf
<1>4. Len(o) <= Len(b) /\ o = SubSeq(b, 1, Len(o))
  BY <1>2, Zenon DEF CopyOf
<1>5. o = SubSeq(b, 1, k)
  BY <1>1 DEF Wide!Copy, Wide!RoomForText
<1>6. Len(b) \in Nat /\ SubSeq(b, 1, Len(b)) = b
  BY SubSeqFull
<1>7. IF 0 = Intermediate THEN o = <<>> ELSE Len(o) < Intermediate
  BY <1>1, <1>2 DEF CopyOf
<1> HIDE DEF o, k
<1>8. Len(o) \in Nat /\ Len(o) < Intermediate
  BY <1>1, <1>3, <1>7
<1>9. CASE Len(b) < Intermediate
  <2>1. k = Len(b)
    BY <1>1, <1>6, <1>9 DEF k
  <2>2. o = b
    BY <1>5, <1>6, <2>1
  <2> QED BY <1>3, <1>9, <2>2 DEF o
<1>10. CASE ~(Len(b) < Intermediate)
  <2>1. o # b /\ Len(o) < Len(b)
    BY <1>1, <1>6, <1>8, <1>10
  <2>2. \E m \in Nat : m < Len(b) /\ o = SubSeq(b, 1, m)
    BY <1>4, <1>8, <2>1
  <2> QED BY <1>3, <1>10, <2>1, <2>2, Zenon DEF o
<1> QED BY <1>9, <1>10

\* A prefix of a prefix of a text's first bytes, read, is not the text.
LEMMA ConvertOk ==
  ASSUME WideInv, copying = "convert", NEW room \in Nat, room = Wide!Room,
         Wide!Return(Wide!Utf8ToWide(utf8), room, Measure, ret)
  PROVE  Delivered' /\ copying' = "done" /\ UNCHANGED <<fn, text, null, bufLen>>
<1> DEFINE u == Wide!Utf8(text)
           s == Wide!Utf8ToWide(utf8)
<1>1. Between /\ null \in BOOLEAN
  BY DEF WideInv
<1>2. /\ fn \in Wide!InChars \cup Wide!InBytes /\ fn \in Wide!Functions /\ fn # "argument"
      /\ fn \notin {"string", "diag"}
  BY <1>1, KindsApart DEF Between
<1>3. text \in Seq(Wide!Characters) /\ text \in Seq(WideChars)
  <2>1. text \in Seq(Wide!Characters)
    BY <1>2, Zenon DEF WideInv
  <2>2. Wide!Characters \subseteq WideChars
    BY DEF Wide!Characters, WideChars
  <2> QED BY <2>1, <2>2, SeqMonotonic
<1>4. u \in Seq(Bytes) /\ Wide!Utf8ToWide(u) = Wide!Utf16(text) /\ Wide!FullText = Wide!Utf16(text)
  BY <1>2, <1>3, TextReturns DEF Wide!FullText
<1> HIDE DEF u, s
<1>5. CASE utf8 = u /\ ret = "SQL_SUCCESS"
  <2>1. s = Wide!FullText /\ s \in Seq(WideUnits)
    BY <1>4, <1>5, DecodeInUnits DEF s
  <2>2. UNCHANGED <<fn, text, null, bufLen>> /\ \E c : Returned(s, room, Measure, ret, c)
    <3>1. Wide!Return(s, room, Measure, ret)
      BY Zenon DEF s
    <3>2. Gives(s, room, Measure, ret)
      BY <1>1, <2>1, <3>1, ReturnsCopy
    <3> QED BY <3>2, Zenon DEF Gives
  <2>3. PICK c : Returned(s, room, Measure, "SQL_SUCCESS", c)
    BY <1>5, <2>2
  <2>4. Delivered'
    BY <2>1, <2>2, <2>3, DeliversAll, Zenon
  <2> QED BY <2>2, <2>3, <2>4, Zenon DEF Returned
<1>6. CASE /\ fn \in Wide!Via /\ ret = "SQL_SUCCESS_WITH_INFO" /\ ~(Len(u) < Intermediate)
           /\ \E m \in Nat : m < Len(u) /\ utf8 = SubSeq(u, 1, m)
  <2>1. PICK m \in Nat : m < Len(u) /\ utf8 = SubSeq(u, 1, m)
    BY <1>6
  <2>2. utf8 \in Seq(Bytes)
    <3>1. \A q \in 1..m : u[q] \in Bytes
      BY <1>4, <2>1
    <3> QED BY <2>1, <3>1, SubSeqProperties
  <2>3. s \in Seq(WideUnits)
    BY <2>2, DecodeInUnits DEF s
  <2>4. UNCHANGED <<fn, text, null, bufLen>> /\ \E c : Returned(s, room, Measure, ret, c)
    <3>1. Wide!Return(s, room, Measure, ret)
      BY Zenon DEF s
    <3>2. Gives(s, room, Measure, ret)
      BY <1>1, <2>3, <3>1, ReturnsCopy
    <3> QED BY <3>2, Zenon DEF Gives
  <2>5. PICK c : Returned(s, room, Measure, ret, c)
    BY <2>4
  <2>6. Extends(c.out, s)
    BY <2>5, Zenon DEF Returned
  <2>7. c.out # Wide!FullText
    BY <1>3, <1>4, <2>1, <2>6, CutShort DEF s, u
  <2>8. ~Wide!FitsInside /\ ret # "SQL_SUCCESS"
    BY <1>6 DEF Wide!FitsInside, u
  <2>9. Delivered'
    BY <2>4, <2>5, <2>7, <2>8, DeliversPart, Zenon
  <2> QED BY <2>4, <2>5, <2>9, Zenon DEF Returned
<1> QED
  <2>1. CASE fn \in Wide!Via
    <3> DEFINE c == Wide!Copy(u, FALSE, Intermediate)
    <3>1. utf8 = c.out /\ ret = Wide!Info(c.cut)
      BY <1>1, <2>1, Zenon DEF Between, Own, u
    <3>2. /\ c.cut \in BOOLEAN /\ (c.cut <=> ~(Len(u) < Intermediate))
          /\ ~c.cut => c.out = u
          /\ c.cut => \E m \in Nat : m < Len(u) /\ c.out = SubSeq(u, 1, m)
      BY <1>4, InOwnBuffer, Zenon
    <3> HIDE DEF c
    <3>3. ret = IF c.cut THEN "SQL_SUCCESS_WITH_INFO" ELSE "SQL_SUCCESS"
      BY <3>1 DEF Wide!Info
    <3>4. CASE c.cut
      BY <1>6, <2>1, <3>1, <3>2, <3>3, <3>4
    <3>5. CASE ~c.cut
      BY <1>5, <3>1, <3>2, <3>3, <3>5
    <3> QED BY <3>4, <3>5
  <2>2. CASE fn \notin Wide!Via
    BY <1>1, <1>5, <2>2, Zenon DEF Between, u
  <2> QED BY <2>1, <2>2

LEMMA WideStepOk == WideInv /\ [Next]_vars => WideInv'
<1> SUFFICES ASSUME WideInv, [Next]_vars PROVE WideInv'
  OBVIOUS
<1>1. CASE UNCHANGED wideVars
  <2>1. /\ UNCHANGED <<fn, text, null, bufLen, utf8, copied, len, ret, copying>>
    BY <1>1, Zenon DEF wideVars
  <2> QED BY <2>1 DEF WideInv, Delivered, Between, Own, Measure, Wide!Room, Wide!FitsInside,
                  Wide!FullText, Wide!IsPrefix, Wide!Replaced
<1>2. CASE Wide!Next
  <2>0. /\ bufLen \in Nat /\ null \in BOOLEAN
        /\ \/ fn \in Wide!Functions /\ text \in Seq(Wide!Characters)
           \/ fn = "argument" /\ text \in Seq(Wide!Units)
    BY Zenon DEF WideInv
  <2>1. ASSUME UNCHANGED <<fn, text, null, bufLen>>, copying' = "done",
               fn \in Wide!Functions, Delivered'
        PROVE  WideInv'
    BY <2>0, <2>1, KindsApart, Zenon DEF WideInv
  <2>2. ASSUME UNCHANGED <<fn, text, null, bufLen>>, copying' = "convert", Between'
        PROVE  WideInv'
    BY <2>0, <2>2, Zenon DEF WideInv
  <2>3. CASE Wide!Narrow
    <3>1. /\ fn \in {"string", "diag"} /\ Wide!Return(Wide!Utf8(text), bufLen, 1, "SQL_SUCCESS")
      BY <2>3, Zenon DEF Wide!Narrow
    <3>2. /\ fn \in Wide!Functions /\ fn # "argument" /\ fn \notin Wide!InBytes
          /\ fn \notin Wide!Via
      BY <3>1, KindsApart
    <3>3. text \in Seq(WideChars)
      <4>1. Wide!Characters \subseteq WideChars
        BY DEF Wide!Characters, WideChars
      <4> QED BY <2>0, <3>2, <4>1, SeqMonotonic
    <3> DEFINE s == Wide!Utf8(text)
    <3>4. s \in Seq(Bytes) /\ s = Wide!FullText /\ bufLen = Wide!Room /\ Measure = 1
      BY <3>1, <3>2, <3>3, TextReturns DEF Wide!FullText, Wide!Room, Measure
    <3>5. Wide!Return(s, bufLen, 1, "SQL_SUCCESS")
      BY <3>1, Zenon
    <3> HIDE DEF s
    <3>6. UNCHANGED <<fn, text, null, bufLen>> /\ \E c : Returned(s, bufLen, 1, "SQL_SUCCESS", c)
      <4>1. Gives(s, bufLen, 1, "SQL_SUCCESS")
        BY <2>0, <3>4, <3>5, ReturnsCopy
      <4> QED BY <4>1, Zenon DEF Gives
    <3>7. PICK c : Returned(s, bufLen, Measure, "SQL_SUCCESS", c)
      BY <3>4, <3>6
    <3>8. Delivered'
      BY <2>0, <3>4, <3>6, <3>7, DeliversAll, Zenon
    <3>9. copying' = "done"
      BY <3>7, Zenon DEF Returned
    <3> QED BY <2>1, <3>2, <3>6, <3>8, <3>9, Zenon
  <2>4. CASE Wide!CallNarrow
    <3>1. /\ fn \in Wide!Via /\ copying' = "convert" /\ UNCHANGED <<fn, text, null, bufLen>>
          /\ utf8' = Own.out /\ ret' = Wide!Info(Own.cut)
      BY <2>4, Zenon DEF Wide!CallNarrow, Own, Wide!call
    <3>2. Own' = Own
      BY <3>1 DEF Own
    <3>3. fn \in Wide!InChars \cup Wide!InBytes
      BY <3>1, KindsApart
    <3>4. utf8' = Own'.out /\ ret' = Wide!Info(Own'.cut)
      BY <3>1, <3>2
    <3>5. Between'
      BY <3>1, <3>3, <3>4, Zenon DEF Between
    <3> QED BY <2>2, <3>1, <3>5, Zenon
  <2>5. CASE Wide!HasText
    <3>1. /\ fn \in {"chars", "bytes"} /\ copying' = "convert" /\ UNCHANGED <<fn, text, null, bufLen>>
          /\ utf8' = Wide!Utf8(text) /\ ret' = "SQL_SUCCESS"
      BY <2>5, Zenon DEF Wide!HasText, Wide!call
    <3>2. fn \in Wide!InChars \cup Wide!InBytes /\ fn \notin Wide!Via
      BY <3>1 DEF Wide!InChars, Wide!InBytes, Wide!Via
    <3>3. Wide!Utf8(text)' = Wide!Utf8(text)
      BY <3>1
    <3>4. Between'
      BY <3>1, <3>2, <3>3, Zenon DEF Between
    <3> QED BY <2>2, <3>1, <3>4, Zenon
  <2>6. CASE Wide!ConvertChars
    <3>1. /\ copying = "convert" /\ fn \in Wide!InChars
          /\ Wide!Return(Wide!Utf8ToWide(utf8), bufLen, 1, ret)
      BY <2>6, Zenon DEF Wide!ConvertChars
    <3>2. fn \notin Wide!InBytes /\ fn \in Wide!Functions
      BY <3>1, KindsApart
    <3>3. Measure = 1 /\ bufLen = Wide!Room
      BY <3>2 DEF Measure, Wide!Room
    <3>4. Delivered' /\ copying' = "done" /\ UNCHANGED <<fn, text, null, bufLen>>
      BY <2>0, <3>1, <3>3, ConvertOk
    <3> QED BY <2>1, <3>2, <3>4, Zenon
  <2>7. CASE Wide!ConvertBytes
    <3>1. /\ copying = "convert" /\ fn \in Wide!InBytes
          /\ Wide!Return(Wide!Utf8ToWide(utf8), Wide!UnitsIn(bufLen), 2, ret)
      BY <2>7, Zenon DEF Wide!ConvertBytes
    <3>2. fn \in Wide!Functions
      BY <3>1, KindsApart
    <3>3. Measure = 2 /\ Wide!UnitsIn(bufLen) = Wide!Room /\ Wide!Room \in Nat
      BY <2>0, <3>1 DEF Measure, Wide!Room, Wide!UnitsIn
    <3>4. Delivered' /\ copying' = "done" /\ UNCHANGED <<fn, text, null, bufLen>>
      BY <3>1, <3>3, ConvertOk
    <3> QED BY <2>1, <3>2, <3>4, Zenon
  <2>8. CASE Wide!Argument
    <3> DEFINE s == Wide!WideToUtf8(text)
    <3>1. /\ fn = "argument" /\ copying' = "done" /\ UNCHANGED <<fn, text, null, bufLen>>
          /\ copied' = Wide!FromSqlString(s, Wide!Short(Len(s)))
      BY <2>8, Zenon DEF Wide!Argument, Wide!call
    <3>2. fn \notin Wide!Functions /\ text \in Seq(Wide!Units)
      BY <2>0, <3>1, KindsApart
    <3>3. s \in Seq(Bytes) /\ Wide!Utf8ToWide(s) = Wide!Replaced
      BY <3>2, EncodeReturns, ReplacedIs
    <3>4. Wide!WideToUtf8(text)' = s /\ Wide!Replaced' = Wide!Replaced
      BY <3>1 DEF Wide!Replaced
    <3> HIDE DEF s
    <3>5. ASSUME Len(s) < ShortSize \div 2 PROVE copied' = s
      <4>1. Len(s) \in Nat /\ SubSeq(s, 1, Len(s)) = s
        BY <3>3, SubSeqFull
      <4>2. Wide!Short(Len(s)) = Len(s)
        BY <3>5, <4>1, ShortSays
      <4>3. Len(s) # Wide!SQL_NTS /\ ~(Len(s) < 0)
        BY <4>1 DEF Wide!SQL_NTS
      <4> QED BY <3>1, <4>1, <4>2, <4>3 DEF Wide!FromSqlString
    <3>6. copying' = "done" /\ fn' = "argument" /\ Len(Wide!WideToUtf8(text)') < ShortSize \div 2
             => Wide!Utf8ToWide(copied)' = Wide!Replaced'
      <4>1. Wide!Utf8ToWide(copied)' = Wide!Utf8ToWide(copied')
        OBVIOUS
      <4> QED BY <3>3, <3>4, <3>5, <4>1
    <3> QED BY <2>0, <3>1, <3>2, <3>6, Zenon DEF WideInv
  <2> QED BY <1>2, <2>3, <2>4, <2>5, <2>6, <2>7, <2>8, Zenon DEF Wide!Next
<1> QED BY <1>1, <1>2, Zenon DEF Next, vars

\* No function copies a text beyond the application's buffer, or splits a unit
\* of UTF-16; whatever the sizes of the text, the buffer and the driver's own.
THEOREM CopiesStay == Spec => []StaysInBuffer
<1> QED BY WideInitOk, WideStepOk, WideSays, PTL DEF Spec

\* A text that does not reach the application whole is never reported as
\* whole: neither one that the application's buffer cuts, nor one that the
\* driver's own buffer has cut before, even within a character.
THEOREM LossesTold == Spec => []LossIsTold
<1> QED BY WideInitOk, WideStepOk, WideSays, PTL DEF Spec

\* Every text whose length a SQLSMALLINT can say arrives as it was given,
\* surrogates that stand alone replaced.
THEOREM ArgumentsArrive == Spec => []ArgumentArrives
<1> QED BY WideInitOk, WideStepOk, WideSays, PTL DEF Spec

-----------------------------------------------------------------------------
(* ConnString: the string written *)

ConnChars == STRING \cup {"=", ";", "{", "}"}
ConnN == Len(EchoedKeys)

LEMMA KeysAre ==
  /\ ConnN \in Nat /\ DOMAIN EchoedKeys = 1..ConnN
  /\ \A k \in 1..ConnN :
        /\ EchoedValues[k] \subseteq Seq(STRING)
        /\ EchoedKeys[k] \in Seq(ConnChars) /\ EchoedKeys[k] # <<>>
        /\ \A j \in 1..Len(EchoedKeys[k]) : EchoedKeys[k][j] \notin {"=", ";", " "}
        /\ \A l \in 1..ConnN : EchoedKeys[l] = EchoedKeys[k] => l = k
<1>1. EchoedKeys \in Seq(Seq(STRING))
  BY StringAssumption, Zenon DEF ConnStr!StringsAssumed
<1>2. ConnN \in Nat /\ DOMAIN EchoedKeys = 1..ConnN /\ \A k \in 1..ConnN : EchoedKeys[k] \in Seq(STRING)
  BY <1>1 DEF ConnN
<1>3. \A k \in 1..ConnN : EchoedKeys[k] \in Seq(ConnChars) /\ DOMAIN EchoedKeys[k] = 1..Len(EchoedKeys[k])
  <2> TAKE k \in 1..ConnN
  <2>1. EchoedKeys[k] \in Seq(STRING) /\ STRING \subseteq ConnChars
    BY <1>2 DEF ConnChars
  <2>2. EchoedKeys[k] \in Seq(ConnChars)
    BY <2>1, SeqMonotonic
  <2> QED BY <2>2
<1>4. \A k \in 1..ConnN :
         /\ EchoedValues[k] \subseteq Seq(STRING) /\ EchoedKeys[k] # <<>>
         /\ \A j \in DOMAIN EchoedKeys[k] : EchoedKeys[k][j] \notin {"=", ";", " "}
         /\ \A l \in 1..ConnN : EchoedKeys[l] = EchoedKeys[k] => l = k
  BY <1>2, StringAssumption, Zenon DEF ConnStr!StringsAssumed
<1> QED BY <1>2, <1>3, <1>4

ValuesTyped == values \in [1..ConnN -> Seq(ConnChars)]

EchoOf ==
    LET all[k \in 0..Len(EchoedKeys)] ==
            IF k = 0 THEN <<>> ELSE ConnStr!Appended(all[k - 1], EchoedKeys[k], values[k])
    IN  all

LEMMA EchoIs == ConnStr!Echo = EchoOf[ConnN]
  BY DEF ConnStr!Echo, EchoOf, ConnN

\* What a key and its value add: a separator, the key, '=', and the value in
\* braces or not.
Separator(o) == IF o = <<>> THEN <<>> ELSE <<";">>
Added(o, key, b) == o \o Separator(o) \o key \o <<"=">> \o b

\* Two sequences, one after the other.
Both(d, a, b) ==
    /\ d \in Seq(ConnChars) /\ Len(d) = Len(a) + Len(b) /\ Len(a) \in Nat /\ Len(b) \in Nat
    /\ \A j \in 1..Len(a) : d[j] = a[j]
    /\ \A j \in 1..Len(b) : d[Len(a) + j] = b[j]

LEMMA BothAre ==
  ASSUME NEW a \in Seq(ConnChars), NEW b \in Seq(ConnChars)
  PROVE  Both(a \o b, a, b)
<1> DEFINE d == a \o b
<1>1. Len(a) \in Nat /\ Len(b) \in Nat
  OBVIOUS
<1>2. /\ d \in Seq(ConnChars) /\ Len(d) = Len(a) + Len(b)
      /\ \A j \in 1..Len(a) + Len(b) : d[j] = IF j <= Len(a) THEN a[j] ELSE b[j - Len(a)]
  BY ConcatProperties
<1> HIDE DEF d
<1>3. \A j \in 1..Len(a) : d[j] = a[j]
  BY <1>1, <1>2
<1>4. \A j \in 1..Len(b) : d[Len(a) + j] = b[j]
  <2> TAKE j \in 1..Len(b)
  <2>1. Len(a) + j \in 1..Len(a) + Len(b) /\ ~(Len(a) + j <= Len(a)) /\ (Len(a) + j) - Len(a) = j
    BY <1>1
  <2> QED BY <1>2, <2>1
<1>5. Both(d, a, b)
  BY <1>1, <1>2, <1>3, <1>4, Zenon DEF Both
<1> QED BY <1>5 DEF d

LEMMA ConnCharsHas == \A x \in {"=", ";", "{", "}"} : x \in ConnChars
  BY Zenon DEF ConnChars

\* A character on its own.
LEMMA One == \A x \in ConnChars : <<x>> \in Seq(ConnChars) /\ Len(<<x>>) = 1 /\ <<x>>[1] = x
  OBVIOUS

LEMMA BracedIs ==
  ASSUME NEW w \in Seq(ConnChars)
  PROVE  /\ ConnStr!Braced(w) \in Seq(ConnChars)
         /\ ConnStr!Has(w, ";") => /\ Len(ConnStr!Braced(w)) = Len(w) + 2
                                   /\ ConnStr!Braced(w)[1] = "{"
                                   /\ ConnStr!Braced(w)[Len(w) + 2] = "}"
                                   /\ \A j \in 1..Len(w) : ConnStr!Braced(w)[j + 1] = w[j]
         /\ ~ConnStr!Has(w, ";") => ConnStr!Braced(w) = w
<1> DEFINE o == <<"{">>
           c == <<"}">>
           x == o \o w
           y == x \o c
<1>0. "{" \in ConnChars /\ "}" \in ConnChars
  BY ConnCharsHas
<1>1. /\ o \in Seq(ConnChars) /\ Len(o) = 1 /\ o[1] = "{"
      /\ c \in Seq(ConnChars) /\ Len(c) = 1 /\ c[1] = "}"
  BY <1>0, One
<1>2. Len(w) \in Nat
  OBVIOUS
<1>3. ConnStr!Braced(w) = IF ConnStr!Has(w, ";") THEN y ELSE w
  BY DEF ConnStr!Braced
<1> HIDE DEF o, c
<1>4. Both(x, o, w)
  BY <1>1, BothAre
<1>x. x \in Seq(ConnChars)
  BY <1>4, Zenon DEF Both
<1> HIDE DEF x
<1>5. Both(y, x, c)
  BY <1>1, <1>x, BothAre
<1> HIDE DEF y
<1>6. Len(x) = 1 + Len(w) /\ (\A j \in 1..1 : x[j] = o[j]) /\ \A j \in 1..Len(w) : x[1 + j] = w[j]
  BY <1>1, <1>4 DEF Both
<1>7. /\ y \in Seq(ConnChars) /\ Len(y) = Len(w) + 2
      /\ (\A j \in 1..Len(x) : y[j] = x[j]) /\ \A j \in 1..1 : y[Len(x) + j] = c[j]
  <2>1. /\ y \in Seq(ConnChars) /\ Len(y) = Len(x) + 1
        /\ (\A j \in 1..Len(x) : y[j] = x[j]) /\ \A j \in 1..1 : y[Len(x) + j] = c[j]
    BY <1>1, <1>5 DEF Both
  <2>2. Len(x) + 1 = Len(w) + 2
    BY <1>2, <1>6
  <2> QED BY <2>1, <2>2
<1>8. y[1] = "{" /\ y[Len(w) + 2] = "}"
  <2>1. 1 \in 1..1 /\ 1 \in 1..Len(x) /\ Len(x) + 1 = Len(w) + 2
    BY <1>2, <1>6
  <2>2. y[1] = x[1] /\ x[1] = o[1] /\ y[Len(x) + 1] = c[1]
    BY <1>6, <1>7, <2>1
  <2> QED BY <1>1, <2>1, <2>2
<1>9. \A j \in 1..Len(w) : y[j + 1] = w[j]
  <2> TAKE j \in 1..Len(w)
  <2>1. 1 + j \in 1..Len(x) /\ 1 + j = j + 1
    BY <1>2, <1>6
  <2> QED BY <1>6, <1>7, <2>1
<1> QED BY <1>3, <1>7, <1>8, <1>9

\* Where the parts of an entry are.
Entry(d, o, key, b) ==
    LET s == Len(Separator(o)) IN
    /\ d \in Seq(ConnChars) /\ Extends(o, d)
    /\ Len(d) = Len(o) + s + Len(key) + 1 + Len(b)
    /\ o # <<>> => d[Len(o) + 1] = ";"
    /\ \A j \in 1..Len(key) : d[Len(o) + s + j] = key[j]
    /\ d[Len(o) + s + Len(key) + 1] = "="
    /\ \A j \in 1..Len(b) : d[Len(o) + s + Len(key) + 1 + j] = b[j]

LEMMA EntryIs ==
  ASSUME NEW o \in Seq(ConnChars), NEW key \in Seq(ConnChars), NEW b \in Seq(ConnChars)
  PROVE  Entry(Added(o, key, b), o, key, b)
<1> DEFINE s == Separator(o)
           e == <<"=">>
           x == o \o s
           y == x \o key
           z == y \o e
           d == z \o b
<1>0. "=" \in ConnChars /\ ";" \in ConnChars
  BY ConnCharsHas
<1>1. s \in Seq(ConnChars) /\ (o # <<>> => Len(s) = 1 /\ s[1] = ";")
  BY <1>0, One, EmptySeq DEF Separator
<1>2. e \in Seq(ConnChars) /\ Len(e) = 1 /\ e[1] = "="
  BY <1>0, One
<1> HIDE DEF s, e
<1>3. Both(x, o, s)
  BY <1>1, BothAre
<1>4. x \in Seq(ConnChars)
  BY <1>3, Zenon DEF Both
<1> HIDE DEF x
<1>5. Both(y, x, key)
  BY <1>4, BothAre
<1>6. y \in Seq(ConnChars)
  BY <1>5, Zenon DEF Both
<1> HIDE DEF y
<1>7. Both(z, y, e)
  BY <1>2, <1>6, BothAre
<1>8. z \in Seq(ConnChars)
  BY <1>7, Zenon DEF Both
<1> HIDE DEF z
<1>9. Both(d, z, b)
  BY <1>8, BothAre
<1> HIDE DEF d
<1>10. /\ Len(x) = Len(o) + Len(s) /\ Len(y) = Len(x) + Len(key) /\ Len(z) = Len(y) + 1
       /\ Len(d) = Len(z) + Len(b)
       /\ Len(o) \in Nat /\ Len(s) \in Nat /\ Len(key) \in Nat /\ Len(b) \in Nat
  BY <1>2, <1>3, <1>5, <1>7, <1>9 DEF Both
<1>11. /\ \A j \in 1..Len(x) : d[j] = x[j]
       /\ \A j \in 1..Len(y) : d[j] = y[j]
       /\ \A j \in 1..Len(z) : d[j] = z[j]
  <2>1. \A j \in 1..Len(z) : d[j] = z[j]
    BY <1>9 DEF Both
  <2>2. \A j \in 1..Len(y) : z[j] = y[j] /\ j \in 1..Len(z)
    BY <1>7, <1>10 DEF Both
  <2>3. \A j \in 1..Len(x) : y[j] = x[j] /\ j \in 1..Len(y)
    BY <1>5, <1>10 DEF Both
  <2> QED BY <2>1, <2>2, <2>3
<1>12. \A j \in 1..Len(o) : d[j] = o[j]
  <2>1. \A j \in 1..Len(o) : x[j] = o[j] /\ j \in 1..Len(x)
    BY <1>3, <1>10 DEF Both
  <2> QED BY <1>11, <2>1
<1>13. o # <<>> => d[Len(o) + 1] = ";"
  <2> HAVE o # <<>>
  <2>0. Len(s) = 1
    BY <1>1
  <2>s. s[1] = ";"
    BY <1>1
  <2>1. \A j \in 1..Len(s) : x[Len(o) + j] = s[j]
    BY <1>3, Zenon DEF Both
  <2>2. 1 \in 1..Len(s) /\ Len(o) + 1 \in 1..Len(x)
    BY <1>10, <2>0
  <2>3. x[Len(o) + 1] = s[1]
    BY <2>1, <2>2
  <2> QED BY <1>11, <2>2, <2>3, <2>s
<1>14. \A j \in 1..Len(key) : d[Len(o) + Len(s) + j] = key[j]
  <2>1. \A j \in 1..Len(key) : y[Len(x) + j] = key[j] /\ Len(x) + j \in 1..Len(y)
    BY <1>5, <1>10 DEF Both
  <2> QED BY <1>10, <1>11, <2>1
<1>15. d[Len(o) + Len(s) + Len(key) + 1] = "="
  <2>1. z[Len(y) + 1] = e[1] /\ Len(y) + 1 \in 1..Len(z)
    BY <1>2, <1>7, <1>10 DEF Both
  <2> QED BY <1>2, <1>10, <1>11, <2>1
<1>16. \A j \in 1..Len(b) : d[Len(o) + Len(s) + Len(key) + 1 + j] = b[j]
  <2>1. \A j \in 1..Len(b) : d[Len(z) + j] = b[j]
    BY <1>9 DEF Both
  <2> QED BY <1>10, <2>1
<1>17. Extends(o, d)
  BY <1>10, <1>12 DEF Extends
<1>18. d \in Seq(ConnChars) /\ Len(d) = Len(o) + Len(s) + Len(key) + 1 + Len(b)
  BY <1>9, <1>10 DEF Both
<1>19. Entry(d, o, key, b)
  BY <1>13, <1>14, <1>15, <1>16, <1>17, <1>18, Zenon DEF Entry, s
<1> QED BY <1>19 DEF d, z, y, x, e, s, Added

LEMMA EchoRules ==
  ASSUME ValuesTyped
  PROVE  /\ EchoOf[0] = <<>> /\ \A k \in 0..ConnN : EchoOf[k] \in Seq(ConnChars)
         /\ \A k \in 1..ConnN : values[k] = <<>> => EchoOf[k] = EchoOf[k - 1]
         /\ \A k \in 1..ConnN : values[k] # <<>> =>
               EchoOf[k] = Added(EchoOf[k - 1], EchoedKeys[k], ConnStr!Braced(values[k]))
<1> DEFINE S == Seq(ConnChars)
           n == ConnN
           L == EchoOf
           G == [x \in S \X (1..n) |-> ConnStr!Appended(x[1], EchoedKeys[x[2]], values[x[2]])]
<1>0. n \in Nat /\ <<>> \in S
  BY KeysAre, EmptySeq
<1>1. \A k \in 1..n : EchoedKeys[k] \in S /\ values[k] \in S /\ ConnStr!Braced(values[k]) \in S
  BY KeysAre, BracedIs DEF ValuesTyped
<1>2. \A k \in 1..n, x \in S : G[<<x, k>>] = ConnStr!Appended(x, EchoedKeys[k], values[k])
  OBVIOUS
<1>3. \A k, x : ConnStr!Appended(x, EchoedKeys[k], values[k])
                = IF values[k] = <<>> THEN x
                  ELSE Added(x, EchoedKeys[k], ConnStr!Braced(values[k]))
  BY DEF ConnStr!Appended, Added, Separator
<1>4. \A k \in 1..n, x \in S : Added(x, EchoedKeys[k], ConnStr!Braced(values[k])) \in S
  <2> TAKE k \in 1..n, x \in S
  <2>1. Entry(Added(x, EchoedKeys[k], ConnStr!Braced(values[k])), x, EchoedKeys[k], ConnStr!Braced(values[k]))
    BY <1>1, EntryIs
  <2> QED BY <2>1, Zenon DEF Entry
<1> HIDE DEF S, G, n
<1>5. Steps(n, S, G)
  <2>1. \A k \in 1..n, x \in S : G[<<x, k>>] \in S
    BY <1>2, <1>3, <1>4
  <2> QED BY <2>1, Zenon DEF Steps
<1>6. \E f \in [0..n -> S] : Chained(f, n, <<>>, G)
  BY <1>0, <1>5, Chain, Zenon
<1>7. PICK f \in [0..n -> S] : f = [k \in 0..n |-> IF k = 0 THEN <<>> ELSE G[<<f[k - 1], k>>]]
  BY <1>6 DEF Chained
<1>8. \A k \in 0..n : k # 0 => k \in 1..n /\ k - 1 \in 0..n
  BY <1>0
<1>9. f = [k \in 0..n |-> IF k = 0 THEN <<>> ELSE ConnStr!Appended(f[k - 1], EchoedKeys[k], values[k])]
  <2>1. \A k \in 0..n : (IF k = 0 THEN <<>> ELSE G[<<f[k - 1], k>>])
                        = IF k = 0 THEN <<>> ELSE ConnStr!Appended(f[k - 1], EchoedKeys[k], values[k])
    BY <1>2, <1>8
  <2> QED BY <1>7, <2>1
<1> HIDE DEF L
<1>10. L = [k \in 0..n |-> IF k = 0 THEN <<>> ELSE ConnStr!Appended(L[k - 1], EchoedKeys[k], values[k])]
  BY <1>9, Zenon DEF L, EchoOf, n, ConnN
<1>11. L[0] = <<>> /\ \A k \in 1..n : L[k] = ConnStr!Appended(L[k - 1], EchoedKeys[k], values[k])
  <2>1. 0 \in 0..n /\ \A k \in 1..n : k \in 0..n /\ k # 0
    BY <1>0
  <2> QED BY <1>10, <2>1
<1>12. \A k \in 0..n : L[k] \in S
  <2> DEFINE P == {k \in Nat : k <= n => L[k] \in S}
  <2>1. 0 \in P
    BY <1>0, <1>11
  <2>2. ASSUME NEW k \in Nat, k \in P PROVE k + 1 \in P
    <3> SUFFICES ASSUME k + 1 <= n PROVE L[k + 1] \in S
      OBVIOUS
    <3>1. k + 1 \in 1..n /\ (k + 1) - 1 = k /\ L[k] \in S
      BY <1>0, <2>2
    <3>2. L[k + 1] = ConnStr!Appended(L[k], EchoedKeys[k + 1], values[k + 1])
      BY <1>11, <3>1
    <3> QED BY <1>3, <1>4, <3>1, <3>2
  <2>3. Nat \subseteq P
    <3> HIDE DEF P
    <3> QED BY <2>1, <2>2, SetInduction
  <2>4. \A k \in Nat : k <= n => L[k] \in S
    BY <2>3
  <2> QED BY <2>4
<1>14. /\ \A k \in 1..n : values[k] = <<>> => L[k] = L[k - 1]
       /\ \A k \in 1..n : values[k] # <<>> => L[k] = Added(L[k - 1], EchoedKeys[k], ConnStr!Braced(values[k]))
  BY <1>3, <1>11
<1> QED BY <1>11, <1>12, <1>14 DEF L, n, S

LEMMA ExtendsOn ==
  ASSUME NEW S, NEW a \in Seq(S), NEW b \in Seq(S), NEW c \in Seq(S), Extends(a, b), Extends(b, c)
  PROVE  Extends(a, c)
<1>1. Len(a) \in Nat /\ Len(b) \in Nat /\ Len(c) \in Nat
  OBVIOUS
<1>2. /\ Len(a) <= Len(b) /\ Len(b) <= Len(c) /\ (\A q \in 1..Len(a) : b[q] = a[q])
      /\ \A q \in 1..Len(b) : c[q] = b[q]
  BY DEF Extends
<1>3. \A q \in 1..Len(a) : c[q] = a[q]
  <2> TAKE q \in 1..Len(a)
  <2>1. q \in 1..Len(b)
    BY <1>1, <1>2
  <2> QED BY <1>2, <2>1
<1>4. Len(a) <= Len(c)
  BY <1>1, <1>2
<1> QED BY <1>3, <1>4 DEF Extends

\* An entry begins with what was there, and no entry is empty.
LEMMA EchoSteps ==
  ASSUME ValuesTyped, NEW k \in 1..ConnN
  PROVE  /\ Extends(EchoOf[k - 1], EchoOf[k])
         /\ values[k] # <<>> =>
               Entry(EchoOf[k], EchoOf[k - 1], EchoedKeys[k], ConnStr!Braced(values[k]))
<1>1. ConnN \in Nat /\ EchoedKeys[k] \in Seq(ConnChars) /\ values[k] \in Seq(ConnChars)
  BY KeysAre DEF ValuesTyped
<1>2. k - 1 \in 0..ConnN /\ k \in 0..ConnN
  BY <1>1
<1>3. /\ EchoOf[k - 1] \in Seq(ConnChars) /\ EchoOf[k] \in Seq(ConnChars)
      /\ ConnStr!Braced(values[k]) \in Seq(ConnChars)
  BY <1>1, <1>2, EchoRules, BracedIs
<1>4. ASSUME values[k] # <<>>
      PROVE  Entry(EchoOf[k], EchoOf[k - 1], EchoedKeys[k], ConnStr!Braced(values[k]))
  <2>1. EchoOf[k] = Added(EchoOf[k - 1], EchoedKeys[k], ConnStr!Braced(values[k]))
    BY <1>4, EchoRules
  <2> QED BY <1>1, <1>3, <2>1, EntryIs
<1>5. Extends(EchoOf[k - 1], EchoOf[k])
  <2>1. CASE values[k] # <<>>
    BY <1>4, <2>1, Zenon DEF Entry
  <2>2. CASE values[k] = <<>>
    <3>1. EchoOf[k] = EchoOf[k - 1]
      BY <2>2, EchoRules
    <3> QED BY <1>3, <3>1 DEF Extends
  <2> QED BY <2>1, <2>2
<1> QED BY <1>4, <1>5

LEMMA EchoGrows ==
  ASSUME ValuesTyped
  PROVE  \A k \in 0..ConnN : Extends(EchoOf[k], EchoOf[ConnN])
<1> DEFINE n == ConnN
           P == {z \in Nat : \A k \in 0..n : n - k <= z => Extends(EchoOf[k], EchoOf[n])}
<1>1. n \in Nat /\ \A k \in 0..n : EchoOf[k] \in Seq(ConnChars)
  BY KeysAre, EchoRules
<1>2. \A k \in 0..n : k + 1 \in 0..n => Extends(EchoOf[k], EchoOf[k + 1])
  <2> TAKE k \in 0..n
  <2> HAVE k + 1 \in 0..n
  <2>1. k + 1 \in 1..n /\ (k + 1) - 1 = k
    BY <1>1
  <2> QED BY <2>1, EchoSteps
<1> HIDE DEF n
<1>3. Extends(EchoOf[n], EchoOf[n])
  BY <1>1 DEF Extends
<1>4. 0 \in P
  <2> SUFFICES ASSUME NEW k \in 0..n, n - k <= 0 PROVE Extends(EchoOf[k], EchoOf[n])
    OBVIOUS
  <2>1. k = n
    BY <1>1
  <2> QED BY <1>3, <2>1
<1>5. ASSUME NEW z \in Nat, z \in P PROVE z + 1 \in P
  <2> SUFFICES ASSUME NEW k \in 0..n, n - k <= z + 1 PROVE Extends(EchoOf[k], EchoOf[n])
    OBVIOUS
  <2>1. k = n \/ (k + 1 \in 0..n /\ n - (k + 1) <= z)
    BY <1>1
  <2>2. CASE k = n
    BY <1>3, <2>2
  <2>3. CASE k + 1 \in 0..n /\ n - (k + 1) <= z
    <3>1. Extends(EchoOf[k + 1], EchoOf[n])
      BY <1>5, <2>3
    <3>2. Extends(EchoOf[k], EchoOf[k + 1])
      BY <1>2, <2>3
    <3>3. EchoOf[k] \in Seq(ConnChars) /\ EchoOf[k + 1] \in Seq(ConnChars) /\ EchoOf[n] \in Seq(ConnChars)
      BY <1>1, <2>3
    <3> HIDE DEF P
    <3> QED BY <3>1, <3>2, <3>3, ExtendsOn
  <2> QED BY <2>1, <2>2, <2>3
<1>6. Nat \subseteq P
  <2> HIDE DEF P
  <2> QED BY <1>4, <1>5, SetInduction
<1>7. \A z \in Nat : \A k \in 0..n : n - k <= z => Extends(EchoOf[k], EchoOf[n])
  BY <1>6
<1>8. \A k \in 0..n : Extends(EchoOf[k], EchoOf[n])
  <2> TAKE k \in 0..n
  <2>1. n - k \in Nat /\ n - k <= n - k
    BY <1>1
  <2> QED BY <1>7, <2>1
<1> QED BY <1>8 DEF n

\* After the k-th key: nothing more, or the next key with a value.
NoMore(k) == EchoOf[ConnN] = EchoOf[k] /\ \A j \in k + 1..ConnN : values[j] = <<>>
More(k, m) ==
    /\ m \in k + 1..ConnN /\ values[m] # <<>> /\ EchoOf[m - 1] = EchoOf[k]
    /\ \A j \in k + 1..m - 1 : values[j] = <<>>

LEMMA NextKey ==
  ASSUME ValuesTyped
  PROVE  \A k \in 0..ConnN : NoMore(k) \/ \E m \in 1..ConnN : More(k, m)
<1> DEFINE n == ConnN
           Q(k) == NoMore(k) \/ \E m \in 1..n : More(k, m)
           P == {z \in Nat : \A k \in 0..n : n - k <= z => Q(k)}
<1>1. n \in Nat /\ \A k \in 1..n : values[k] = <<>> => EchoOf[k] = EchoOf[k - 1]
  BY KeysAre, EchoRules
<1>n. n = ConnN
  OBVIOUS
<1> HIDE DEF n
<1>2. Q(n)
  <2>1. \A j \in n + 1..n : FALSE
    BY <1>1
  <2>2. NoMore(n)
    BY <1>n, <2>1 DEF NoMore
  <2> QED BY <2>2
<1>3. ASSUME NEW k \in 0..n, k + 1 \in 1..n, Q(k + 1) PROVE Q(k)
  <2>0. (k + 1) - 1 = k
    BY <1>1
  <2>1. CASE values[k + 1] # <<>>
    <3>1. k + 1 \in k + 1..n /\ \A j \in k + 1..(k + 1) - 1 : FALSE
      BY <1>1, <1>3
    <3>2. More(k, k + 1)
      BY <1>n, <2>0, <2>1, <3>1 DEF More
    <3> QED BY <1>3, <3>2
  <2>2. CASE values[k + 1] = <<>>
    <3>1. EchoOf[k + 1] = EchoOf[k]
      BY <1>1, <1>3, <2>0, <2>2
    <3>2. CASE NoMore(k + 1)
      <4>1. \A j \in k + 1..n : j = k + 1 \/ j \in (k + 1) + 1..n
        BY <1>1
      <4>2. NoMore(k)
        BY <1>n, <2>2, <3>1, <3>2, <4>1 DEF NoMore
      <4> QED BY <4>2
    <3>3. ASSUME NEW m \in 1..n, More(k + 1, m) PROVE Q(k)
      <4>0. m \in (k + 1) + 1..n
        BY <1>n, <3>3 DEF More
      <4>1. m \in k + 1..n /\ \A j \in k + 1..m - 1 : j = k + 1 \/ j \in (k + 1) + 1..m - 1
        BY <1>1, <4>0
      <4>2. More(k, m)
        BY <1>n, <2>2, <3>1, <3>3, <4>1 DEF More
      <4> QED BY <4>2
    <3> HIDE DEF P
    <3> QED BY <1>3, <3>2, <3>3
  <2> QED BY <2>1, <2>2
<1> HIDE DEF Q
<1>4. 0 \in P
  <2> SUFFICES ASSUME NEW k \in 0..n, n - k <= 0 PROVE Q(k)
    OBVIOUS
  <2>1. k = n
    BY <1>1
  <2> QED BY <1>2, <2>1
<1>5. ASSUME NEW z \in Nat, z \in P PROVE z + 1 \in P
  <2> SUFFICES ASSUME NEW k \in 0..n, n - k <= z + 1 PROVE Q(k)
    OBVIOUS
  <2>1. k = n \/ (k + 1 \in 1..n /\ k + 1 \in 0..n /\ n - (k + 1) <= z)
    BY <1>1
  <2> QED BY <1>2, <1>3, <1>5, <2>1
<1>6. Nat \subseteq P
  <2> HIDE DEF P
  <2> QED BY <1>4, <1>5, SetInduction
<1>7. \A z \in Nat : \A k \in 0..n : n - k <= z => Q(k)
  BY <1>6
<1>8. \A k \in 0..n : Q(k)
  <2> TAKE k \in 0..n
  <2>1. n - k \in Nat /\ n - k <= n - k
    BY <1>1
  <2> QED BY <1>7, <2>1
<1> QED BY <1>8 DEF Q, n

\* What follows an entry: a semicolon, or nothing.
LEMMA EntryEnds ==
  ASSUME ValuesTyped, NEW k \in 0..ConnN, EchoOf[k] # <<>>
  PROVE  /\ Len(EchoOf[k]) \in Nat /\ Len(EchoOf[ConnN]) \in Nat
         /\ \/ Len(EchoOf[k]) = Len(EchoOf[ConnN])
            \/ Len(EchoOf[k]) < Len(EchoOf[ConnN]) /\ EchoOf[ConnN][Len(EchoOf[k]) + 1] = ";"
<1>1. ConnN \in Nat /\ \A j \in 0..ConnN : EchoOf[j] \in Seq(ConnChars)
  BY KeysAre, EchoRules
<1>2. ConnN \in 0..ConnN
  BY <1>1
<1>3. Len(EchoOf[k]) \in Nat /\ Len(EchoOf[ConnN]) \in Nat
  BY <1>1, <1>2
<1>4. CASE NoMore(k)
  BY <1>3, <1>4 DEF NoMore
<1>5. ASSUME NEW m \in 1..ConnN, More(k, m)
      PROVE  Len(EchoOf[k]) < Len(EchoOf[ConnN]) /\ EchoOf[ConnN][Len(EchoOf[k]) + 1] = ";"
  <2> DEFINE o == EchoOf[k]
             d == EchoOf[m]
             t == EchoOf[ConnN]
             key == EchoedKeys[m]
             b == ConnStr!Braced(values[m])
  <2>0. m \in 0..ConnN
    BY <1>1, <1>5
  <2>k. key \in Seq(ConnChars) /\ key # <<>>
    BY <1>5, KeysAre, Zenon
  <2>1. m \in 0..ConnN /\ key \in Seq(ConnChars) /\ key # <<>> /\ values[m] \in Seq(ConnChars)
    BY <1>5, <2>0, <2>k DEF ValuesTyped
  <2>2. Entry(d, o, key, b) /\ Extends(d, t) /\ b \in Seq(ConnChars)
    <3>1. Entry(EchoOf[m], EchoOf[m - 1], key, b)
      BY <1>5, EchoSteps DEF More
    <3>2. EchoOf[m - 1] = EchoOf[k]
      BY <1>5, Zenon DEF More
    <3> QED BY <2>1, <3>1, <3>2, EchoGrows, BracedIs
  <2>3. o \in Seq(ConnChars) /\ o # <<>> /\ d \in Seq(ConnChars) /\ t \in Seq(ConnChars)
    BY <1>1, <1>2, <2>1
  <2> HIDE DEF o, d, t, key, b
  <2>4. Len(d) = Len(o) + Len(Separator(o)) + Len(key) + 1 + Len(b)
    BY <2>2, Zenon DEF Entry
  <2>s. d[Len(o) + 1] = ";"
    BY <2>2, <2>3, Zenon DEF Entry
  <2>5. Len(Separator(o)) = 1
    BY <2>3 DEF Separator
  <2>6. Len(o) \in Nat /\ Len(key) \in Nat /\ Len(b) \in Nat /\ Len(t) \in Nat /\ Len(d) \in Nat
    BY <2>1, <2>2, <2>3
  <2>7. Len(o) + 1 \in 1..Len(d) /\ Len(o) < Len(d)
    BY <2>4, <2>5, <2>6
  <2>8. Len(d) <= Len(t) /\ t[Len(o) + 1] = d[Len(o) + 1]
    BY <2>2, <2>7 DEF Extends
  <2>9. Len(o) < Len(t)
    BY <2>6, <2>7, <2>8
  <2> QED BY <2>8, <2>9, <2>s DEF o, t
<1> QED BY <1>3, <1>4, <1>5, NextKey

-----------------------------------------------------------------------------
(* ConnString: reading it *)

\* The least place of a set, in the words of the module.
LEMMA LeastIs ==
  ASSUME NEW T, T \subseteq Int, NEW j \in T, \A l \in T : j <= l
  PROVE  (CHOOSE x \in T : \A l \in T : x <= l) = j
<1>1. \A x \in T : (\A l \in T : x <= l) => x = j
  <2> TAKE x \in T
  <2> HAVE \A l \in T : x <= l
  <2>1. x <= j /\ j <= x /\ x \in Int /\ j \in Int
    OBVIOUS
  <2> QED BY <2>1
<1> DEFINE c == CHOOSE x \in T : \A l \in T : x <= l
<1>2. c \in T /\ \A l \in T : c <= l
  <2>1. \E x \in T : \A l \in T : x <= l
    OBVIOUS
  <2> QED BY <2>1, Zenon
<1> HIDE DEF c
<1>3. c = j
  BY <1>1, <1>2, Zenon
<1> QED BY <1>3 DEF c

LEMMA GreatestIs ==
  ASSUME NEW T, T \subseteq Int, NEW j \in T, \A l \in T : j >= l
  PROVE  (CHOOSE x \in T : \A l \in T : x >= l) = j
<1>1. \A x \in T : (\A l \in T : x >= l) => x = j
  <2> TAKE x \in T
  <2> HAVE \A l \in T : x >= l
  <2>1. x >= j /\ j >= x /\ x \in Int /\ j \in Int
    OBVIOUS
  <2> QED BY <2>1
<1> DEFINE c == CHOOSE x \in T : \A l \in T : x >= l
<1>2. c \in T /\ \A l \in T : c >= l
  <2>1. \E x \in T : \A l \in T : x >= l
    OBVIOUS
  <2> QED BY <2>1, Zenon
<1> HIDE DEF c
<1>3. c = j
  BY <1>1, <1>2, Zenon
<1> QED BY <1>3 DEF c

LEMMA FindIs ==
  ASSUME Len(string) \in Nat, NEW c, NEW k \in Int, NEW j \in k..Len(string) + 1,
         j <= Len(string) => string[j] = c, \A l \in k..j - 1 : string[l] # c
  PROVE  ConnStr!Find(c, k) = j
<1> DEFINE T == {l \in k..Len(string) : string[l] = c}
<1>1. T \subseteq Int
  OBVIOUS
<1>2. ConnStr!Find(c, k) = IF T = {} THEN Len(string) + 1
                           ELSE CHOOSE x \in T : \A l \in T : x <= l
  BY DEF ConnStr!Find, ConnStr!n
<1>3. CASE j = Len(string) + 1
  <2>1. \A l \in k..Len(string) : l \in k..j - 1
    BY <1>3
  <2>2. T = {}
    BY <2>1
  <2> QED BY <1>2, <1>3, <2>2
<1>4. CASE j <= Len(string)
  <2>1. j \in T
    BY <1>4
  <2>2. \A l \in T : j <= l
    <3> TAKE l \in T
    <3>1. l \in k..Len(string) /\ string[l] = c /\ l \notin k..j - 1
      OBVIOUS
    <3>2. l \in k..Len(string) /\ l \notin k..j - 1 /\ j \in Int
      BY <3>1
    <3> HIDE DEF T
    <3> QED BY <3>2
  <2> HIDE DEF T
  <2>3. (CHOOSE x \in T : \A l \in T : x <= l) = j
    BY <1>1, <2>1, <2>2, LeastIs
  <2>4. T # {}
    BY <2>1
  <2> QED BY <1>2, <2>3, <2>4
<1> QED BY <1>3, <1>4

LEMMA SkipIs ==
  ASSUME Len(string) \in Nat, NEW cs, NEW k \in Int, NEW j \in k..Len(string) + 1,
         j <= Len(string) => string[j] \notin cs, \A l \in k..j - 1 : string[l] \in cs
  PROVE  ConnStr!Skip(cs, k) = j
<1> DEFINE T == {l \in k..Len(string) : string[l] \notin cs}
<1>1. T \subseteq Int
  OBVIOUS
<1>2. ConnStr!Skip(cs, k) = IF T = {} THEN Len(string) + 1
                            ELSE CHOOSE x \in T : \A l \in T : x <= l
  BY DEF ConnStr!Skip, ConnStr!n
<1>3. CASE j = Len(string) + 1
  <2>1. \A l \in k..Len(string) : l \in k..j - 1
    BY <1>3
  <2>2. T = {}
    BY <2>1
  <2> QED BY <1>2, <1>3, <2>2
<1>4. CASE j <= Len(string)
  <2>1. j \in T
    BY <1>4
  <2>2. \A l \in T : j <= l
    <3> TAKE l \in T
    <3>1. l \in k..Len(string) /\ string[l] \notin cs /\ l \notin k..j - 1
      OBVIOUS
    <3>2. l \in k..Len(string) /\ l \notin k..j - 1 /\ j \in Int
      BY <3>1
    <3> HIDE DEF T
    <3> QED BY <3>2
  <2> HIDE DEF T
  <2>3. (CHOOSE x \in T : \A l \in T : x <= l) = j
    BY <1>1, <2>1, <2>2, LeastIs
  <2>4. T # {}
    BY <2>1
  <2> QED BY <1>2, <2>3, <2>4
<1> QED BY <1>3, <1>4

LEMMA Within ==
  \A a, b \in Int : a <= b =>
     a \in a..b /\ b \in a..b /\ \A l \in a..b : l \in Int /\ a <= l /\ b >= l
  OBVIOUS

\* What neither begins nor ends in a space is not trimmed.
LEMMA TrimmedIs ==
  ASSUME NEW a \in Int, NEW b \in Int, a <= b, string[a] # " ", string[b] # " "
  PROVE  ConnStr!Trimmed(a, b) = SubSeq(string, a, b)
<1> DEFINE T == {j \in a..b : string[j] # " "}
<1>0. a \in a..b /\ b \in a..b /\ \A l \in a..b : l \in Int /\ a <= l /\ b >= l
  BY Within, Zenon
<1>1. T \subseteq Int /\ a \in T /\ b \in T /\ \A l \in T : a <= l /\ b >= l
  BY <1>0, Zenon
<1>2. \A l \in T : a <= l /\ b >= l
  BY <1>1, Zenon
<1>3. ConnStr!Trimmed(a, b) = IF T = {} THEN <<>>
         ELSE SubSeq(string, CHOOSE j \in T : \A l \in T : j <= l, CHOOSE j \in T : \A l \in T : j >= l)
  BY DEF ConnStr!Trimmed
<1> HIDE DEF T
<1>4. (CHOOSE x \in T : \A l \in T : x <= l) = a
  BY <1>1, <1>2, LeastIs
<1>5. (CHOOSE x \in T : \A l \in T : x >= l) = b
  BY <1>1, <1>2, GreatestIs
<1>6. T # {}
  BY <1>1
<1> QED BY <1>3, <1>4, <1>5, <1>6

\* A part of the string that is known element by element.
LEMMA PartIs ==
  ASSUME NEW S, NEW w \in Seq(S), NEW a \in Int, NEW b \in Int, b = a + Len(w) - 1,
         \A j \in 1..Len(w) : string[a + j - 1] = w[j]
  PROVE  SubSeq(string, a, b) = w
<1>1. Len(w) \in Nat /\ \A j \in 1..Len(w) : w[j] \in S
  OBVIOUS
<1>2. \A q \in a..b : string[q] \in S
  <2> TAKE q \in a..b
  <2>1. q - a + 1 \in 1..Len(w) /\ a + (q - a + 1) - 1 = q
    BY <1>1
  <2> QED BY <1>1, <2>1
<1> DEFINE o == SubSeq(string, a, b)
<1>3. /\ o \in Seq(S) /\ Len(o) = IF a <= b THEN b - a + 1 ELSE 0
      /\ \A q \in 1..b - a + 1 : o[q] = string[a + q - 1]
  BY <1>2, SubSeqProperties
<1> HIDE DEF o
<1>4. Len(o) = Len(w) /\ \A q \in 1..Len(o) : o[q] = w[q]
  <2>1. b - a + 1 = Len(w) /\ (~(a <= b) => Len(w) = 0)
    BY <1>1
  <2>2. Len(o) = Len(w)
    BY <1>3, <2>1
  <2> QED BY <1>3, <2>1, <2>2
<1>5. o = w
  BY <1>3, <1>4, SeqEqual
<1> QED BY <1>5 DEF o

\* An entry in the string: the key after the x-th character, and the last of
\* its value at z; from is where the entry before it ends.
Laid(before, x, key, b, z) ==
    /\ before \in Nat /\ x \in {before, before + 1} /\ (x # before => string[before + 1] = ";")
    /\ z = x + Len(key) + 1 + Len(b) /\ z <= Len(string) /\ Len(string) \in Nat
    /\ \A j \in 1..Len(key) : string[x + j] = key[j]
    /\ string[x + Len(key) + 1] = "="
    /\ \A j \in 1..Len(b) : string[x + Len(key) + 1 + j] = b[j]
    /\ z < Len(string) => string[z + 1] = ";"

LEMMA LaidOut ==
  ASSUME ValuesTyped, string = EchoOf[ConnN], NEW k \in 0..ConnN, NEW m \in 1..ConnN, More(k, m)
  PROVE  \E x : Laid(Len(EchoOf[k]), x, EchoedKeys[m], ConnStr!Braced(values[m]), Len(EchoOf[m]))
<1> DEFINE o == EchoOf[k]
           d == EchoOf[m]
           key == EchoedKeys[m]
           b == ConnStr!Braced(values[m])
           x == Len(o) + Len(Separator(o))
<1>1. ConnN \in Nat /\ \A j \in 0..ConnN : EchoOf[j] \in Seq(ConnChars)
  BY KeysAre, EchoRules
<1>2. m \in 0..ConnN /\ ConnN \in 0..ConnN
  BY <1>1
<1>3. key \in Seq(ConnChars) /\ values[m] \in Seq(ConnChars) /\ b \in Seq(ConnChars)
  <2>1. key \in Seq(ConnChars)
    BY KeysAre, Zenon
  <2>2. values[m] \in Seq(ConnChars)
    BY DEF ValuesTyped
  <2> QED BY <2>1, <2>2, BracedIs
<1>4. o \in Seq(ConnChars) /\ d \in Seq(ConnChars) /\ string \in Seq(ConnChars)
  BY <1>1, <1>2
<1>5. Entry(d, o, key, b) /\ Extends(d, string)
  <2>1. Entry(EchoOf[m], EchoOf[m - 1], key, b) /\ EchoOf[m - 1] = EchoOf[k]
    BY EchoSteps DEF More
  <2>2. Extends(EchoOf[m], EchoOf[ConnN])
    BY <1>2, EchoGrows
  <2> QED BY <2>1, <2>2
<1>6. d # <<>> => \/ Len(d) = Len(string)
                  \/ Len(d) < Len(string) /\ string[Len(d) + 1] = ";"
  BY <1>2, EntryEnds
<1> HIDE DEF o, d, key, b
<1>7. /\ Len(o) \in Nat /\ Len(d) \in Nat /\ Len(key) \in Nat /\ Len(b) \in Nat
      /\ Len(string) \in Nat
  BY <1>3, <1>4
<1>8. (o = <<>> => Len(Separator(o)) = 0) /\ (o # <<>> => Len(Separator(o)) = 1)
  BY DEF Separator
<1>9. x \in {Len(o), Len(o) + 1} /\ (x # Len(o) => o # <<>>) /\ x \in Nat
  <2>1. CASE o = <<>>
    <3>1. x = Len(o)
      BY <1>7, <1>8, <2>1
    <3> QED BY <1>7, <3>1
  <2>2. CASE o # <<>>
    <3>1. x = Len(o) + 1
      BY <1>8, <2>2
    <3> QED BY <1>7, <2>2, <3>1
  <2> QED BY <2>1, <2>2
<1> HIDE DEF x
<1>10. Len(d) = x + Len(key) + 1 + Len(b)
  BY <1>5, Zenon DEF Entry, x
<1>11. /\ \A j \in 1..Len(key) : d[x + j] = key[j]
       /\ \A j \in 1..Len(b) : d[x + Len(key) + 1 + j] = b[j]
  BY <1>5, Zenon DEF Entry, x
<1>12. d[x + Len(key) + 1] = "="
  BY <1>5, Zenon DEF Entry, x
<1>13. x # Len(o) => d[Len(o) + 1] = ";"
  BY <1>5, <1>9, Zenon DEF Entry
<1>14. Len(d) <= Len(string) /\ \A q \in 1..Len(d) : string[q] = d[q]
  BY <1>5, Zenon DEF Extends
<1>15. \A j \in 1..Len(key) : string[x + j] = key[j]
  <2>1. \A j \in 1..Len(key) : x + j \in 1..Len(d)
    BY <1>7, <1>9, <1>10
  <2> QED BY <1>11, <1>14, <2>1
<1>16. \A j \in 1..Len(b) : string[x + Len(key) + 1 + j] = b[j]
  <2>1. \A j \in 1..Len(b) : x + Len(key) + 1 + j \in 1..Len(d)
    BY <1>7, <1>9, <1>10
  <2> QED BY <1>11, <1>14, <2>1
<1>17. string[x + Len(key) + 1] = "="
  <2>1. x + Len(key) + 1 \in 1..Len(d)
    BY <1>7, <1>9, <1>10
  <2> QED BY <1>12, <1>14, <2>1, Zenon
<1>18. x # Len(o) => string[Len(o) + 1] = ";"
  <2>1. Len(o) + 1 \in 1..Len(d) \/ x = Len(o)
    BY <1>7, <1>9, <1>10
  <2> QED BY <1>13, <1>14, <2>1, Zenon
<1>19. Len(d) < Len(string) => string[Len(d) + 1] = ";"
  <2>1. Len(d) >= 1
    BY <1>7, <1>9, <1>10
  <2>2. d # <<>> /\ ~(Len(d) < Len(string) /\ Len(d) = Len(string))
    BY <1>7, <2>1
  <2> QED BY <1>6, <2>2, Zenon
<1>20. Laid(Len(o), x, key, b, Len(d))
  BY <1>7, <1>9, <1>10, <1>14, <1>15, <1>16, <1>17, <1>18, <1>19, Zenon DEF Laid
<1> QED BY <1>20 DEF o, d, key, b

\* The parser finds the key of an entry.
KeyCharsOnly(key) == \A j \in 1..Len(key) : key[j] \notin {"=", ";", " "}

LEMMA KeyFound ==
  ASSUME NEW S, NEW key \in Seq(S), key # <<>>, NEW b, Len(b) \in Nat \ {0},
         KeyCharsOnly(key), NEW x, NEW z, Laid(at - 1, x, key, b, z), at \in Int
  PROVE  /\ ConnStr!Start = x + 1 /\ ConnStr!Equals = x + Len(key) + 1 /\ ConnStr!Key = key
         /\ x \in Nat /\ x + Len(key) + 1 < Len(string)
<1> DEFINE L == Len(key)
           N == Len(string)
           e == x + L + 1
           B == Len(b)
<1>1. L \in Nat \ {0}
  BY SMT
<1>2. at - 1 \in Nat /\ x \in {at - 1, (at - 1) + 1} /\ z = x + L + 1 + B /\ z <= N /\ N \in Nat
  BY Zenon DEF Laid
<1>3. x # at - 1 => string[(at - 1) + 1] = ";"
  BY Zenon DEF Laid
<1>4. \A j \in 1..L : string[x + j] = key[j]
  BY Zenon DEF Laid
<1>5. string[e] = "="
  BY Zenon DEF Laid
<1>b. B \in Nat \ {0}
  OBVIOUS
<1>k. \A j \in 1..L : key[j] \notin {"=", ";", " "}
  BY Zenon DEF KeyCharsOnly
<1> HIDE DEF L, N, B
<1>6. /\ x \in Nat /\ e < N /\ x + 1 \in at..N + 1 /\ x + 1 <= N /\ e \in x + 1..N + 1
      /\ e <= N /\ 1 \in 1..L /\ L \in 1..L /\ e - 1 = x + L /\ x + 1 <= e - 1 /\ e \in Int /\ (at - 1) + 1 = at
  BY <1>1, <1>2, <1>b
<1>7. ConnStr!Start = x + 1
  <2>1. string[x + 1] \notin {";", " "}
    BY <1>4, <1>6, <1>k, Zenon
  <2>2. \A l \in at..(x + 1) - 1 : string[l] \in {";", " "}
    <3> TAKE l \in at..(x + 1) - 1
    <3>1. l = at /\ x # at - 1
      BY <1>2, <1>6
    <3> QED BY <1>3, <1>6, <3>1
  <2>3. ConnStr!Skip({";", " "}, at) = x + 1
    BY <1>2, <1>6, <2>1, <2>2, SkipIs, Zenon DEF N
  <2> QED BY <2>3 DEF ConnStr!Start
<1>8. ConnStr!Equals = e
  <2>1. \A l \in x + 1..e - 1 : string[l] # "="
    <3> TAKE l \in x + 1..e - 1
    <3>1. l - x \in 1..L /\ x + (l - x) = l
      BY <1>1, <1>6
    <3>2. string[l] = key[l - x]
      BY <1>4, <3>1
    <3> QED BY <1>k, <3>1, <3>2, Zenon
  <2>2. ConnStr!Find("=", x + 1) = e
    <3>1. x + 1 \in Int
      BY <1>6
    <3> QED BY <1>2, <1>5, <1>6, <2>1, <3>1, FindIs, Zenon DEF N
  <2> QED BY <1>7, <2>2 DEF ConnStr!Equals
<1>9. ConnStr!Key = key
  <2>1. string[x + 1] # " " /\ string[e - 1] # " "
    <3>1. string[x + 1] = key[1] /\ string[e - 1] = key[L]
      BY <1>4, <1>6
    <3> QED BY <1>6, <1>k, <3>1, Zenon
  <2>2. x + 1 \in Int /\ e - 1 \in Int
    BY <1>6
  <2>3. ConnStr!Trimmed(x + 1, e - 1) = SubSeq(string, x + 1, e - 1)
    BY <1>6, <2>1, <2>2, TrimmedIs, Zenon
  <2>4. SubSeq(string, x + 1, e - 1) = key
    <3>1. e - 1 = (x + 1) + L - 1
      BY <1>1, <1>6
    <3>2. \A j \in 1..L : string[(x + 1) + j - 1] = key[j]
      <4> TAKE j \in 1..L
      <4>1. (x + 1) + j - 1 = x + j
        BY <1>1, <1>6
      <4> QED BY <1>4, <4>1
    <3> QED BY <2>2, <3>1, <3>2, PartIs, Zenon DEF L
  <2>5. ConnStr!Key = ConnStr!Trimmed(x + 1, e - 1)
    BY <1>7, <1>8, Zenon DEF ConnStr!Key
  <2> QED BY <2>3, <2>4, <2>5
<1> QED BY <1>6, <1>7, <1>8, <1>9 DEF L, N

Lacks(w, c) == \A j \in 1..Len(w) : w[j] # c
NoSpaces(w) == w[1] # " " /\ w[Len(w)] # " "
InBraces(w) == ConnStr!Has(w, ";") /\ Lacks(w, "}")
Unbraced(w) == ~ConnStr!Has(w, ";") /\ w # <<>> /\ Lacks(w, ";") /\ w[1] # "{" /\ NoSpaces(w)

LEMMA SurvivorIs ==
  ASSUME NEW w \in Seq(ConnChars), w # <<>>, ConnStr!Survives(w)
  PROVE  InBraces(w) \/ Unbraced(w)
<1>1. DOMAIN w = 1..Len(w)
  OBVIOUS
<1>2. \A c : ~ConnStr!Has(w, c) => Lacks(w, c)
  BY <1>1, Zenon DEF ConnStr!Has, Lacks
<1>3. /\ ConnStr!Has(w, ";") => ~ConnStr!Has(w, "}")
      /\ ~ConnStr!Has(w, ";") => w[1] \notin {"{", " "} /\ w[Len(w)] # " "
  BY Zenon DEF ConnStr!Survives
<1>4. ~ConnStr!Has(w, ";") => w[1] # "{" /\ NoSpaces(w)
  BY <1>3, Zenon DEF NoSpaces
<1> QED BY <1>2, <1>3, <1>4, Zenon DEF InBraces, Unbraced

\* The value of an entry, after the '=' at e and up to z.
ValueAt(e, b, z) ==
    /\ e \in Nat /\ z = e + Len(b) /\ z <= Len(string) /\ Len(string) \in Nat
    /\ \A j \in 1..Len(b) : string[e + j] = b[j]
    /\ z < Len(string) => string[z + 1] = ";"

LEMMA BracedRead ==
  ASSUME NEW w \in Seq(ConnChars), InBraces(w), NEW e, NEW z,
         ConnStr!Equals = e, ValueAt(e, ConnStr!Braced(w), z)
  PROVE  /\ ConnStr!OpensBrace
         /\ SubSeq(string, e + 2, ConnStr!Find("}", e + 2) - 1) = w
         /\ ConnStr!AfterBrace(ConnStr!Find("}", e + 2)) = z + 1
<1> DEFINE b == ConnStr!Braced(w)
           L == Len(w)
           close == e + 2 + L
           N == Len(string)
<1>1. Len(b) = L + 2 /\ \A j \in 1..L : b[j + 1] = w[j]
  BY BracedIs, Zenon DEF InBraces
<1>2. b[1] = "{" /\ b[L + 2] = "}"
  BY BracedIs, Zenon DEF InBraces
<1>3. L \in Nat
  BY LenProperties
<1>4. e \in Nat /\ z = e + Len(b) /\ z <= N /\ N \in Nat /\ \A j \in 1..Len(b) : string[e + j] = b[j]
  BY Zenon DEF ValueAt
<1>s. z < N => string[z + 1] = ";"
  BY Zenon DEF ValueAt
<1>l. \A j \in 1..L : w[j] # "}"
  BY Zenon DEF Lacks, InBraces
<1> HIDE DEF b, L, N
<1>5. /\ e < N /\ close = z /\ close \in e + 2..N + 1 /\ e + 2 \in Int /\ ~(close > N) /\ close + 1 \in Int
      /\ z + 1 \in close + 1..N + 1 /\ (z + 1 <= N => z < N) /\ close - 1 = (e + 2) + L - 1
      /\ close - 1 \in Int /\ 1 \in 1..Len(b) /\ L + 2 \in 1..Len(b) /\ e + (L + 2) = close
  BY <1>1, <1>3, <1>4
<1>6. \A j \in 1..L : (e + 2) + j - 1 = e + (j + 1) /\ j + 1 \in 1..Len(b)
  BY <1>1, <1>3, <1>4
<1>7. \A j \in 1..L : string[(e + 2) + j - 1] = w[j]
  BY <1>1, <1>4, <1>6
<1>8. string[e + 1] = "{" /\ string[close] = "}"
  BY <1>2, <1>4, <1>5, Zenon
<1>9. ConnStr!OpensBrace
  BY <1>5, <1>8, Zenon DEF ConnStr!OpensBrace, ConnStr!n, N
<1>10. \A l \in e + 2..close - 1 : l - (e + 1) \in 1..L /\ (e + 2) + (l - (e + 1)) - 1 = l
  BY <1>3, <1>4
<1>11. \A l \in e + 2..close - 1 : string[l] # "}"
  <2> TAKE l \in e + 2..close - 1
  <2>1. string[l] = w[l - (e + 1)] /\ l - (e + 1) \in 1..L
    BY <1>7, <1>10
  <2> QED BY <1>l, <2>1, Zenon
<1> HIDE DEF close
<1>12. ConnStr!Find("}", e + 2) = close
  BY <1>4, <1>5, <1>8, <1>11, FindIs, Zenon DEF N
<1>13. SubSeq(string, e + 2, close - 1) = w
  BY <1>5, <1>7, PartIs, Zenon DEF L
<1>14. ConnStr!Find(";", close + 1) = z + 1
  <2>1. (z + 1) - 1 = z /\ \A l \in close + 1..z : FALSE
    BY <1>4, <1>5
  <2>2. \A l \in close + 1..(z + 1) - 1 : string[l] # ";"
    BY <2>1, Zenon
  <2> QED BY <1>4, <1>5, <1>s, <2>2, FindIs, Zenon DEF N
<1>15. ConnStr!AfterBrace(close) = z + 1
  BY <1>5, <1>14, Zenon DEF ConnStr!AfterBrace, ConnStr!n, N
<1> QED BY <1>9, <1>12, <1>13, <1>15

LEMMA PlainRead ==
  ASSUME NEW w \in Seq(ConnChars), Unbraced(w), NEW e, NEW z,
         ConnStr!Equals = e, ValueAt(e, w, z)
  PROVE  /\ ~ConnStr!OpensBrace
         /\ ConnStr!Find(";", e + 1) = z + 1
         /\ ConnStr!Trimmed(e + 1, (z + 1) - 1) = w
<1> DEFINE L == Len(w)
           N == Len(string)
<1>3. L \in Nat \ {0}
  <2>1. w # <<>>
    BY Zenon DEF Unbraced
  <2> QED BY <2>1, EmptySeq
<1>4. e \in Nat /\ z = e + L /\ z <= N /\ N \in Nat /\ \A j \in 1..L : string[e + j] = w[j]
  BY Zenon DEF ValueAt
<1>s. z < N => string[z + 1] = ";"
  BY Zenon DEF ValueAt
<1>l. (\A j \in 1..L : w[j] # ";") /\ w[1] # "{" /\ w[1] # " " /\ w[L] # " "
  BY Zenon DEF Lacks, NoSpaces, Unbraced
<1> HIDE DEF L, N
<1>5. /\ 1 \in 1..L /\ L \in 1..L /\ e + 1 \in Int /\ z + 1 \in e + 1..N + 1 /\ (z + 1 <= N => z < N)
      /\ (z + 1) - 1 = z /\ e + L = z /\ z \in Int /\ e + 1 <= z /\ z = (e + 1) + L - 1
  BY <1>3, <1>4
<1>6. string[e + 1] = w[1] /\ string[z] = w[L]
  BY <1>4, <1>5
<1>7. ~ConnStr!OpensBrace
  BY <1>6, <1>l, Zenon DEF ConnStr!OpensBrace
<1>8. \A l \in e + 1..z : l - e \in 1..L /\ e + (l - e) = l
  BY <1>3, <1>4
<1>9. \A l \in e + 1..(z + 1) - 1 : string[l] # ";"
  <2> TAKE l \in e + 1..(z + 1) - 1
  <2>1. l \in e + 1..z
    BY <1>5
  <2>2. string[l] = w[l - e] /\ l - e \in 1..L
    BY <1>4, <1>8, <2>1
  <2> QED BY <1>l, <2>2, Zenon
<1>10. ConnStr!Find(";", e + 1) = z + 1
  BY <1>4, <1>5, <1>s, <1>9, FindIs, Zenon DEF N
<1>11. ConnStr!Trimmed(e + 1, z) = SubSeq(string, e + 1, z)
  BY <1>5, <1>6, <1>l, TrimmedIs, Zenon
<1>12. SubSeq(string, e + 1, z) = w
  <2>1. \A j \in 1..L : (e + 1) + j - 1 = e + j
    BY <1>4
  <2>2. \A j \in 1..L : string[(e + 1) + j - 1] = w[j]
    BY <1>4, <2>1
  <2> QED BY <1>5, <2>2, PartIs, Zenon DEF L
<1> QED BY <1>5, <1>7, <1>10, <1>11, <1>12

\* What the first k keys and values are.
Pairs(k) == {<<EchoedKeys[l], values[l]>> : l \in {x \in 1..k : values[x] # <<>>}}
ParsedTo(k) == at = Len(EchoOf[k]) + 1 /\ found = Pairs(k)

LEMMA PairsTo ==
  ASSUME ValuesTyped, NEW k \in 0..ConnN
  PROVE  /\ NoMore(k) => Pairs(k) = Pairs(ConnN)
         /\ \A m \in 1..ConnN : More(k, m) =>
              {pair \in Pairs(k) : pair[1] # EchoedKeys[m]} \cup {<<EchoedKeys[m], values[m]>>} = Pairs(m)
<1>1. ConnN \in Nat
  BY KeysAre
<1>2. ASSUME NoMore(k) PROVE Pairs(k) = Pairs(ConnN)
  <2>1. \A x \in 1..ConnN : x \in 1..k \/ x \in k + 1..ConnN
    BY <1>1
  <2>2. \A x \in 1..k : x \in 1..ConnN
    BY <1>1
  <2>3. {x \in 1..k : values[x] # <<>>} = {x \in 1..ConnN : values[x] # <<>>}
    BY <1>2, <2>1, <2>2, Zenon DEF NoMore
  <2> QED BY <2>3, Zenon DEF Pairs
<1>3. ASSUME NEW m \in 1..ConnN, More(k, m)
      PROVE  {pair \in Pairs(k) : pair[1] # EchoedKeys[m]} \cup {<<EchoedKeys[m], values[m]>>} = Pairs(m)
  <2>0. m \in k + 1..ConnN /\ values[m] # <<>> /\ \A j \in k + 1..m - 1 : values[j] = <<>>
    BY <1>3, Zenon DEF More
  <2>1. m \in 1..m /\ \A x \in 1..m : x \in 1..k \/ x = m \/ x \in k + 1..m - 1
    BY <1>1, <2>0
  <2>2. \A x \in 1..k : x \in 1..m /\ x # m /\ x \in 1..ConnN
    BY <1>1, <2>0
  <2>3. \A x \in 1..k : EchoedKeys[x] # EchoedKeys[m]
    BY <2>2, KeysAre, Zenon
  <2> DEFINE A == {x \in 1..k : values[x] # <<>>}
             B == {x \in 1..m : values[x] # <<>>}
             e(x) == <<EchoedKeys[x], values[x]>>
  <2>4. B = A \cup {m} /\ \A x \in A : EchoedKeys[x] # EchoedKeys[m]
    BY <2>0, <2>1, <2>2, <2>3, Zenon
  <2>5. Pairs(k) = {e(x) : x \in A} /\ Pairs(m) = {e(x) : x \in B}
    BY Zenon DEF Pairs
  <2>6. \A x \in A : e(x)[1] = EchoedKeys[x]
    BY SMT
  <2> HIDE DEF A, B
  <2>7. {pair \in {e(x) : x \in A} : pair[1] # EchoedKeys[m]} = {e(x) : x \in A}
    BY <2>4, <2>6
  <2>8. {e(x) : x \in A} \cup {e(m)} = {e(x) : x \in B}
    BY <2>4
  <2> QED BY <2>5, <2>7, <2>8
<1> QED BY <1>2, <1>3

\* With nothing more to read the loop ends.
LEMMA NothingLeft ==
  ASSUME Len(string) \in Nat, at = Len(string) + 1
  PROVE  ~(ConnStr!Start <= ConnStr!n)
<1>1. ConnStr!Skip({";", " "}, at) = Len(string) + 1
  <2>1. /\ at \in Int /\ Len(string) + 1 \in at..Len(string) + 1 /\ ~(Len(string) + 1 <= Len(string))
        /\ \A l \in at..(Len(string) + 1) - 1 : FALSE
    OBVIOUS
  <2>2. \A l \in at..(Len(string) + 1) - 1 : string[l] \in {";", " "}
    BY <2>1, Zenon
  <2>3. Len(string) \in Nat
    OBVIOUS
  <2> QED BY <2>1, <2>2, <2>3, SkipIs, Zenon
<1>2. ConnStr!Start = Len(string) + 1 /\ ConnStr!n = Len(string)
  BY <1>1, Zenon DEF ConnStr!Start, ConnStr!n
<1> QED BY <1>2

\* One turn of the loop reads the next entry.
LEMMA TurnReads ==
  ASSUME ValuesTyped, string = EchoOf[ConnN], NEW k \in 0..ConnN, ParsedTo(k),
         NEW m \in 1..ConnN, More(k, m), ConnStr!Survives(values[m])
  PROVE  /\ ~ConnStr!Finish
         /\ ConnStr!ReadBraced \/ ConnStr!ReadPlain => at' = Len(EchoOf[m]) + 1 /\ found' = Pairs(m)
<1> DEFINE key == EchoedKeys[m]
           w == values[m]
           b == ConnStr!Braced(w)
           z == Len(EchoOf[m])
           e == ConnStr!Equals
<1>1. ConnN \in Nat /\ EchoOf[k] \in Seq(ConnChars)
  BY KeysAre, EchoRules
<1>2. key \in Seq(ConnChars) /\ key # <<>> /\ KeyCharsOnly(key)
  BY KeysAre, Zenon DEF KeyCharsOnly
<1>3. w \in Seq(ConnChars) /\ w # <<>> /\ b \in Seq(ConnChars)
  <2>1. w \in Seq(ConnChars) /\ w # <<>>
    BY DEF ValuesTyped, More
  <2> QED BY <2>1, BracedIs
<1>4. InBraces(w) \/ Unbraced(w)
  BY <1>3, SurvivorIs
<1>5. at = Len(EchoOf[k]) + 1 /\ found = Pairs(k) /\ Len(EchoOf[k]) \in Nat
  BY <1>1, Zenon, LenProperties DEF ParsedTo
<1>6. at \in Int /\ at - 1 = Len(EchoOf[k])
  BY <1>5
<1>7. Len(b) \in Nat \ {0}
  <2>1. Len(w) \in Nat \ {0}
    BY <1>3, EmptySeq
  <2>2. b = w \/ Len(b) = Len(w) + 2
    BY <1>3, BracedIs, Zenon
  <2> HIDE DEF b, w
  <2> QED BY <2>1, <2>2
<1>8. PICK x : Laid(Len(EchoOf[k]), x, key, b, z)
  BY LaidOut
<1>9. Laid(at - 1, x, key, b, z)
  BY <1>6, <1>8
<1>10. /\ ConnStr!Start = x + 1 /\ e = x + Len(key) + 1 /\ ConnStr!Key = key
       /\ x \in Nat /\ x + Len(key) + 1 < Len(string)
  BY <1>2, <1>6, <1>7, <1>9, KeyFound
<1>11. ValueAt(e, b, z)
  <2>1. /\ z = x + Len(key) + 1 + Len(b) /\ z <= Len(string) /\ Len(string) \in Nat
        /\ \A j \in 1..Len(b) : string[x + Len(key) + 1 + j] = b[j]
    BY <1>9, Zenon DEF Laid
  <2>2. z < Len(string) => string[z + 1] = ";"
    BY <1>9, Zenon DEF Laid
  <2>3. x + Len(key) + 1 \in Nat
    <3>1. Len(key) \in Nat
      BY <1>2, LenProperties
    <3> QED BY <1>10, <3>1
  <2> HIDE DEF e, b, key, z
  <2>4. z = e + Len(b) /\ e \in Nat /\ \A j \in 1..Len(b) : string[e + j] = b[j]
    BY <1>10, <2>1, <2>3
  <2> QED BY <2>1, <2>2, <2>4, Zenon DEF ValueAt
<1> HIDE DEF key, w, b, z, e
<1>12. ConnStr!Start <= ConnStr!n /\ ConnStr!Equals <= ConnStr!n
  <2>1. Len(key) \in Nat /\ Len(string) \in Nat
    <3>1. Len(key) \in Nat
      BY <1>2, LenProperties
    <3>2. Len(string) \in Nat
      BY <1>11, Zenon DEF ValueAt
    <3> QED BY <3>1, <3>2
  <2>2. x + 1 <= Len(string) /\ x + Len(key) + 1 <= Len(string)
    BY <1>10, <2>1
  <2> QED BY <1>10, <2>2 DEF ConnStr!n, e
<1>13. ~ConnStr!Finish
  <2>1. ConnStr!Start \in Int /\ ConnStr!Equals \in Int /\ ConnStr!n \in Int
    <3>1. Len(key) \in Nat /\ Len(string) \in Nat
      <4>1. Len(key) \in Nat
        BY <1>2, LenProperties
      <4>2. Len(string) \in Nat
        BY <1>11, Zenon DEF ValueAt
      <4> QED BY <4>1, <4>2
    <3> QED BY <1>10, <3>1 DEF ConnStr!n, e
  <2>2. ~(ConnStr!Start > ConnStr!n) /\ ~(ConnStr!Equals > ConnStr!n)
    BY <1>12, <2>1
  <2> QED BY <2>2, Zenon DEF ConnStr!Finish
<1>14. ASSUME ConnStr!Enter(w, z + 1) PROVE at' = z + 1 /\ found' = Pairs(m)
  <2>1. at' = z + 1 /\ found' = ConnStr!Put(key, w)
    BY <1>2, <1>10, <1>14 DEF ConnStr!Enter
  <2>2. ConnStr!Put(key, w) = Pairs(m)
    BY <1>5, PairsTo DEF ConnStr!Put, key, w
  <2> QED BY <2>1, <2>2
<1>15. CASE InBraces(w)
  <2>1. /\ ConnStr!OpensBrace
        /\ SubSeq(string, e + 2, ConnStr!Find("}", e + 2) - 1) = w
        /\ ConnStr!AfterBrace(ConnStr!Find("}", e + 2)) = z + 1
    BY <1>3, <1>11, <1>15, BracedRead DEF b, e
  <2>2. ASSUME ConnStr!ReadBraced PROVE ConnStr!Enter(w, z + 1)
    <3>1. ConnStr!Enter(SubSeq(string, e + 2, ConnStr!Find("}", e + 2) - 1),
                        ConnStr!AfterBrace(ConnStr!Find("}", e + 2)))
      BY <2>2, Zenon DEF ConnStr!ReadBraced, e
    <3> QED BY <2>1, <3>1
  <2>3. ~ConnStr!ReadPlain
    BY <2>1, Zenon DEF ConnStr!ReadPlain
  <2> QED BY <1>13, <1>14, <2>2, <2>3 DEF z
<1>16. CASE Unbraced(w)
  <2>0. b = w
    BY <1>3, <1>16, BracedIs, Zenon DEF b, Unbraced
  <2>1. /\ ~ConnStr!OpensBrace /\ ConnStr!Find(";", e + 1) = z + 1
        /\ ConnStr!Trimmed(e + 1, (z + 1) - 1) = w
    BY <1>3, <1>11, <1>16, <2>0, PlainRead DEF e
  <2>2. ASSUME ConnStr!ReadPlain PROVE ConnStr!Enter(w, z + 1)
    <3>1. ConnStr!Enter(ConnStr!Trimmed(e + 1, ConnStr!Find(";", e + 1) - 1), ConnStr!Find(";", e + 1))
      BY <2>2, Zenon DEF ConnStr!ReadPlain, e
    <3> QED BY <2>1, <3>1
  <2>3. ~ConnStr!ReadBraced
    BY <2>1, Zenon DEF ConnStr!ReadBraced
  <2> QED BY <1>13, <1>14, <2>2, <2>3 DEF z
<1> QED BY <1>4, <1>15, <1>16

-----------------------------------------------------------------------------
(* ConnString: the invariant *)

AllSurvive == \A k \in DOMAIN values : ConnStr!Survives(values[k])

ConnInv ==
    /\ ValuesTyped
    /\ parser = "echo" => at = 1 /\ found = {}
    /\ parser = "parse" => string = EchoOf[ConnN] /\ (AllSurvive => \E k \in 0..ConnN : ParsedTo(k))
    /\ RoundTrip

LEMMA ConnInitOk == Init => ConnInv
<1> SUFFICES ASSUME Init PROVE ConnInv
  OBVIOUS
<1>1. CASE ConnStrAtRest
  <2>1. values = [k \in 1..ConnN |-> <<>>] /\ found = {} /\ parser = "done"
    BY <1>1, KeysAre, Zenon DEF ConnStrAtRest
  <2>2. ValuesTyped
    <3>1. <<>> \in Seq(ConnChars)
      BY EmptySeq
    <3> QED BY <2>1, <3>1 DEF ValuesTyped
  <2>3. {l \in DOMAIN values : values[l] # <<>>} = {}
    BY <2>1
  <2>4. RoundTrip
    BY <2>1, <2>3 DEF RoundTrip, ConnStr!RoundTrip
  <2> QED BY <2>1, <2>2, <2>4 DEF ConnInv
<1>2. CASE ConnStr!Init
  <2>1. parser = "echo" /\ at = 1 /\ found = {}
    BY <1>2, Zenon DEF ConnStr!Init
  <2>2. ValuesTyped
    <3>1. values \in {f \in [DOMAIN EchoedKeys -> UNION {EchoedValues[k] : k \in DOMAIN EchoedKeys}] :
                        \A k \in DOMAIN EchoedKeys : f[k] \in EchoedValues[k]}
      BY <1>2, Zenon DEF ConnStr!Init
    <3>2. \A k \in 1..ConnN : values[k] \in EchoedValues[k]
      BY <3>1, KeysAre
    <3>3. DOMAIN values = 1..ConnN /\ values = [k \in DOMAIN values |-> values[k]]
      BY <3>1, KeysAre
    <3>4. \A k \in 1..ConnN : values[k] \in Seq(ConnChars)
      <4> TAKE k \in 1..ConnN
      <4>1. values[k] \in Seq(STRING)
        BY <3>2, KeysAre, Zenon
      <4>2. STRING \subseteq ConnChars
        BY Zenon DEF ConnChars
      <4> QED BY <4>1, <4>2, SeqMonotonic
    <3> QED BY <3>3, <3>4 DEF ValuesTyped
  <2>3. RoundTrip
    BY <2>1 DEF RoundTrip, ConnStr!RoundTrip
  <2> QED BY <2>1, <2>2, <2>3 DEF ConnInv
<1> QED BY <1>1, <1>2, Zenon DEF Init

LEMMA ConnStepOk == ConnInv /\ [Next]_vars => ConnInv'
<1> SUFFICES ASSUME ConnInv, [Next]_vars PROVE ConnInv'
  OBVIOUS
<1>1. CASE UNCHANGED stringVars
  <2>1. UNCHANGED <<values, string, at, found, parser>>
    BY <1>1, Zenon DEF stringVars
  <2>2. (ValuesTyped' <=> ValuesTyped) /\ (AllSurvive' <=> AllSurvive) /\ EchoOf' = EchoOf
    BY <2>1 DEF ValuesTyped, AllSurvive, EchoOf
  <2>3. \A k : ParsedTo(k)' <=> ParsedTo(k)
    <3>1. \A k : Pairs(k)' = Pairs(k)
      BY <2>1 DEF Pairs
    <3> QED BY <2>1, <2>2, <3>1 DEF ParsedTo
  <2>4. RoundTrip' <=> RoundTrip
    BY <2>1, Zenon DEF RoundTrip, ConnStr!RoundTrip
  <2>5. ValuesTyped' /\ RoundTrip' /\ (parser' = "echo" => at' = 1 /\ found' = {})
    BY <2>1, <2>2, <2>4, Zenon DEF ConnInv
  <2>6. ASSUME parser' = "parse"
        PROVE  string' = EchoOf'[ConnN] /\ (AllSurvive' => \E k \in 0..ConnN : ParsedTo(k)')
    <3>1. string = EchoOf[ConnN] /\ (AllSurvive => \E k \in 0..ConnN : ParsedTo(k))
      BY <2>1, <2>6, Zenon DEF ConnInv
    <3> QED BY <2>1, <2>2, <2>3, <3>1, Zenon
  <2> QED BY <2>5, <2>6 DEF ConnInv, ConnN
<1>2. CASE ConnStr!Next
  <2>0. UNCHANGED values
    BY <1>2, Zenon DEF ConnStr!Next, ConnStr!Build, ConnStr!ReadBraced, ConnStr!ReadPlain, ConnStr!Enter,
                       ConnStr!Finish
  <2>1. ValuesTyped /\ ConnN \in Nat
    BY KeysAre, Zenon DEF ConnInv
  <2>2. ValuesTyped' /\ (AllSurvive' <=> AllSurvive) /\ EchoOf' = EchoOf /\ \A k : Pairs(k)' = Pairs(k)
    BY <2>0, <2>1 DEF ValuesTyped, AllSurvive, EchoOf, Pairs, ConnN
  <2>3. ASSUME parser' = "parse", string' = EchoOf[ConnN],
               AllSurvive => \E k \in 0..ConnN : at' = Len(EchoOf[k]) + 1 /\ found' = Pairs(k)
        PROVE  ConnInv'
    <3>1. \A k : ParsedTo(k)' <=> at' = Len(EchoOf[k]) + 1 /\ found' = Pairs(k)
      BY <2>2 DEF ParsedTo
    <3>2. RoundTrip'
      BY <2>3 DEF RoundTrip, ConnStr!RoundTrip
    <3>3. AllSurvive' => \E k \in 0..ConnN : ParsedTo(k)'
      BY <2>2, <2>3, <3>1, Zenon
    <3>4. string' = EchoOf'[ConnN]
      BY <2>2, <2>3
    <3> QED BY <2>2, <2>3, <3>2, <3>3, <3>4 DEF ConnInv, ConnN
  <2>4. CASE ConnStr!Build
    <3>1. parser = "echo" /\ string' = ConnStr!Echo /\ parser' = "parse" /\ UNCHANGED <<at, found>>
      BY <2>4, Zenon DEF ConnStr!Build
    <3>2. at = 1 /\ found = {}
      BY <3>1, Zenon DEF ConnInv
    <3>3. at' = Len(EchoOf[0]) + 1 /\ found' = Pairs(0) /\ 0 \in 0..ConnN
      <4>1. EchoOf[0] = <<>> /\ Len(<<>>) = 0
        BY <2>1, EchoRules, EmptySeq
      <4>2. Pairs(0) = {}
        BY DEF Pairs
      <4> QED BY <2>1, <3>1, <3>2, <4>1, <4>2
    <3>4. string' = EchoOf[ConnN]
      BY <3>1, EchoIs
    <3> QED BY <2>3, <3>1, <3>3, <3>4
  <2>5. CASE ConnStr!ReadBraced \/ ConnStr!ReadPlain
    <3>1. parser = "parse" /\ parser' = "parse" /\ UNCHANGED string /\ ConnStr!Start <= ConnStr!n
      BY <2>5, Zenon DEF ConnStr!ReadBraced, ConnStr!ReadPlain, ConnStr!Enter, ConnStr!Parsing
    <3>2. string = EchoOf[ConnN] /\ (AllSurvive => \E k \in 0..ConnN : ParsedTo(k))
      BY <3>1, Zenon DEF ConnInv
    <3>3. ASSUME AllSurvive PROVE \E k \in 0..ConnN : at' = Len(EchoOf[k]) + 1 /\ found' = Pairs(k)
      <4>1. PICK k \in 0..ConnN : ParsedTo(k)
        BY <3>2, <3>3
      <4>2. CASE NoMore(k)
        <5>1. string \in Seq(ConnChars) /\ Len(string) \in Nat
          <6>1. ConnN \in 0..ConnN
            BY <2>1
          <6>2. string \in Seq(ConnChars)
            BY <2>1, <3>2, <6>1, EchoRules
          <6> QED BY <6>2, LenProperties
        <5>2. at = Len(string) + 1
          BY <3>2, <4>1, <4>2 DEF ParsedTo, NoMore
        <5> QED BY <3>1, <5>1, <5>2, NothingLeft
      <4>3. ASSUME NEW m \in 1..ConnN, More(k, m)
            PROVE  \E j \in 0..ConnN : at' = Len(EchoOf[j]) + 1 /\ found' = Pairs(j)
        <5>1. ConnStr!Survives(values[m])
          BY <2>1, <3>3 DEF AllSurvive, ValuesTyped
        <5>2. at' = Len(EchoOf[m]) + 1 /\ found' = Pairs(m)
          BY <2>1, <2>5, <3>2, <4>1, <4>3, <5>1, TurnReads
        <5>3. m \in 0..ConnN
          BY <2>1
        <5> QED BY <5>2, <5>3
      <4> QED BY <2>1, <4>2, <4>3, NextKey
    <3> QED BY <2>3, <3>1, <3>2, <3>3
  <2>6. CASE ConnStr!Finish
    <3>1. parser = "parse" /\ parser' = "done" /\ UNCHANGED <<string, at, found>>
      BY <2>6, Zenon DEF ConnStr!Finish
    <3>2. string = EchoOf[ConnN] /\ (AllSurvive => \E k \in 0..ConnN : ParsedTo(k))
      BY <3>1, Zenon DEF ConnInv
    <3>3. ASSUME AllSurvive PROVE found = Pairs(ConnN)
      <4>1. PICK k \in 0..ConnN : ParsedTo(k)
        BY <3>2, <3>3
      <4>2. ASSUME NEW m \in 1..ConnN, More(k, m) PROVE FALSE
        <5>1. ConnStr!Survives(values[m])
          BY <2>1, <3>3 DEF AllSurvive, ValuesTyped
        <5> QED BY <2>1, <2>6, <3>2, <4>1, <4>2, <5>1, TurnReads
      <4>3. NoMore(k)
        BY <2>1, <4>2, NextKey
      <4> QED BY <2>1, <4>1, <4>3, PairsTo DEF ParsedTo
    <3>4. DOMAIN values = 1..ConnN
      BY <2>1 DEF ValuesTyped
    <3>5. RoundTrip'
      <4>1. Pairs(ConnN) = {<<EchoedKeys[k], values[k]>> : k \in {l \in DOMAIN values : values[l] # <<>>}}
        BY <3>4, Zenon DEF Pairs
      <4>2. (\A k \in DOMAIN values : ConnStr!Survives(values[k])) =>
               found' = {<<EchoedKeys[k], values[k]>> : k \in {l \in DOMAIN values : values[l] # <<>>}}
        BY <3>1, <3>3, <4>1 DEF AllSurvive
      <4> QED BY <2>0, <4>2 DEF RoundTrip, ConnStr!RoundTrip
    <3> QED BY <2>2, <3>1, <3>5 DEF ConnInv
  <2> QED BY <1>2, <2>4, <2>5, <2>6, Zenon DEF ConnStr!Next
<1> QED BY <1>1, <1>2, Zenon DEF Next, vars

\* What SQLDriverConnect gives back is read as the keys and values it was
\* written from, for any keys and values that survive.
THEOREM StringReturns == Spec => []RoundTrip
<1>1. ConnInv => RoundTrip
  BY Zenon DEF ConnInv
<1> QED BY <1>1, ConnInitOk, ConnStepOk, PTL DEF Spec

-----------------------------------------------------------------------------
(* SqlText: the lexer on a text that grows *)

OutChars == SqlChars \cup STRING \cup {"'"}

\* After a quote that may end a string everything is read as in the open.
Same(s, x) == s = x \/ (s \in {"code", "quote"} /\ x \in {"code", "quote"})

LEMMA QuoteSteps == \A c : Sql!LexStep("quote", c) = Sql!LexStep("code", c)
<1> SUFFICES ASSUME NEW c PROVE Sql!LexStep("quote", c) = Sql!LexStep("code", c)
  OBVIOUS
<1>1. Sql!LexStep("quote", c) =
        CASE c = "'" -> "string" [] c = "\"" -> "identifier"
          [] c = "-" -> "dash" [] c = "/" -> "slash" [] OTHER -> "code"
  BY DEF Sql!LexStep
<1>2. Sql!LexStep("code", c) =
        CASE c = "'" -> "string" [] c = "\"" -> "identifier"
          [] c = "-" -> "dash" [] c = "/" -> "slash" [] OTHER -> "code"
  BY DEF Sql!LexStep
<1> QED BY <1>1, <1>2

LEMMA SameSteps == \A s, x, c : Same(s, x) => Sql!LexStep(s, c) = Sql!LexStep(x, c)
  BY QuoteSteps, Zenon DEF Same

LEMMA SameOpen == \A s, x : Same(s, x) => (Sql!Open(s) <=> Sql!Open(x))
  BY Zenon DEF Same, Sql!Open

\* What leads to the states that remember a character.
LEMMA Remembers ==
  ASSUME NEW s \in States, NEW c
  PROVE  /\ Sql!LexStep(s, c) = "quote" => c = "'"
         /\ Sql!LexStep(s, c) = "dash" => c = "-"
<1>1. CASE Sql!Open(s)
  <2>1. c = "'" => Sql!LexStep(s, c) = "string"
    BY <1>1, LexOpen, Zenon
  <2>2. c = "\"" => Sql!LexStep(s, c) = "identifier"
    BY <1>1, LexOpen, Zenon
  <2>3. c = "-" => Sql!LexStep(s, c) = "line" \/ Sql!LexStep(s, c) = "dash"
    BY <1>1, LexOpen, Zenon
  <2>4. c = "/" => Sql!LexStep(s, c) = "slash"
    BY <1>1, LexOpen, Zenon
  <2>5. c = "*" /\ s = "slash" => Sql!LexStep(s, c) = "block"
    BY LexBlock, Zenon
  <2>6. c \notin {"'", "\"", "-", "/"} /\ ~(c = "*" /\ s = "slash") => Sql!LexStep(s, c) = "code"
    BY <1>1, LexOther, Zenon
  <2> QED BY <2>1, <2>2, <2>3, <2>4, <2>5, <2>6
<1>2. CASE s \in {"string", "identifier", "line", "block", "star"}
  BY <1>2, LexRules
<1> QED BY <1>1, <1>2 DEF States, Sql!Open

\* Two texts, one after the other.
Joint(d, a, b) ==
    /\ d \in Seq(OutChars) /\ Len(d) = Len(a) + Len(b) /\ Len(a) \in Nat /\ Len(b) \in Nat
    /\ \A j \in 1..Len(a) : d[j] = a[j]
    /\ \A j \in 1..Len(b) : d[Len(a) + j] = b[j]

LEMMA JointAre ==
  ASSUME NEW a \in Seq(OutChars), NEW b \in Seq(OutChars)
  PROVE  Joint(a \o b, a, b)
<1> DEFINE d == a \o b
<1>1. Len(a) \in Nat /\ Len(b) \in Nat
  OBVIOUS
<1>2. /\ d \in Seq(OutChars) /\ Len(d) = Len(a) + Len(b)
      /\ \A j \in 1..Len(a) + Len(b) : d[j] = IF j <= Len(a) THEN a[j] ELSE b[j - Len(a)]
  BY ConcatProperties
<1> HIDE DEF d
<1>3. \A j \in 1..Len(a) : d[j] = a[j]
  BY <1>1, <1>2
<1>4. \A j \in 1..Len(b) : d[Len(a) + j] = b[j]
  <2> TAKE j \in 1..Len(b)
  <2>1. Len(a) + j \in 1..Len(a) + Len(b) /\ ~(Len(a) + j <= Len(a)) /\ (Len(a) + j) - Len(a) = j
    BY <1>1
  <2> QED BY <1>2, <2>1
<1>5. Joint(d, a, b)
  BY <1>1, <1>2, <1>3, <1>4, Zenon DEF Joint
<1> QED BY <1>5 DEF d

\* The lexer reads the first as it does on its own, and the second from there.
LEMMA LexJoint ==
  ASSUME NEW a \in Seq(OutChars), NEW b \in Seq(OutChars), NEW d, Joint(d, a, b)
  PROVE  /\ \A k \in 0..Len(a) : Sql!Lex(d)[k] = Sql!Lex(a)[k]
         /\ \A j \in 1..Len(b) :
               Sql!Lex(d)[Len(a) + j] = Sql!LexStep(Sql!Lex(d)[Len(a) + j - 1], b[j])
<1> DEFINE M == Sql!Lex(d)
           A == Sql!Lex(a)
           P == {k \in Nat : k <= Len(a) => M[k] = A[k]}
<1>1. /\ d \in Seq(OutChars) /\ Len(d) = Len(a) + Len(b) /\ Len(a) \in Nat /\ Len(b) \in Nat
      /\ \A j \in 1..Len(a) : d[j] = a[j]
      /\ \A j \in 1..Len(b) : d[Len(a) + j] = b[j]
  BY Zenon DEF Joint
<1>2. M[0] = "code" /\ \A k \in 1..Len(d) : M[k] = Sql!LexStep(M[k - 1], d[k])
  BY <1>1, LexIs
<1>3. A[0] = "code" /\ \A k \in 1..Len(a) : A[k] = Sql!LexStep(A[k - 1], a[k])
  BY LexIs
<1> HIDE DEF M, A
<1>4. \A k \in Nat : k \in P <=> (k <= Len(a) => M[k] = A[k])
  OBVIOUS
<1> HIDE DEF P
<1>5. 0 \in P
  <2>1. M[0] = A[0]
    BY <1>2, <1>3
  <2> QED BY <1>4, <2>1
<1>6. ASSUME NEW k \in Nat, k \in P PROVE k + 1 \in P
  <2>1. k + 1 \in Nat
    OBVIOUS
  <2>2. ASSUME k + 1 <= Len(a) PROVE M[k + 1] = A[k + 1]
    <3>1. k + 1 \in 1..Len(a) /\ k + 1 \in 1..Len(d) /\ (k + 1) - 1 = k /\ k <= Len(a)
      BY <1>1, <2>2
    <3>2. M[k] = A[k]
      BY <1>4, <1>6, <3>1
    <3>3. M[k + 1] = Sql!LexStep(M[k], d[k + 1]) /\ A[k + 1] = Sql!LexStep(A[k], a[k + 1])
      BY <1>2, <1>3, <3>1
    <3> QED BY <1>1, <3>1, <3>2, <3>3
  <2> QED BY <1>4, <2>1, <2>2
<1>7. Nat \subseteq P
  BY <1>5, <1>6, SetInduction
<1>8. \A k \in 0..Len(a) : M[k] = A[k]
  <2> TAKE k \in 0..Len(a)
  <2>1. k \in Nat /\ k <= Len(a)
    BY <1>1
  <2> QED BY <1>4, <1>7, <2>1
<1>9. \A j \in 1..Len(b) : M[Len(a) + j] = Sql!LexStep(M[Len(a) + j - 1], b[j])
  <2> TAKE j \in 1..Len(b)
  <2>1. Len(a) + j \in 1..Len(d)
    BY <1>1
  <2> QED BY <1>1, <1>2, <2>1
<1> QED BY <1>8, <1>9 DEF M, A

\* The state at the end of a text.
Final(x) == Sql!Lex(x)[Len(x)]

LEMMA FinalEmpty == Final(<<>>) = "code"
  BY LexIs, EmptySeq DEF Final

LEMMA FinalStep ==
  ASSUME NEW x \in Seq(OutChars), NEW c \in OutChars
  PROVE  x \o <<c>> \in Seq(OutChars) /\ Final(x \o <<c>>) = Sql!LexStep(Final(x), c)
<1> DEFINE b == <<c>>
           d == x \o b
<1>1. b \in Seq(OutChars) /\ Len(b) = 1 /\ b[1] = c
  OBVIOUS
<1> HIDE DEF b
<1>2. Joint(d, x, b)
  BY <1>1, JointAre
<1> HIDE DEF d
<1>3. d \in Seq(OutChars) /\ Len(d) = Len(x) + 1 /\ Len(x) \in Nat
  BY <1>1, <1>2 DEF Joint
<1>4. Len(x) \in 0..Len(x) /\ 1 \in 1..Len(b) /\ Len(x) + 1 - 1 = Len(x)
  BY <1>1, <1>3
<1>5. Sql!Lex(d)[Len(x) + 1] = Sql!LexStep(Sql!Lex(d)[Len(x)], b[1])
  BY <1>1, <1>2, <1>4, LexJoint
<1>6. Sql!Lex(d)[Len(x)] = Sql!Lex(x)[Len(x)]
  BY <1>1, <1>2, <1>4, LexJoint
<1>7. Final(d) = Sql!LexStep(Final(x), c)
  BY <1>1, <1>3, <1>5, <1>6 DEF Final
<1> QED BY <1>3, <1>7 DEF d, b

LEMMA FinalState == ASSUME NEW x \in Seq(OutChars) PROVE Final(x) \in States
<1>1. Len(x) \in 0..Len(x) /\ Sql!Lex(x) \in [0..Len(x) -> States]
  BY LexIs
<1> QED BY <1>1 DEF Final

-----------------------------------------------------------------------------
(* SqlText: a literal, as the lexer reads it *)

Special == {"'", "\"", "/", "*"}

PlainNumber(b) ==
    /\ b \in Seq(OutChars) /\ Len(b) \in Nat \ {0}
    /\ \A j \in 1..Len(b) :
          b[j] \notin Special /\ (b[j] = "-" => j < Len(b) /\ b[j + 1] # "-")

LEMMA NumberIs == \A b \in NumberLiterals : PlainNumber(b)
<1> SUFFICES ASSUME NEW b \in NumberLiterals PROVE PlainNumber(b)
  OBVIOUS
<1>1. /\ b \in Seq(STRING) /\ b # <<>>
      /\ \A j \in DOMAIN b : /\ b[j] \notin {"'", "\"", "/", "*"}
                             /\ b[j] = "-" => j < Len(b) /\ b[j + 1] # "-"
  BY LiteralsAssumption, Zenon DEF Sql!LiteralsAssumed
<1>2. b \in Seq(OutChars)
  <2>1. STRING \subseteq OutChars
    BY Zenon DEF OutChars
  <2> QED BY <1>1, <2>1, SeqMonotonic
<1>3. Len(b) \in Nat \ {0} /\ DOMAIN b = 1..Len(b)
  <2>1. b \in Seq(OutChars) /\ b # <<>>
    BY <1>1, <1>2, Zenon
  <2> HIDE <1>1
  <2>2. Len(b) \in Nat \ {0}
    BY <2>1, EmptySeq
  <2>3. DOMAIN b = 1..Len(b)
    BY <2>1, LenProperties
  <2> QED BY <2>2, <2>3
<1> QED BY <1>1, <1>2, <1>3, Zenon DEF PlainNumber, Special

\* A character of a number, read in the open.
LEMMA NumberStep ==
  ASSUME NEW s, NEW c, Sql!Open(s), c \notin Special, s = "dash" => c # "-"
  PROVE  /\ Sql!Open(Sql!LexStep(s, c)) /\ (Sql!LexStep(s, c) = "dash" => c = "-")
         /\ c # "-" => Sql!LexStep(s, c) = "code"
<1>0. Sql!Open("dash") /\ Sql!Open("code") /\ "dash" # "code"
  BY Zenon DEF Sql!Open
<1>1. c = "-" => Sql!LexStep(s, c) = "dash"
  <2>1. c = "-" => s # "dash"
    BY Zenon
  <2> QED BY <2>1, LexDash, Zenon
<1>2. c # "-" => Sql!LexStep(s, c) = "code"
  <2> SUFFICES ASSUME c # "-" PROVE Sql!LexStep(s, c) = "code"
    OBVIOUS
  <2>1. c \notin {"'", "\"", "-", "/"} /\ c # "*"
    BY Zenon DEF Special
  <2> QED BY <2>1, LexOther, Zenon
<1> QED BY <1>0, <1>1, <1>2, Zenon

\* After j characters of a number.
NumberState(s, b, j) == Sql!Open(s) /\ (s = "dash" => j # 0 /\ b[j] = "-")

LEMMA NumberGoesOn ==
  ASSUME NEW b, PlainNumber(b), NEW j \in Nat, j + 1 \in 1..Len(b), NEW s, NumberState(s, b, j)
  PROVE  /\ NumberState(Sql!LexStep(s, b[j + 1]), b, j + 1)
         /\ j + 1 = Len(b) => Sql!LexStep(s, b[j + 1]) = "code"
<1>1. Len(b) \in Nat /\ j + 1 # 0 /\ (j # 0 => j \in 1..Len(b))
  <2>1. Len(b) \in Nat
    BY Zenon DEF PlainNumber
  <2> QED BY <2>1
<1>2. b[j + 1] \notin Special
  BY Zenon DEF PlainNumber
<1>3. s = "dash" => b[j + 1] # "-"
  BY <1>1, Zenon DEF PlainNumber, NumberState
<1>4. b[j + 1] = "-" => j + 1 < Len(b)
  BY Zenon DEF PlainNumber
<1>5. j + 1 = Len(b) => ~(j + 1 < Len(b))
  BY <1>1
<1>6. Sql!Open(s)
  BY Zenon DEF NumberState
<1>7. /\ Sql!Open(Sql!LexStep(s, b[j + 1]))
      /\ Sql!LexStep(s, b[j + 1]) = "dash" => b[j + 1] = "-"
      /\ b[j + 1] # "-" => Sql!LexStep(s, b[j + 1]) = "code"
  BY <1>2, <1>3, <1>6, NumberStep, Zenon
<1> QED BY <1>1, <1>4, <1>5, <1>7, Zenon DEF NumberState

LEMMA NumberRead ==
  ASSUME NEW a \in Seq(OutChars), Sql!Open(Final(a)), Final(a) # "dash",
         NEW b, PlainNumber(b)
  PROVE  Final(a \o b) = "code"
<1> DEFINE d == a \o b
           M == Sql!Lex(d)
           P == {j \in Nat : j <= Len(b) => NumberState(M[Len(a) + j], b, j)}
<1>1. b \in Seq(OutChars) /\ Len(b) \in Nat /\ Len(b) # 0 /\ Len(a) \in Nat
  <2>1. b \in Seq(OutChars) /\ Len(b) \in Nat \ {0}
    BY Zenon DEF PlainNumber
  <2> QED BY <2>1
<1>2. Joint(d, a, b)
  BY <1>1, JointAre
<1> HIDE DEF d
<1>3. /\ \A k \in 0..Len(a) : M[k] = Sql!Lex(a)[k]
      /\ \A j \in 1..Len(b) : M[Len(a) + j] = Sql!LexStep(M[Len(a) + j - 1], b[j])
  BY <1>1, <1>2, LexJoint
<1> HIDE DEF M
<1>4. \A j \in Nat : j \in P <=> (j <= Len(b) => NumberState(M[Len(a) + j], b, j))
  OBVIOUS
<1> HIDE DEF P
<1>5. 0 \in P
  <2>1. Len(a) \in 0..Len(a) /\ Len(a) + 0 = Len(a)
    BY <1>1
  <2>2. M[Len(a) + 0] = Final(a)
    BY <1>3, <2>1 DEF Final
  <2>3. NumberState(Final(a), b, 0)
    BY Zenon DEF NumberState
  <2> QED BY <1>4, <2>2, <2>3
<1>6. ASSUME NEW j \in Nat, j \in P, j + 1 <= Len(b)
      PROVE  /\ j + 1 \in 1..Len(b) /\ NumberState(M[Len(a) + j], b, j)
             /\ M[Len(a) + (j + 1)] = Sql!LexStep(M[Len(a) + j], b[j + 1])
  <2>1. j + 1 \in 1..Len(b) /\ j <= Len(b) /\ Len(a) + (j + 1) - 1 = Len(a) + j
    BY <1>1, <1>6
  <2>2. NumberState(M[Len(a) + j], b, j)
    BY <1>4, <1>6, <2>1
  <2>3. M[Len(a) + (j + 1)] = Sql!LexStep(M[Len(a) + (j + 1) - 1], b[j + 1])
    BY <1>3, <2>1
  <2> QED BY <2>1, <2>2, <2>3
<1>7. ASSUME NEW j \in Nat, j \in P PROVE j + 1 \in P
  <2>1. ASSUME j + 1 <= Len(b) PROVE NumberState(M[Len(a) + (j + 1)], b, j + 1)
    BY <1>6, <1>7, <2>1, NumberGoesOn
  <2>2. j + 1 \in Nat
    OBVIOUS
  <2> QED BY <1>4, <2>1, <2>2
<1>8. Nat \subseteq P
  BY <1>5, <1>7, SetInduction
<1>9. Len(b) - 1 \in Nat /\ (Len(b) - 1) + 1 = Len(b) /\ Len(b) <= Len(b)
  BY <1>1
<1> DEFINE j == Len(b) - 1
<1>10. j \in Nat /\ j \in P /\ j + 1 = Len(b) /\ j + 1 <= Len(b)
  BY <1>8, <1>9
<1> HIDE DEF j
<1>11. /\ j + 1 \in 1..Len(b) /\ NumberState(M[Len(a) + j], b, j)
       /\ M[Len(a) + (j + 1)] = Sql!LexStep(M[Len(a) + j], b[j + 1])
  BY <1>6, <1>10
<1>12. M[Len(a) + Len(b)] = "code"
  BY <1>10, <1>11, NumberGoesOn
<1>13. Len(d) = Len(a) + Len(b)
  BY <1>2, Zenon DEF Joint
<1> QED BY <1>12, <1>13 DEF Final, M, d

\* A character of a text, as it stands in a literal.
Twice(c) == IF c = "'" THEN <<"'", "'">> ELSE <<c>>
Mark == <<"'">>

DoubledOf(w) ==
    LET double[k \in 0..Len(w)] ==
            IF k = 0 THEN <<>>
            ELSE double[k - 1] \o (IF w[k] = "'" THEN <<"'", "'">> ELSE <<w[k]>>)
    IN  double

LEMMA EscapedIs == \A w : Sql!Escaped(w) = Mark \o DoubledOf(w)[Len(w)] \o Mark
  BY DEF Sql!Escaped, DoubledOf, Mark

LEMMA MarkIs == "'" \in OutChars /\ Mark \in Seq(OutChars)
<1>1. "'" \in OutChars
  BY Zenon DEF OutChars
<1>2. \A x \in OutChars : <<x>> \in Seq(OutChars)
  OBVIOUS
<1> QED BY <1>1, <1>2, Zenon DEF Mark

LEMMA TwiceIs ==
  ASSUME NEW c \in STRING
  PROVE  /\ c \in OutChars /\ Twice(c) \in Seq(OutChars)
         /\ c = "'" => Twice(c) = Mark \o Mark
         /\ c # "'" => Twice(c) = <<c>>
<1>1. c \in OutChars
  BY Zenon DEF OutChars
<1>2. \A x \in OutChars : <<x, x>> \in Seq(OutChars) /\ <<x>> \in Seq(OutChars) /\ <<x, x>> = <<x>> \o <<x>>
  OBVIOUS
<1>3. c = "'" => Twice(c) = <<c, c>> /\ Mark = <<c>>
  BY Zenon DEF Twice, Mark
<1>4. c # "'" => Twice(c) = <<c>>
  BY Zenon DEF Twice
<1>5. c = "'" => Twice(c) = Mark \o Mark
  BY <1>1, <1>2, <1>3, Zenon
<1>6. Twice(c) \in Seq(OutChars)
  BY <1>1, <1>2, <1>3, <1>4, Zenon
<1> QED BY <1>1, <1>4, <1>5, <1>6, Zenon

LEMMA DoubledRules ==
  ASSUME NEW t \in Seq(STRING)
  PROVE  /\ DoubledOf(t)[0] = <<>> /\ \A k \in 0..Len(t) : DoubledOf(t)[k] \in Seq(OutChars)
         /\ \A k \in 1..Len(t) : DoubledOf(t)[k] = DoubledOf(t)[k - 1] \o Twice(t[k])
<1> DEFINE m == Len(t)
           F == [c \in STRING |-> Twice(c)]
           L == DoubledOf(t)
           g == [k \in 1..m |-> Twice(t[k])]
<1>1. m \in Nat /\ \A k \in 1..m : t[k] \in STRING
  OBVIOUS
<1>2. F \in [STRING -> Seq(OutChars)]
  BY TwiceIs
<1>3. \A k \in 1..m : F[t[k]] = Twice(t[k])
  BY <1>1
<1> HIDE DEF F, m
<1>j. \E f \in [0..Len(t) -> Seq(OutChars)] : Joined(f, F, t)
  BY <1>2, JoinExists, Zenon
<1>4. PICK f \in [0..m -> Seq(OutChars)] :
            f = [k \in 0..m |-> IF k = 0 THEN <<>> ELSE f[k - 1] \o F[t[k]]]
  BY <1>j DEF m, Joined
<1>5. \A k \in 0..m : k # 0 => k \in 1..m
  BY <1>1
<1>6. f = [k \in 0..m |-> IF k = 0 THEN <<>> ELSE f[k - 1] \o Twice(t[k])]
  <2>1. \A k \in 0..m : (IF k = 0 THEN <<>> ELSE f[k - 1] \o F[t[k]])
                        = IF k = 0 THEN <<>> ELSE f[k - 1] \o Twice(t[k])
    BY <1>3, <1>5
  <2> QED BY <1>4, <2>1
<1> HIDE DEF L
<1>7. L = [k \in 0..m |-> IF k = 0 THEN <<>> ELSE L[k - 1] \o Twice(t[k])]
  BY <1>6, Zenon DEF L, DoubledOf, m, Twice
<1>8. g \in [1..m -> Seq(OutChars)] /\ \A k \in 1..m : g[k] = Twice(t[k])
  BY <1>1, TwiceIs
<1> HIDE DEF g
<1>9. L = [k \in 0..m |-> IF k = 0 THEN <<>> ELSE L[k - 1] \o g[k]]
  <2>1. \A k \in 0..m : (IF k = 0 THEN <<>> ELSE L[k - 1] \o g[k])
                        = IF k = 0 THEN <<>> ELSE L[k - 1] \o Twice(t[k])
    BY <1>5, <1>8
  <2> QED BY <1>7, <2>1
<1>10. L[0] = <<>> /\ (\A k \in 1..m : L[k] = L[k - 1] \o g[k]) /\ \A k \in 0..m : L[k] \in Seq(OutChars)
  BY <1>1, <1>8, <1>9, JoinRules DEF Listed, Lists
<1> QED BY <1>8, <1>10 DEF L, m

\* A text that ends in a string is in it still after a character of a literal.
LEMMA TwiceRead ==
  ASSUME NEW x \in Seq(OutChars), Final(x) = "string", NEW c \in STRING
  PROVE  Final(x \o Twice(c)) = "string"
<1>1. CASE c = "'"
  <2> DEFINE y == x \o Mark
  <2>1. y \in Seq(OutChars) /\ Final(y) = Sql!LexStep("string", "'")
    BY MarkIs, FinalStep DEF Mark
  <2>2. Final(y) = "quote"
    BY <2>1, LexRules, Zenon
  <2> HIDE DEF y
  <2>3. Final(y \o Mark) = Sql!LexStep("quote", "'")
    BY <2>1, <2>2, MarkIs, FinalStep DEF Mark
  <2>4. Final(y \o Mark) = "string"
    BY <2>3, LexPairs, Zenon
  <2>5. Associate(x, Mark, Mark)
    BY MarkIs, Regroup
  <2>6. Twice(c) = Mark \o Mark
    BY <1>1, TwiceIs
  <2> QED BY <2>4, <2>5, <2>6 DEF Associate, y
<1>2. CASE c # "'"
  <2>1. Twice(c) = <<c>> /\ c \in OutChars
    BY <1>2, TwiceIs
  <2>2. Final(x \o <<c>>) = Sql!LexStep("string", c)
    BY <2>1, FinalStep
  <2>3. Sql!LexStep("string", c) = "string"
    BY <1>2, LexRules, Zenon
  <2> QED BY <2>1, <2>2, <2>3
<1> QED BY <1>1, <1>2

LEMMA EscapedRead ==
  ASSUME NEW a \in Seq(OutChars), Sql!Open(Final(a)), NEW w \in Seq(STRING)
  PROVE  /\ Sql!Escaped(w) \in Seq(OutChars) /\ Len(Sql!Escaped(w)) \in Nat \ {0}
         /\ Final(a \o Sql!Escaped(w)) = "quote"
<1> DEFINE D == DoubledOf(w)
           m == Len(w)
           y == a \o Mark
           P == {k \in Nat : k <= m => Final(y \o D[k]) = "string"}
<1>1. /\ D[0] = <<>> /\ \A k \in 0..m : D[k] \in Seq(OutChars)
      /\ \A k \in 1..m : D[k] = D[k - 1] \o Twice(w[k])
  BY DoubledRules
<1>2. m \in Nat /\ \A k \in 1..m : w[k] \in STRING
  OBVIOUS
<1>3. y \in Seq(OutChars) /\ Final(y) = Sql!LexStep(Final(a), "'")
  BY MarkIs, FinalStep DEF Mark
<1>4. Final(y) = "string"
  <2>1. Sql!LexStep(Final(a), "'") = "string"
    BY LexOpen, Zenon
  <2> QED BY <1>3, <2>1
<1> HIDE DEF D, m, y
<1>5. \A k \in Nat : k \in P <=> (k <= m => Final(y \o D[k]) = "string")
  OBVIOUS
<1> HIDE DEF P
<1>6. 0 \in P
  <2>1. y \o D[0] = y
    BY <1>1, <1>3, ConcatEmptySeq
  <2> QED BY <1>4, <1>5, <2>1
<1>7. ASSUME NEW k \in Nat, k \in P PROVE k + 1 \in P
  <2>1. ASSUME k + 1 <= m PROVE Final(y \o D[k + 1]) = "string"
    <3>1. k + 1 \in 1..m /\ k \in 0..m /\ k <= m /\ (k + 1) - 1 = k
      BY <1>2, <2>1
    <3>2. Final(y \o D[k]) = "string" /\ D[k] \in Seq(OutChars) /\ w[k + 1] \in STRING
      BY <1>1, <1>2, <1>5, <1>7, <3>1
    <3>3. D[k + 1] = D[k] \o Twice(w[k + 1])
      BY <1>1, <3>1
    <3>4. Twice(w[k + 1]) \in Seq(OutChars)
      BY <3>2, TwiceIs
    <3>5. Associate(y, D[k], Twice(w[k + 1]))
      BY <1>3, <3>2, <3>4, Regroup
    <3>6. y \o D[k] \in Seq(OutChars)
      BY <1>3, <3>2, ConcatProperties
    <3>7. Final((y \o D[k]) \o Twice(w[k + 1])) = "string"
      BY <3>2, <3>6, TwiceRead
    <3> QED BY <3>3, <3>5, <3>7 DEF Associate
  <2>2. k + 1 \in Nat
    OBVIOUS
  <2> QED BY <1>5, <2>1, <2>2
<1>8. Nat \subseteq P
  BY <1>6, <1>7, SetInduction
<1>9. Final(y \o D[m]) = "string" /\ D[m] \in Seq(OutChars)
  <2>1. m \in 0..m /\ m <= m
    BY <1>2
  <2> QED BY <1>1, <1>2, <1>5, <1>8, <2>1
<1> DEFINE d == D[m]
           e == Mark \o d
           z == e \o Mark
<1>10. Sql!Escaped(w) = z
  BY EscapedIs DEF D, m
<1>11. d \in Seq(OutChars) /\ e \in Seq(OutChars) /\ y \o d \in Seq(OutChars)
  BY <1>3, <1>9, MarkIs, ConcatProperties
<1> HIDE DEF d
<1>12. Associate(a, e, Mark) /\ Associate(a, Mark, d)
  BY <1>11, MarkIs, Regroup
<1>13. a \o z = (y \o d) \o Mark
  BY <1>12 DEF Associate, y
<1>14. Final((y \o d) \o Mark) = Sql!LexStep("string", "'")
  BY <1>9, <1>11, MarkIs, FinalStep DEF Mark, d
<1>15. Sql!LexStep("string", "'") = "quote"
  BY LexRules, Zenon
<1> HIDE DEF e
<1>16. z \in Seq(OutChars) /\ Len(z) \in Nat \ {0}
  <2>1. Joint(z, e, Mark)
    BY <1>11, MarkIs, JointAre
  <2>2. Len(Mark) = 1
    BY DEF Mark
  <2> HIDE DEF z
  <2> QED BY <2>1, <2>2 DEF Joint
<1> QED BY <1>10, <1>13, <1>14, <1>15, <1>16

\* A literal, read in the open and not after a minus, is read to its end.
LEMMA LiteralRead ==
  ASSUME NEW b \in Sql!Literals, NEW a \in Seq(OutChars), Sql!Open(Final(a)), Final(a) # "dash"
  PROVE  /\ b \in Seq(OutChars) /\ Len(b) \in Nat \ {0}
         /\ Final(a \o b) \in {"code", "quote"}
<1>1. CASE b \in NumberLiterals
  <2>1. PlainNumber(b)
    BY <1>1, NumberIs
  <2>2. b \in Seq(OutChars) /\ Len(b) \in Nat \ {0}
    BY <2>1, Zenon DEF PlainNumber
  <2>3. Final(a \o b) = "code"
    BY <2>1, NumberRead
  <2> QED BY <2>2, <2>3
<1>2. ASSUME NEW w \in CharacterValues, b = Sql!Escaped(w) PROVE
         /\ b \in Seq(OutChars) /\ Len(b) \in Nat \ {0}
         /\ Final(a \o b) \in {"code", "quote"}
  <2>1. w \in Seq(STRING)
    BY LiteralsAssumption, Zenon DEF Sql!LiteralsAssumed
  <2>2. /\ Sql!Escaped(w) \in Seq(OutChars) /\ Len(Sql!Escaped(w)) \in Nat \ {0}
        /\ Final(a \o Sql!Escaped(w)) = "quote"
    BY <2>1, EscapedRead
  <2> QED BY <1>2, <2>2
<1> QED BY <1>1, <1>2, Zenon DEF Sql!Literals

-----------------------------------------------------------------------------
(* SqlText: what has been written of the result *)

SqlLex == Sql!Lex(sql)

\* The text o, with the places f its characters are from, means what the
\* first q - 1 characters of sql mean.
Aligned(o, f, q) ==
    /\ o \in Seq(OutChars) /\ f \in Seq(Int) /\ Len(o) = Len(f) /\ q \in 1..Len(sql) + 1
    /\ Same(Final(o), SqlLex[q - 1])
    /\ \A j \in 1..Len(o) : f[j] > 0 =>
          f[j] \in 1..q - 1 /\ o[j] = sql[f[j]] /\ Same(Sql!Lex(o)[j - 1], SqlLex[f[j] - 1])

\* The k-th parameter is one literal from a to b, in the open.
LiteralFrom(o, f, k, a, b) ==
    /\ a \in 1..Len(o) /\ b \in 1..Len(o) /\ a <= b
    /\ \A j \in 1..Len(o) : f[j] = -k <=> j \in a..b
    /\ Sql!Open(Sql!Lex(o)[a - 1]) /\ Sql!Open(Sql!Lex(o)[b])
    /\ Sql!Lex(o)[a - 1] # "quote"
    /\ b < Len(o) => o[b + 1] # "'"

\* The first k parameters are.
Placed(o, f, k) ==
    /\ \A j \in 1..Len(o) : f[j] < 0 => -f[j] \in 1..k
    /\ \A l \in 1..k : \E a, b \in 1..Len(o) : LiteralFrom(o, f, l, a, b)

\* What is added to the places.
JointPlaces(d, a, b) ==
    /\ d \in Seq(Int) /\ Len(d) = Len(a) + Len(b) /\ Len(a) \in Nat /\ Len(b) \in Nat
    /\ \A j \in 1..Len(a) : d[j] = a[j]
    /\ \A j \in 1..Len(b) : d[Len(a) + j] = b[j]

LEMMA JointPlacesAre ==
  ASSUME NEW a \in Seq(Int), NEW b \in Seq(Int)
  PROVE  JointPlaces(a \o b, a, b)
<1> DEFINE d == a \o b
<1>1. Len(a) \in Nat /\ Len(b) \in Nat
  OBVIOUS
<1>2. /\ d \in Seq(Int) /\ Len(d) = Len(a) + Len(b)
      /\ \A j \in 1..Len(a) + Len(b) : d[j] = IF j <= Len(a) THEN a[j] ELSE b[j - Len(a)]
  BY ConcatProperties
<1> HIDE DEF d
<1>3. \A j \in 1..Len(a) : d[j] = a[j]
  BY <1>1, <1>2
<1>4. \A j \in 1..Len(b) : d[Len(a) + j] = b[j]
  <2> TAKE j \in 1..Len(b)
  <2>1. Len(a) + j \in 1..Len(a) + Len(b) /\ ~(Len(a) + j <= Len(a)) /\ (Len(a) + j) - Len(a) = j
    BY <1>1
  <2> QED BY <1>2, <2>1
<1>5. JointPlaces(d, a, b)
  BY <1>1, <1>2, <1>3, <1>4, Zenon DEF JointPlaces
<1> QED BY <1>5 DEF d

LEMMA PlacesTyped ==
  ASSUME NEW m \in Nat, NEW f \in [1..m -> Int]
  PROVE  f \in Seq(Int) /\ Len(f) = m
<1>1. f \in Seq(Int)
  BY SeqDef
<1> QED BY <1>1, LenProperties

\* A literal stays where it is when more text follows, if that does not begin
\* with a quote right behind it.
LEMMA LiteralStays ==
  ASSUME NEW o \in Seq(OutChars), NEW f \in Seq(Int), Len(o) = Len(f),
         NEW x \in Seq(OutChars), NEW g \in Seq(Int), Len(x) = Len(g),
         NEW l \in Nat, NEW a, NEW b, LiteralFrom(o, f, l, a, b),
         \A j \in 1..Len(g) : g[j] # -l,
         b = Len(o) /\ x # <<>> => x[1] # "'"
  PROVE  LiteralFrom(o \o x, f \o g, l, a, b)
<1> DEFINE d == o \o x
           h == f \o g
<1>1. Joint(d, o, x) /\ JointPlaces(h, f, g)
  BY JointAre, JointPlacesAre
<1> HIDE DEF d, h
<1>2. /\ Len(d) = Len(o) + Len(x) /\ Len(o) \in Nat /\ Len(x) \in Nat /\ Len(f) = Len(o) /\ Len(g) = Len(x)
      /\ \A j \in 1..Len(o) : h[j] = f[j]
      /\ \A j \in 1..Len(x) : h[Len(o) + j] = g[j]
  BY <1>1 DEF Joint, JointPlaces
<1>3. /\ \A j \in 1..Len(o) : d[j] = o[j]
      /\ \A j \in 1..Len(x) : d[Len(o) + j] = x[j]
  BY <1>1, Zenon DEF Joint
<1>4. a \in 1..Len(o) /\ b \in 1..Len(o) /\ a <= b /\ \A j \in 1..Len(o) : f[j] = -l <=> j \in a..b
  BY Zenon DEF LiteralFrom
<1>5. \A j \in 0..Len(o) : Sql!Lex(d)[j] = Sql!Lex(o)[j]
  BY <1>1, LexJoint
<1>6. a \in 1..Len(d) /\ b \in 1..Len(d) /\ a - 1 \in 0..Len(o) /\ b \in 0..Len(o)
  BY <1>2, <1>4
<1>7. ASSUME NEW j \in 1..Len(d) PROVE h[j] = -l <=> j \in a..b
  <2>1. CASE j <= Len(o)
    BY <1>2, <1>4, <2>1
  <2>2. CASE ~(j <= Len(o))
    <3>1. j - Len(o) \in 1..Len(x) /\ Len(o) + (j - Len(o)) = j /\ j \notin a..b
      BY <1>2, <1>4, <2>2
    <3>2. h[j] = g[j - Len(o)]
      BY <1>2, <3>1
    <3> QED BY <1>2, <3>1, <3>2
  <2> QED BY <2>1, <2>2
<1>8. /\ Sql!Open(Sql!Lex(d)[a - 1]) /\ Sql!Open(Sql!Lex(d)[b]) /\ Sql!Lex(d)[a - 1] # "quote"
  BY <1>5, <1>6, Zenon DEF LiteralFrom
<1>9. ASSUME b < Len(d) PROVE d[b + 1] # "'"
  <2>1. CASE b < Len(o)
    <3>1. b + 1 \in 1..Len(o)
      BY <1>2, <1>4, <2>1
    <3>2. o[b + 1] # "'"
      BY <2>1, Zenon DEF LiteralFrom
    <3> QED BY <1>3, <3>1, <3>2, Zenon
  <2>2. CASE ~(b < Len(o))
    <3>1. b = Len(o) /\ 1 \in 1..Len(x) /\ Len(x) # 0
      BY <1>2, <1>4, <1>9, <2>2
    <3>2. x # <<>>
      BY <3>1, EmptySeq
    <3>3. d[b + 1] = x[1]
      BY <1>3, <3>1
    <3> QED BY <3>1, <3>2, <3>3, Zenon
  <2> QED BY <2>1, <2>2
<1>10. LiteralFrom(d, h, l, a, b)
  BY <1>4, <1>6, <1>7, <1>8, <1>9, Zenon DEF LiteralFrom
<1> QED BY <1>10 DEF d, h

SqlTyped == sql \in Seq(SqlChars)
NoQuote(c) == c # "'"

LEMMA SqlLexIs ==
  ASSUME SqlTyped
  PROVE  /\ Len(sql) \in Nat /\ sql \in Seq(OutChars) /\ SqlLex[0] = "code"
         /\ \A k \in 1..Len(sql) : SqlLex[k] = Sql!LexStep(SqlLex[k - 1], sql[k])
<1>1. sql \in Seq(SqlChars) /\ SqlChars \subseteq OutChars
  BY Zenon DEF SqlTyped, OutChars
<1>2. sql \in Seq(OutChars)
  BY <1>1, SeqMonotonic
<1> QED BY <1>1, <1>2, LexIs DEF SqlLex

\* A piece of the text, and its places.
SqlPiece(q, e) == SubSeq(sql, q, e)
SqlPlaces(q, e) == [j \in 1..e - q + 1 |-> q + j - 1]

LEMMA SqlPieceIs ==
  ASSUME SqlTyped, NEW q \in 1..Len(sql) + 1, NEW e \in q - 1..Len(sql)
  PROVE  /\ SqlPiece(q, e) \in Seq(OutChars) /\ Len(SqlPiece(q, e)) = e - q + 1
         /\ SqlPlaces(q, e) \in Seq(Int) /\ Len(SqlPlaces(q, e)) = e - q + 1 /\ e - q + 1 \in Nat
         /\ \A j \in 1..e - q + 1 : /\ SqlPiece(q, e)[j] = sql[q + j - 1] /\ SqlPlaces(q, e)[j] = q + j - 1
                                    /\ q + j - 1 \in 1..Len(sql)
<1>1. Len(sql) \in Nat /\ \A j \in 1..Len(sql) : sql[j] \in OutChars
  BY SqlLexIs
<1>2. e - q + 1 \in Nat /\ \A j \in 1..e - q + 1 : q + j - 1 \in 1..Len(sql)
  BY <1>1
<1>3. \A j \in q..e : sql[j] \in OutChars
  <2>1. \A j \in q..e : j \in 1..Len(sql)
    BY <1>1
  <2> QED BY <1>1, <2>1
<1>4. /\ SqlPiece(q, e) \in Seq(OutChars) /\ Len(SqlPiece(q, e)) = IF q <= e THEN e - q + 1 ELSE 0
      /\ \A j \in 1..e - q + 1 : SqlPiece(q, e)[j] = sql[q + j - 1]
  BY <1>1, <1>3, SubSeqProperties DEF SqlPiece
<1>5. Len(SqlPiece(q, e)) = e - q + 1
  BY <1>1, <1>4
<1>6. SqlPlaces(q, e) \in [1..e - q + 1 -> Int] /\ \A j \in 1..e - q + 1 : SqlPlaces(q, e)[j] = q + j - 1
  BY <1>1 DEF SqlPlaces
<1>7. SqlPlaces(q, e) \in Seq(Int) /\ Len(SqlPlaces(q, e)) = e - q + 1
  BY <1>2, <1>6, PlacesTyped
<1> QED BY <1>2, <1>4, <1>5, <1>6, <1>7

\* The text that follows is read after the result as it is in its place.
LEMMA PieceRead ==
  ASSUME SqlTyped, NEW o, NEW f, NEW q, Aligned(o, f, q), NEW e \in q - 1..Len(sql)
  PROVE  \A j \in 0..e - q + 1 :
            Same(Sql!Lex(o \o SqlPiece(q, e))[Len(o) + j], SqlLex[q - 1 + j])
<1> DEFINE x == SqlPiece(q, e)
           d == o \o x
           M == Sql!Lex(d)
           P == {j \in Nat : j <= e - q + 1 => Same(M[Len(o) + j], SqlLex[q - 1 + j])}
<1>1. /\ o \in Seq(OutChars) /\ q \in 1..Len(sql) + 1 /\ Same(Final(o), SqlLex[q - 1])
  BY Zenon DEF Aligned
<1>2. Len(sql) \in Nat /\ Len(o) \in Nat /\ \A k \in 1..Len(sql) : SqlLex[k] = Sql!LexStep(SqlLex[k - 1], sql[k])
  BY <1>1, SqlLexIs, LenProperties
<1>3. /\ x \in Seq(OutChars) /\ Len(x) = e - q + 1 /\ e - q + 1 \in Nat
      /\ \A j \in 1..e - q + 1 : x[j] = sql[q + j - 1] /\ q + j - 1 \in 1..Len(sql)
  BY <1>1, SqlPieceIs
<1> HIDE DEF x
<1>4. Joint(d, o, x)
  BY <1>1, <1>3, JointAre
<1> HIDE DEF d
<1>5. /\ \A k \in 0..Len(o) : M[k] = Sql!Lex(o)[k]
      /\ \A j \in 1..Len(x) : M[Len(o) + j] = Sql!LexStep(M[Len(o) + j - 1], x[j])
  BY <1>1, <1>3, <1>4, LexJoint
<1> HIDE DEF M
<1>6. \A j \in Nat : j \in P <=> (j <= e - q + 1 => Same(M[Len(o) + j], SqlLex[q - 1 + j]))
  OBVIOUS
<1> HIDE DEF P
<1>7. 0 \in P
  <2>1. Len(o) \in 0..Len(o) /\ Len(o) + 0 = Len(o) /\ q - 1 + 0 = q - 1
    BY <1>1, <1>2
  <2>2. M[Len(o)] = Final(o)
    BY <1>5, <2>1 DEF Final
  <2> QED BY <1>1, <1>6, <2>1, <2>2
<1>8. ASSUME NEW j \in Nat, j \in P PROVE j + 1 \in P
  <2>1. ASSUME j + 1 <= e - q + 1 PROVE Same(M[Len(o) + (j + 1)], SqlLex[q - 1 + (j + 1)])
    <3>1. /\ j <= e - q + 1 /\ j + 1 \in 1..Len(x) /\ j + 1 \in 1..e - q + 1
          /\ Len(o) + (j + 1) - 1 = Len(o) + j /\ q + (j + 1) - 1 = q - 1 + (j + 1)
          /\ (q - 1 + (j + 1)) - 1 = q - 1 + j
      BY <1>1, <1>2, <1>3, <2>1
    <3>2. Same(M[Len(o) + j], SqlLex[q - 1 + j])
      BY <1>6, <1>8, <3>1
    <3>3. /\ M[Len(o) + (j + 1)] = Sql!LexStep(M[Len(o) + j], x[j + 1])
          /\ x[j + 1] = sql[q - 1 + (j + 1)] /\ q - 1 + (j + 1) \in 1..Len(sql)
      <4>1. M[Len(o) + (j + 1)] = Sql!LexStep(M[Len(o) + (j + 1) - 1], x[j + 1])
        BY <1>5, <3>1
      <4>2. x[j + 1] = sql[q + (j + 1) - 1] /\ q + (j + 1) - 1 \in 1..Len(sql)
        BY <1>3, <3>1
      <4> QED BY <3>1, <4>1, <4>2
    <3>4. SqlLex[q - 1 + (j + 1)] = Sql!LexStep(SqlLex[q - 1 + j], sql[q - 1 + (j + 1)])
      BY <1>2, <3>1, <3>3
    <3>5. M[Len(o) + (j + 1)] = SqlLex[q - 1 + (j + 1)]
      <4>1. \A c : Sql!LexStep(M[Len(o) + j], c) = Sql!LexStep(SqlLex[q - 1 + j], c)
        BY <3>2, SameSteps, Zenon
      <4> QED BY <3>3, <3>4, <4>1
    <3> QED BY <3>5, Zenon DEF Same
  <2>2. j + 1 \in Nat
    OBVIOUS
  <2> QED BY <1>6, <2>1, <2>2
<1>9. Nat \subseteq P
  BY <1>7, <1>8, SetInduction
<1>10. \A j \in 0..e - q + 1 : Same(M[Len(o) + j], SqlLex[q - 1 + j])
  <2> TAKE j \in 0..e - q + 1
  <2>1. j \in Nat /\ j <= e - q + 1
    BY <1>3
  <2> QED BY <1>6, <1>9, <2>1
<1> QED BY <1>10 DEF M, d, x

\* The text up to the next marker, or to the end.
LEMMA PieceAdded ==
  ASSUME SqlTyped, NEW o, NEW f, NEW q, Aligned(o, f, q), NEW e \in q - 1..Len(sql),
         NEW k \in Nat, Placed(o, f, k), k # 0 /\ q <= e => NoQuote(sql[q])
  PROVE  /\ Aligned(o \o SqlPiece(q, e), f \o SqlPlaces(q, e), e + 1)
         /\ Placed(o \o SqlPiece(q, e), f \o SqlPlaces(q, e), k)
         /\ Len(o \o SqlPiece(q, e)) = Len(o) + (e - q + 1)
<1> DEFINE x == SqlPiece(q, e)
           g == SqlPlaces(q, e)
           d == o \o x
           h == f \o g
<1>1. /\ o \in Seq(OutChars) /\ f \in Seq(Int) /\ Len(f) = Len(o) /\ q \in 1..Len(sql) + 1
      /\ \A j \in 1..Len(o) : f[j] > 0 =>
            f[j] \in 1..q - 1 /\ o[j] = sql[f[j]] /\ Same(Sql!Lex(o)[j - 1], SqlLex[f[j] - 1])
  BY Zenon DEF Aligned
<1>2. Len(sql) \in Nat /\ Len(o) \in Nat
  BY <1>1, SqlLexIs, LenProperties
<1>i. q \in Int /\ e \in Int /\ q >= 1
  BY <1>1, <1>2
<1>3. /\ x \in Seq(OutChars) /\ Len(x) = e - q + 1 /\ e - q + 1 \in Nat
      /\ g \in Seq(Int) /\ Len(g) = e - q + 1
      /\ \A j \in 1..e - q + 1 : x[j] = sql[q + j - 1] /\ g[j] = q + j - 1 /\ q + j - 1 \in 1..Len(sql)
  BY <1>1, SqlPieceIs
<1>4. \A j \in 0..e - q + 1 : Same(Sql!Lex(d)[Len(o) + j], SqlLex[q - 1 + j])
  BY PieceRead
<1> HIDE DEF x, g
<1>5. Joint(d, o, x) /\ JointPlaces(h, f, g)
  BY <1>1, <1>3, JointAre, JointPlacesAre
<1> HIDE DEF d, h
<1>6. /\ d \in Seq(OutChars) /\ Len(d) = Len(o) + (e - q + 1)
      /\ \A j \in 1..Len(o) : d[j] = o[j]
      /\ \A j \in 1..e - q + 1 : d[Len(o) + j] = x[j]
  BY <1>3, <1>5 DEF Joint
<1>7. /\ h \in Seq(Int) /\ Len(h) = Len(o) + (e - q + 1)
      /\ \A j \in 1..Len(o) : h[j] = f[j]
      /\ \A j \in 1..e - q + 1 : h[Len(o) + j] = g[j]
  BY <1>1, <1>3, <1>5 DEF JointPlaces
<1>8. \A j \in 0..Len(o) : Sql!Lex(d)[j] = Sql!Lex(o)[j]
  BY <1>1, <1>3, <1>5, LexJoint
<1>9. \A j \in 1..Len(d) : j \in 1..Len(o) \/ (j - Len(o) \in 1..e - q + 1 /\ Len(o) + (j - Len(o)) = j)
  BY <1>2, <1>3, <1>6
<1>10. Same(Final(d), SqlLex[(e + 1) - 1]) /\ e + 1 \in 1..Len(sql) + 1
  <2>1. e - q + 1 \in 0..e - q + 1 /\ q - 1 + (e - q + 1) = (e + 1) - 1 /\ e + 1 \in 1..Len(sql) + 1
    BY <1>1, <1>2, <1>3
  <2>2. Same(Sql!Lex(d)[Len(o) + (e - q + 1)], SqlLex[q - 1 + (e - q + 1)])
    BY <1>4, <2>1
  <2> QED BY <1>6, <2>1, <2>2 DEF Final
<1>11. ASSUME NEW j \in 1..Len(d), h[j] > 0
       PROVE  h[j] \in 1..(e + 1) - 1 /\ d[j] = sql[h[j]] /\ Same(Sql!Lex(d)[j - 1], SqlLex[h[j] - 1])
  <2>1. CASE j \in 1..Len(o)
    <3>1. h[j] = f[j] /\ d[j] = o[j] /\ j - 1 \in 0..Len(o)
      BY <1>2, <1>6, <1>7, <2>1
    <3>2. f[j] \in 1..q - 1 /\ o[j] = sql[f[j]] /\ Same(Sql!Lex(o)[j - 1], SqlLex[f[j] - 1])
      BY <1>1, <1>11, <2>1, <3>1
    <3>3. f[j] \in 1..(e + 1) - 1
      BY <1>1, <3>2
    <3> QED BY <1>8, <3>1, <3>2, <3>3
  <2>2. CASE j - Len(o) \in 1..e - q + 1 /\ Len(o) + (j - Len(o)) = j
    <3> DEFINE r == j - Len(o)
    <3>0. j \in Int /\ Len(o) \in Int
      BY <1>2
    <3>1. r \in 1..e - q + 1 /\ j = Len(o) + r /\ r - 1 \in 0..e - q + 1 /\ j - 1 = Len(o) + (r - 1)
      BY <1>i, <2>2, <3>0
    <3> HIDE DEF r
    <3>2. h[j] = g[r] /\ d[j] = x[r]
      BY <1>6, <1>7, <3>1
    <3>3. x[r] = sql[q + r - 1] /\ g[r] = q + r - 1 /\ q + r - 1 \in 1..Len(sql)
      BY <1>3, <3>1
    <3>4. Same(Sql!Lex(d)[Len(o) + (r - 1)], SqlLex[q - 1 + (r - 1)])
      BY <1>4, <3>1
    <3>5. q - 1 + (r - 1) = (q + r - 1) - 1 /\ q + r - 1 \in 1..(e + 1) - 1
      BY <1>1, <1>2, <3>1
    <3> QED BY <3>1, <3>2, <3>3, <3>4, <3>5
  <2> QED BY <1>9, <2>1, <2>2
<1>12. Len(d) = Len(h)
  BY <1>6, <1>7
<1>13. Aligned(d, h, e + 1)
  BY <1>6, <1>7, <1>10, <1>11, <1>12, Zenon DEF Aligned
<1>14. \A j \in 1..Len(g) : g[j] > 0
  <2> TAKE j \in 1..Len(g)
  <2>1. j \in 1..e - q + 1 /\ q + j - 1 > 0
    BY <1>i, <1>3
  <2>2. g[j] = q + j - 1
    BY <1>3, <2>1
  <2> QED BY <2>1, <2>2
<1>15. ASSUME NEW j \in 1..Len(d), h[j] < 0 PROVE -h[j] \in 1..k
  <2>1. CASE j \in 1..Len(o)
    BY <1>7, <1>15, <2>1 DEF Placed
  <2>2. CASE j - Len(o) \in 1..e - q + 1 /\ Len(o) + (j - Len(o)) = j
    <3>1. h[j] = g[j - Len(o)] /\ j - Len(o) \in 1..Len(g)
      BY <1>3, <1>7, <2>2
    <3>2. g[j - Len(o)] \in Int /\ g[j - Len(o)] > 0
      BY <1>3, <1>14, <3>1
    <3> QED BY <1>15, <3>1, <3>2
  <2> QED BY <1>9, <2>1, <2>2
<1>16. ASSUME NEW l \in 1..k PROVE \E a, b \in 1..Len(d) : LiteralFrom(d, h, l, a, b)
  <2>1. PICK a \in 1..Len(o), b \in 1..Len(o) : LiteralFrom(o, f, l, a, b)
    BY Zenon DEF Placed
  <2>2. l \in Nat /\ k # 0 /\ \A j \in 1..Len(g) : g[j] # -l
    <3>1. l \in Nat /\ k # 0 /\ l > 0
      OBVIOUS
    <3>2. \A j \in 1..Len(g) : g[j] \in Int
      BY <1>3
    <3> QED BY <1>14, <3>1, <3>2
  <2>3. x # <<>> => x[1] # "'"
    <3>1. x # <<>> => 1 \in 1..e - q + 1 /\ q <= e /\ q + 1 - 1 = q
      <4>1. x # <<>> => Len(x) \in Nat \ {0}
        BY <1>3, EmptySeq
      <4> QED BY <1>1, <1>3, <4>1
    <3>2. x # <<>> => x[1] = sql[q] /\ q <= e
      BY <1>3, <3>1
    <3> QED BY <2>2, <3>2, Zenon DEF NoQuote
  <2>4. LiteralFrom(d, h, l, a, b)
    BY <1>1, <1>3, <2>1, <2>2, <2>3, LiteralStays DEF d, h
  <2>5. a \in 1..Len(d) /\ b \in 1..Len(d)
    BY <1>2, <1>3, <1>6
  <2> QED BY <2>4, <2>5
<1>17. Placed(d, h, k)
  BY <1>15, <1>16, Zenon DEF Placed
<1> QED BY <1>6, <1>13, <1>17 DEF d, h, x, g

\* What precedes a literal is text, and neither a quote nor a minus.
AfterText(o, f) == o # <<>> => f[Len(o)] > 0 /\ o[Len(o)] \notin {"'", "-"}

LEMMA LastState ==
  ASSUME NEW o \in Seq(OutChars), NEW f, AfterText(o, f)
  PROVE  Final(o) # "quote" /\ Final(o) # "dash"
<1>1. CASE o = <<>>
  BY <1>1, FinalEmpty
<1>2. CASE o # <<>>
  <2>1. Len(o) \in Nat \ {0}
    BY <1>2, EmptySeq
  <2>2. Len(o) \in 1..Len(o) /\ Len(o) - 1 \in 0..Len(o)
    BY <2>1
  <2>3. Sql!Lex(o)[Len(o) - 1] \in States
    BY <2>2, LexIs
  <2>4. Final(o) = Sql!LexStep(Sql!Lex(o)[Len(o) - 1], o[Len(o)])
    BY <2>2, LexIs DEF Final
  <2>5. o[Len(o)] # "'" /\ o[Len(o)] # "-"
    BY <1>2, Zenon DEF AfterText
  <2> QED BY <2>3, <2>4, <2>5, Remembers, Zenon
<1> QED BY <1>1, <1>2

LEMMA MarkerState == \A s : Sql!Open(s) => Sql!LexStep(s, "?") = "code"
<1>1. "?" \notin {"'", "\"", "-", "/"} /\ "?" # "*"
  OBVIOUS
<1> QED BY <1>1, LexOther, Zenon

Minus(m, k) == [j \in 1..m |-> -k]

LEMMA MinusIs ==
  ASSUME NEW m \in Nat, NEW k \in Nat
  PROVE  /\ Minus(m, k) \in Seq(Int) /\ Len(Minus(m, k)) = m
         /\ \A j \in 1..m : Minus(m, k)[j] = -k
<1>1. Minus(m, k) \in [1..m -> Int] /\ \A j \in 1..m : Minus(m, k)[j] = -k
  BY DEF Minus
<1> QED BY <1>1, PlacesTyped

\* A marker, and the literal in its place.
Marker(q) == q \in 1..Len(sql) /\ sql[q] = "?" /\ Sql!Open(SqlLex[q - 1])

LEMMA LiteralAdded ==
  ASSUME SqlTyped, NEW o, NEW f, NEW q, Aligned(o, f, q), Marker(q), AfterText(o, f),
         NEW k \in Nat, Placed(o, f, k), NEW x \in Sql!Literals
  PROVE  /\ Aligned(o \o x, f \o Minus(Len(x), k + 1), q + 1)
         /\ Placed(o \o x, f \o Minus(Len(x), k + 1), k + 1)
<1> DEFINE g == Minus(Len(x), k + 1)
           d == o \o x
           h == f \o g
           m == Len(x)
<1>1. /\ o \in Seq(OutChars) /\ f \in Seq(Int) /\ Len(f) = Len(o) /\ q \in 1..Len(sql) + 1
      /\ Same(Final(o), SqlLex[q - 1])
      /\ \A j \in 1..Len(o) : f[j] > 0 =>
            f[j] \in 1..q - 1 /\ o[j] = sql[f[j]] /\ Same(Sql!Lex(o)[j - 1], SqlLex[f[j] - 1])
  BY Zenon DEF Aligned
<1>2. Len(sql) \in Nat /\ Len(o) \in Nat
  BY <1>1, SqlLexIs, LenProperties
<1>3. Final(o) # "quote" /\ Final(o) # "dash"
  BY <1>1, LastState
<1>4. Sql!Open(Final(o))
  <2>1. Sql!Open(SqlLex[q - 1])
    BY Zenon DEF Marker
  <2> QED BY <1>1, <2>1, SameOpen, Zenon
<1>5. x \in Seq(OutChars) /\ Len(x) \in Nat \ {0} /\ Final(d) \in {"code", "quote"}
  BY <1>1, <1>3, <1>4, LiteralRead
<1>6. g \in Seq(Int) /\ Len(g) = m /\ (\A j \in 1..m : g[j] = -(k + 1)) /\ m \in Nat /\ m > 0
  <2>1. Len(x) \in Nat /\ Len(x) > 0 /\ k + 1 \in Nat
    BY <1>5
  <2> QED BY <2>1, MinusIs
<1>7. Joint(d, o, x) /\ JointPlaces(h, f, g)
  BY <1>1, <1>5, <1>6, JointAre, JointPlacesAre
<1> HIDE DEF g, d, h
<1>8. /\ d \in Seq(OutChars) /\ Len(d) = Len(o) + m
      /\ \A j \in 1..Len(o) : d[j] = o[j]
  BY <1>7 DEF Joint
<1>9. /\ h \in Seq(Int) /\ Len(h) = Len(o) + m
      /\ \A j \in 1..Len(o) : h[j] = f[j]
      /\ \A j \in 1..m : h[Len(o) + j] = -(k + 1)
  BY <1>1, <1>6, <1>7 DEF JointPlaces
<1> HIDE DEF m
<1>10. \A j \in 0..Len(o) : Sql!Lex(d)[j] = Sql!Lex(o)[j]
  BY <1>1, <1>5, <1>7, LexJoint
<1>11. ASSUME NEW j \in 1..Len(d)
       PROVE  j \in 1..Len(o) \/ (j \notin 1..Len(o) /\ h[j] = -(k + 1))
  <2>1. CASE j <= Len(o)
    BY <1>2, <2>1
  <2>2. CASE ~(j <= Len(o))
    <3>1. j - Len(o) \in 1..m /\ Len(o) + (j - Len(o)) = j
      BY <1>2, <1>6, <1>8, <2>2
    <3>2. h[Len(o) + (j - Len(o))] = -(k + 1)
      BY <1>9, <3>1
    <3> QED BY <2>2, <3>1, <3>2
  <2> QED BY <2>1, <2>2
<1>12. Same(Final(d), SqlLex[(q + 1) - 1]) /\ q + 1 \in 1..Len(sql) + 1
  <2>1. q \in 1..Len(sql) /\ sql[q] = "?" /\ Sql!Open(SqlLex[q - 1])
    BY Zenon DEF Marker
  <2>2. SqlLex[q] = Sql!LexStep(SqlLex[q - 1], sql[q])
    BY <2>1, SqlLexIs, Zenon
  <2>3. SqlLex[q] = "code"
    BY <2>1, <2>2, MarkerState, Zenon
  <2>4. q \in 1..Len(sql)
    BY <2>1, Zenon
  <2>5. (q + 1) - 1 = q /\ q + 1 \in 1..Len(sql) + 1
    BY <1>2, <2>4
  <2>6. Same(Final(d), SqlLex[q])
    BY <1>5, <2>3 DEF Same
  <2> QED BY <2>5, <2>6
<1>13. ASSUME NEW j \in 1..Len(d), h[j] > 0
       PROVE  h[j] \in 1..(q + 1) - 1 /\ d[j] = sql[h[j]] /\ Same(Sql!Lex(d)[j - 1], SqlLex[h[j] - 1])
  <2>1. j \in 1..Len(o)
    BY <1>11, <1>13
  <2>2. h[j] = f[j] /\ d[j] = o[j] /\ j - 1 \in 0..Len(o)
    BY <1>2, <1>8, <1>9, <2>1
  <2>3. f[j] \in 1..q - 1 /\ o[j] = sql[f[j]] /\ Same(Sql!Lex(o)[j - 1], SqlLex[f[j] - 1])
    BY <1>1, <1>13, <2>1, <2>2
  <2>4. f[j] \in 1..(q + 1) - 1
    BY <1>1, <2>3
  <2> QED BY <1>10, <2>2, <2>3, <2>4
<1>14. Aligned(d, h, q + 1)
  <2>1. Len(d) = Len(h)
    BY <1>8, <1>9
  <2> QED BY <1>8, <1>9, <1>12, <1>13, <2>1, Zenon DEF Aligned
<1>15. \A j \in 1..Len(o) : f[j] \in Int /\ (f[j] < 0 => -f[j] \in 1..k)
  <2>1. \A j \in 1..Len(o) : f[j] \in Int
    BY <1>1
  <2> QED BY <2>1, Zenon DEF Placed
<1>16. \A j \in 1..Len(d) : h[j] < 0 => -h[j] \in 1..k + 1
  <2> SUFFICES ASSUME NEW j \in 1..Len(d), h[j] < 0 PROVE -h[j] \in 1..k + 1
    OBVIOUS
  <2>1. CASE j \in 1..Len(o)
    <3>1. h[j] = f[j]
      BY <1>9, <2>1
    <3>2. -f[j] \in 1..k
      BY <1>15, <2>1, <3>1
    <3> QED BY <3>1, <3>2
  <2>2. CASE h[j] = -(k + 1)
    BY <2>2
  <2> QED BY <1>11, <2>1, <2>2
<1>17. ASSUME NEW l \in 1..k PROVE \E a, b \in 1..Len(d) : LiteralFrom(d, h, l, a, b)
  <2>1. PICK a \in 1..Len(o), b \in 1..Len(o) : LiteralFrom(o, f, l, a, b)
    BY Zenon DEF Placed
  <2>2. l \in Nat /\ l > 0 /\ \A j \in 1..Len(g) : g[j] # -l
    BY <1>6
  <2>3. f[b] = -l
    <3>1. b \in a..b
      <4>1. a \in Int /\ b \in Int /\ a <= b
        <5>1. a <= b
          BY <2>1, Zenon DEF LiteralFrom
        <5> QED BY <1>2, <5>1
      <4> QED BY <4>1
    <3> QED BY <2>1, <3>1, Zenon DEF LiteralFrom
  <2>4. b # Len(o)
    <3>1. o # <<>> => f[Len(o)] > 0
      BY Zenon DEF AfterText
    <3>2. o # <<>>
      <4>1. Len(o) # 0
        BY <1>2
      <4> QED BY <4>1, EmptySeq
    <3> QED BY <2>2, <2>3, <3>1, <3>2
  <2>5. LiteralFrom(d, h, l, a, b)
    BY <1>1, <1>5, <1>6, <2>1, <2>2, <2>4, LiteralStays DEF d, h, m
  <2>6. a \in 1..Len(d) /\ b \in 1..Len(d)
    BY <1>2, <1>6, <1>8
  <2> QED BY <2>5, <2>6
<1>18. \E a, b \in 1..Len(d) : LiteralFrom(d, h, k + 1, a, b)
  <2> DEFINE a == Len(o) + 1
             b == Len(d)
  <2>1. a \in 1..Len(d) /\ b \in 1..Len(d) /\ a <= b /\ a - 1 = Len(o) /\ ~(b < Len(d)) /\ Len(o) \in 0..Len(o)
    BY <1>2, <1>6, <1>8
  <2>2. \A j \in 1..Len(d) : h[j] = -(k + 1) <=> j \in a..b
    <3> SUFFICES ASSUME NEW j \in 1..Len(d) PROVE h[j] = -(k + 1) <=> j \in a..b
      OBVIOUS
    <3>1. CASE j \in 1..Len(o)
      <4>1. h[j] = f[j] /\ j \notin a..b
        BY <1>2, <1>9, <3>1
      <4>2. f[j] # -(k + 1)
        BY <1>15, <3>1
      <4> QED BY <4>1, <4>2
    <3>2. CASE j \notin 1..Len(o) /\ h[j] = -(k + 1)
      <4>1. j \in a..b
        BY <1>2, <1>8, <3>2
      <4> QED BY <3>2, <4>1
    <3> QED BY <1>11, <3>1, <3>2
  <2>3. Sql!Lex(d)[a - 1] = Final(o)
    BY <1>10, <2>1 DEF Final
  <2>4. Sql!Lex(d)[b] = Final(d) /\ Sql!Open(Final(d))
    <3>1. Sql!Open("code") /\ Sql!Open("quote")
      BY Zenon DEF Sql!Open
    <3> QED BY <1>5, <3>1 DEF Final
  <2> HIDE DEF a, b
  <2>5. LiteralFrom(d, h, k + 1, a, b)
    BY <1>3, <1>4, <2>1, <2>2, <2>3, <2>4, Zenon DEF LiteralFrom
  <2> QED BY <2>1, <2>5
<1>19. Placed(d, h, k + 1)
  <2>1. ASSUME NEW l \in 1..k + 1 PROVE \E a, b \in 1..Len(d) : LiteralFrom(d, h, l, a, b)
    <3>1. l \in 1..k \/ l = k + 1
      OBVIOUS
    <3> QED BY <1>17, <1>18, <3>1
  <2> QED BY <1>16, <2>1, Zenon DEF Placed
<1> QED BY <1>14, <1>19 DEF d, h, g

-----------------------------------------------------------------------------
(* SqlText: the invariant of the substitution *)

\* SubstitutionKept, of any result and its places.
Mine(f, k) == {j \in DOMAIN f : f[j] = -k}
KeptBy(o, f) ==
    /\ \A j \in DOMAIN f :
          f[j] > 0 => (Sql!Open(Sql!Lex(o)[j - 1]) <=> Sql!Open(Sql!Lex(sql)[f[j] - 1]))
    /\ \A k \in DOMAIN positions : \E a, b \in Mine(f, k) :
          /\ Mine(f, k) = a..b
          /\ Sql!Open(Sql!Lex(o)[a - 1]) /\ Sql!Open(Sql!Lex(o)[b])
          /\ o[a] = "'" => Sql!Lex(o)[a - 1] # "quote"
          /\ o[b] = "'" /\ b < Len(o) => o[b + 1] # "'"

LEMMA KeptIs == Sql!SubstitutionKept <=> KeptBy(out, from)
  BY Zenon DEF Sql!SubstitutionKept, KeptBy, Mine

LEMMA MineIs ==
  ASSUME NEW o \in Seq(OutChars), NEW f \in Seq(Int), Len(o) = Len(f), NEW k \in Nat,
         NEW a \in 1..Len(o), NEW b \in 1..Len(o), LiteralFrom(o, f, k, a, b)
  PROVE  a \in Mine(f, k) /\ b \in Mine(f, k) /\ Mine(f, k) = a..b
<1>1. Len(o) \in Nat /\ DOMAIN f = 1..Len(o)
  BY LenProperties
<1>2. a <= b /\ \A j \in 1..Len(o) : f[j] = -k <=> j \in a..b
  BY Zenon DEF LiteralFrom
<1>3. a..b \subseteq 1..Len(o) /\ a \in a..b /\ b \in a..b
  BY <1>1, <1>2
<1> QED BY <1>1, <1>2, <1>3, Zenon DEF Mine

LEMMA AlignedIsKept ==
  ASSUME SqlTyped, NEW m \in Nat, DOMAIN positions = 1..m,
         NEW o, NEW f, NEW q, Aligned(o, f, q), Placed(o, f, m)
  PROVE  KeptBy(o, f)
<1>0. o \in Seq(OutChars) /\ f \in Seq(Int) /\ Len(f) = Len(o)
  BY Zenon DEF Aligned
<1>1. \A j \in 1..Len(o) : f[j] > 0 => Same(Sql!Lex(o)[j - 1], SqlLex[f[j] - 1])
  BY Zenon DEF Aligned
<1>2. DOMAIN f = 1..Len(o)
  BY <1>0
<1>3. ASSUME NEW j \in DOMAIN f, f[j] > 0
      PROVE  Sql!Open(Sql!Lex(o)[j - 1]) <=> Sql!Open(Sql!Lex(sql)[f[j] - 1])
  <2>1. j \in 1..Len(o)
    BY <1>2
  <2>2. Same(Sql!Lex(o)[j - 1], SqlLex[f[j] - 1])
    BY <1>1, <1>3, <2>1, Zenon
  <2>3. Sql!Open(Sql!Lex(o)[j - 1]) <=> Sql!Open(SqlLex[f[j] - 1])
    BY <2>2, SameOpen
  <2> QED BY <2>3 DEF SqlLex
<1>4. ASSUME NEW k \in DOMAIN positions
      PROVE  \E a, b \in Mine(f, k) :
                /\ Mine(f, k) = a..b
                /\ Sql!Open(Sql!Lex(o)[a - 1]) /\ Sql!Open(Sql!Lex(o)[b])
                /\ o[a] = "'" => Sql!Lex(o)[a - 1] # "quote"
                /\ o[b] = "'" /\ b < Len(o) => o[b + 1] # "'"
  <2>0. k \in 1..m /\ k \in Nat
    OBVIOUS
  <2>1. PICK a \in 1..Len(o), b \in 1..Len(o) : LiteralFrom(o, f, k, a, b)
    BY <2>0, Zenon DEF Placed
  <2>2. a \in Mine(f, k) /\ b \in Mine(f, k) /\ Mine(f, k) = a..b
    BY <1>0, <2>0, <2>1, MineIs
  <2>3. /\ Sql!Open(Sql!Lex(o)[a - 1]) /\ Sql!Open(Sql!Lex(o)[b])
        /\ Sql!Lex(o)[a - 1] # "quote"
        /\ b < Len(o) => o[b + 1] # "'"
    BY <2>1, Zenon DEF LiteralFrom
  <2> QED BY <2>2, <2>3, Zenon
<1> QED BY <1>3, <1>4, Zenon DEF KeptBy

LEMMA NothingWritten ==
  ASSUME SqlTyped PROVE Aligned(<<>>, <<>>, 1) /\ Placed(<<>>, <<>>, 0)
<1>1. /\ <<>> \in Seq(OutChars) /\ <<>> \in Seq(Int) /\ Len(<<>>) = 0 /\ 1 \in 1..Len(sql) + 1
      /\ 1 - 1 = 0 /\ 1..0 = {}
  BY SqlLexIs, EmptySeq
<1>2. Same(Final(<<>>), SqlLex[0])
  BY SqlLexIs, FinalEmpty DEF Same
<1> QED BY <1>1, <1>2 DEF Aligned, Placed

\* What the scan has found, and what Apart says of it.
LEMMA MarkerAt ==
  ASSUME SqlTyped, MarkersTo(sql, SqlLex, positions, Len(sql) + 1)
  PROVE  /\ Len(positions) \in Nat /\ DOMAIN positions = 1..Len(positions)
         /\ \A k \in 1..Len(positions) : Marker(positions[k])
         /\ \A k \in 2..Len(positions) : positions[k - 1] < positions[k]
<1>1. /\ positions \in Seq(Nat)
      /\ {positions[k] : k \in DOMAIN positions}
            = {l \in 1..(Len(sql) + 1) - 1 : sql[l] = "?" /\ Sql!Open(SqlLex[l - 1])}
      /\ \A k \in 2..Len(positions) : positions[k - 1] < positions[k]
  BY Zenon DEF MarkersTo
<1>2. Len(positions) \in Nat /\ DOMAIN positions = 1..Len(positions)
  <2>1. positions \in Seq(Nat)
    BY <1>1, Zenon
  <2> QED BY <2>1, LenProperties
<1>3. (Len(sql) + 1) - 1 = Len(sql)
  BY SqlLexIs
<1>4. \A k \in 1..Len(positions) : Marker(positions[k])
  <2> TAKE k \in 1..Len(positions)
  <2>1. positions[k] \in {l \in 1..(Len(sql) + 1) - 1 : sql[l] = "?" /\ Sql!Open(SqlLex[l - 1])}
    BY <1>1, <1>2, Zenon
  <2> QED BY <1>3, <2>1, Zenon DEF Marker
<1> QED BY <1>1, <1>2, <1>4, Zenon

Calm(c) == c \notin {"'", "?", "-"}

LEMMA ApartIs ==
  ASSUME Sql!Apart
  PROVE  \A k \in DOMAIN positions :
            /\ positions[k] - 1 \in 1..Len(sql) => Calm(sql[positions[k] - 1])
            /\ positions[k] + 1 \in 1..Len(sql) => Calm(sql[positions[k] + 1])
  BY Zenon DEF Sql!Apart, Sql!n, Calm

\* The last character of a piece that is added, and its place.
LEMMA PieceLast ==
  ASSUME SqlTyped, NEW o, NEW f, NEW q, Aligned(o, f, q), NEW e \in q..Len(sql)
  PROVE  (f \o SqlPlaces(q, e))[Len(o) + (e - q + 1)] = e
<1>1. f \in Seq(Int) /\ Len(f) = Len(o) /\ q \in 1..Len(sql) + 1
  BY Zenon DEF Aligned
<1>2. Len(sql) \in Nat /\ e \in q - 1..Len(sql)
  BY <1>1, SqlLexIs
<1>3. /\ SqlPlaces(q, e) \in Seq(Int) /\ Len(SqlPlaces(q, e)) = e - q + 1
      /\ \A j \in 1..e - q + 1 : SqlPlaces(q, e)[j] = q + j - 1
  BY <1>1, <1>2, SqlPieceIs
<1>4. JointPlaces(f \o SqlPlaces(q, e), f, SqlPlaces(q, e))
  BY <1>1, <1>3, JointPlacesAre
<1>5. e - q + 1 \in 1..e - q + 1 /\ q + (e - q + 1) - 1 = e
  BY <1>1, <1>2
<1>6. (f \o SqlPlaces(q, e))[Len(f) + (e - q + 1)] = SqlPlaces(q, e)[e - q + 1]
  BY <1>3, <1>4, <1>5 DEF JointPlaces
<1> QED BY <1>1, <1>3, <1>5, <1>6

Begins(q, k) == q = IF k = 0 THEN 1 ELSE positions[k] + 1

\* The result with k parameters in it, and the text before the next marker.
Written(o, f, q, k) ==
    /\ Begins(q, k) /\ Aligned(o, f, q) /\ Placed(o, f, k) /\ (k = 0 => o = <<>>)

LEMMA NoQuoteNext ==
  ASSUME SqlTyped, MarkersTo(sql, SqlLex, positions, Len(sql) + 1), Sql!Apart,
         NEW k \in 0..Len(positions), NEW q, Begins(q, k), NEW e \in q - 1..Len(sql)
  PROVE  k # 0 /\ q <= e => NoQuote(sql[q])
<1> SUFFICES ASSUME k # 0, q <= e PROVE NoQuote(sql[q])
  OBVIOUS
<1>1. Len(positions) \in Nat /\ DOMAIN positions = 1..Len(positions) /\ Len(sql) \in Nat
  BY MarkerAt, SqlLexIs
<1>2. k \in DOMAIN positions /\ q = positions[k] + 1
  BY <1>1 DEF Begins
<1>3. positions[k] \in 1..Len(sql)
  BY <1>1, <1>2, MarkerAt, Zenon DEF Marker
<1>4. positions[k] + 1 \in 1..Len(sql)
  BY <1>1, <1>2, <1>3
<1>5. Calm(sql[positions[k] + 1])
  BY <1>2, <1>4, ApartIs, Zenon
<1> QED BY <1>2, <1>5, Zenon DEF Calm, NoQuote

LEMMA CalmIs == /\ \A c : Calm(c) => c \notin {"'", "-"}
                /\ \A c : Calm(c) => c # "?"
  BY Zenon DEF Calm

\* What stands before a marker is text, or nothing.
LEMMA TextBefore ==
  ASSUME SqlTyped, MarkersTo(sql, SqlLex, positions, Len(sql) + 1), Sql!Apart,
         NEW k \in Nat, k + 1 \in 1..Len(positions),
         NEW o, NEW f, NEW q, Written(o, f, q, k), NEW e, e = positions[k + 1] - 1
  PROVE  /\ e \in q - 1..Len(sql) /\ Marker(e + 1) /\ (k # 0 /\ q <= e => NoQuote(sql[q]))
         /\ AfterText(o \o SqlPiece(q, e), f \o SqlPlaces(q, e))
<1>1. /\ Len(positions) \in Nat /\ DOMAIN positions = 1..Len(positions) /\ Len(sql) \in Nat
      /\ \A l \in 1..Len(positions) : Marker(positions[l])
      /\ \A l \in 2..Len(positions) : positions[l - 1] < positions[l]
  BY MarkerAt, SqlLexIs
<1>2. \A l \in 1..Len(positions) : positions[l] \in 1..Len(sql) /\ sql[positions[l]] = "?"
  BY <1>1, Zenon DEF Marker
<1>3. Begins(q, k) /\ Aligned(o, f, q) /\ Placed(o, f, k) /\ (k = 0 => o = <<>>)
  BY Zenon DEF Written
<1>4. q \in 1..Len(sql) + 1 /\ o \in Seq(OutChars)
  BY <1>3, Zenon DEF Aligned
<1>5. positions[k + 1] \in 1..Len(sql) /\ e + 1 = positions[k + 1] /\ e \in Int
  BY <1>1, <1>2
<1>6. Marker(e + 1)
  BY <1>1, <1>5, Zenon
<1>7. k # 0 => k \in 1..Len(positions) /\ q = positions[k] + 1 /\ positions[k] < positions[k + 1]
  <2> SUFFICES ASSUME k # 0
               PROVE  k \in 1..Len(positions) /\ q = positions[k] + 1 /\ positions[k] < positions[k + 1]
    OBVIOUS
  <2>1. k \in 1..Len(positions) /\ k + 1 \in 2..Len(positions) /\ (k + 1) - 1 = k
    BY <1>1
  <2>2. q = positions[k] + 1
    BY <1>3 DEF Begins
  <2> QED BY <1>1, <2>1, <2>2
<1>8. k = 0 => q = 1
  BY <1>3 DEF Begins
<1>9. k # 0 => positions[k] \in 1..Len(sql)
  BY <1>2, <1>7
<1>10. e \in q - 1..Len(sql)
  BY <1>1, <1>4, <1>5, <1>7, <1>8, <1>9
<1>11. k # 0 /\ q <= e => NoQuote(sql[q])
  <2>1. k \in 0..Len(positions)
    BY <1>1
  <2> QED BY <1>3, <1>10, <2>1, NoQuoteNext
<1> DEFINE d == o \o SqlPiece(q, e)
           h == f \o SqlPlaces(q, e)
<1>12. Aligned(d, h, e + 1) /\ Len(d) = Len(o) + (e - q + 1)
  <2>1. Aligned(o, f, q) /\ Placed(o, f, k)
    BY <1>3, Zenon
  <2> QED BY <1>10, <1>11, <2>1, PieceAdded
<1>13. CASE q <= e
  <2>1. e \in q..Len(sql) /\ e > 0 /\ e \in 1..Len(sql)
    BY <1>1, <1>4, <1>10, <1>13
  <2>2. h[Len(d)] = e
    <3>1. h[Len(o) + (e - q + 1)] = e
      BY <1>3, <2>1, PieceLast, Zenon
    <3> QED BY <1>12, <3>1
  <2>3. Len(d) \in 1..Len(d)
    BY <1>4, <1>12, <2>1, LenProperties
  <2> HIDE DEF d, h
  <2>4. \A j \in 1..Len(d) : h[j] > 0 => d[j] = sql[h[j]]
    BY <1>12, Zenon DEF Aligned
  <2>5. d[Len(d)] = sql[e]
    BY <2>1, <2>2, <2>3, <2>4
  <2>6. k + 1 \in DOMAIN positions /\ positions[k + 1] - 1 = e
    BY <1>1
  <2>7. Calm(sql[e])
    <3>1. positions[k + 1] - 1 \in 1..Len(sql) => Calm(sql[positions[k + 1] - 1])
      BY <2>6, ApartIs, Zenon
    <3> QED BY <2>1, <2>6, <3>1
  <2>8. d[Len(d)] \notin {"'", "-"}
    BY <2>5, <2>7, CalmIs
  <2>9. h[Len(d)] > 0
    BY <2>1, <2>2
  <2>10. AfterText(d, h)
    BY <2>8, <2>9, Zenon DEF AfterText
  <2> QED BY <1>6, <1>10, <1>11, <2>10 DEF d, h
<1>14. CASE ~(q <= e)
  <2>1. q = e + 1 /\ q \in 1..Len(sql)
    BY <1>1, <1>4, <1>5, <1>10, <1>14
  <2>2. k = 0
    <3> SUFFICES ASSUME k # 0 PROVE FALSE
      OBVIOUS
    <3>1. k \in DOMAIN positions /\ positions[k] + 1 \in 1..Len(sql) /\ positions[k] + 1 = positions[k + 1]
      BY <1>1, <1>5, <1>7, <2>1
    <3>2. Calm(sql[positions[k] + 1])
      BY <3>1, ApartIs, Zenon
    <3>3. sql[positions[k + 1]] = "?"
      BY <1>2
    <3> QED BY <3>1, <3>2, <3>3, CalmIs
  <2>3. Len(o) = 0
    BY <1>3, <2>2, EmptySeq
  <2>4. Len(d) = 0 /\ d \in Seq(OutChars)
    <3>1. d \in Seq(OutChars)
      BY <1>12, Zenon DEF Aligned
    <3> QED BY <1>4, <1>5, <1>12, <2>1, <2>3, <3>1, SMTT(30)
  <2> HIDE DEF d, h
  <2>5. d = <<>>
    BY <2>4, EmptySeq
  <2>6. AfterText(d, h)
    BY <2>5, Zenon DEF AfterText
  <2> QED BY <1>6, <1>10, <1>11, <2>6 DEF d, h
<1> QED BY <1>13, <1>14

LEMMA ParameterPut ==
  ASSUME SqlTyped, MarkersTo(sql, SqlLex, positions, Len(sql) + 1), Sql!Apart,
         NEW k \in Nat, k + 1 \in 1..Len(positions),
         NEW o, NEW f, NEW q, Written(o, f, q, k), NEW e, e = positions[k + 1] - 1,
         NEW x \in Sql!Literals
  PROVE  Written((o \o SqlPiece(q, e)) \o x, (f \o SqlPlaces(q, e)) \o Minus(Len(x), k + 1),
                 (e + 1) + 1, k + 1)
<1>1. /\ e \in q - 1..Len(sql) /\ Marker(e + 1) /\ (k # 0 /\ q <= e => NoQuote(sql[q]))
      /\ AfterText(o \o SqlPiece(q, e), f \o SqlPlaces(q, e))
  BY TextBefore
<1>2. Aligned(o, f, q) /\ Placed(o, f, k)
  BY Zenon DEF Written
<1> DEFINE d == o \o SqlPiece(q, e)
           h == f \o SqlPlaces(q, e)
<1>3. Aligned(d, h, e + 1) /\ Placed(d, h, k)
  BY <1>1, <1>2, PieceAdded
<1>4. AfterText(d, h)
  BY <1>1
<1> HIDE DEF d, h
<1>5. Aligned(d \o x, h \o Minus(Len(x), k + 1), (e + 1) + 1) /\ Placed(d \o x, h \o Minus(Len(x), k + 1), k + 1)
  BY <1>1, <1>3, <1>4, LiteralAdded
<1>6. k + 1 # 0 /\ (e + 1) + 1 = positions[k + 1] + 1
  <2>1. positions[k + 1] \in Int
    <3>1. Len(sql) \in Nat /\ Marker(positions[k + 1])
      BY MarkerAt, SqlLexIs
    <3>2. positions[k + 1] \in 1..Len(sql)
      BY <3>1, Zenon DEF Marker
    <3> QED BY <3>1, <3>2
  <2> QED BY <2>1
<1>7. Begins((e + 1) + 1, k + 1)
  BY <1>6, Zenon DEF Begins
<1>8. Written(d \o x, h \o Minus(Len(x), k + 1), (e + 1) + 1, k + 1)
  BY <1>5, <1>6, <1>7, Zenon DEF Written
<1> QED BY <1>8 DEF d, h

LEMMA RestPut ==
  ASSUME SqlTyped, MarkersTo(sql, SqlLex, positions, Len(sql) + 1), Sql!Apart,
         NEW o, NEW f, NEW q, Written(o, f, q, Len(positions))
  PROVE  KeptBy(o \o SqlPiece(q, Len(sql)), f \o SqlPlaces(q, Len(sql)))
<1> DEFINE k == Len(positions)
           e == Len(sql)
           d == o \o SqlPiece(q, e)
           h == f \o SqlPlaces(q, e)
<1>1. k \in Nat /\ DOMAIN positions = 1..k /\ e \in Nat
  BY MarkerAt, SqlLexIs
<1>2. Begins(q, k) /\ Aligned(o, f, q) /\ Placed(o, f, k)
  BY Zenon DEF Written
<1>3. q \in 1..e + 1
  BY <1>2, Zenon DEF Aligned
<1>4. k \in 0..k /\ e \in q - 1..e
  BY <1>1, <1>3
<1>5. k # 0 /\ q <= e => NoQuote(sql[q])
  BY <1>2, <1>4, NoQuoteNext
<1>6. Aligned(d, h, e + 1) /\ Placed(d, h, k)
  BY <1>1, <1>2, <1>4, <1>5, PieceAdded
<1> HIDE DEF d, h
<1>7. KeptBy(d, h)
  BY <1>1, <1>6, AlignedIsKept
<1> QED BY <1>7 DEF d, h

\* Before the first parameter nothing is written; between parameters the text
\* so far means what it meant; at the end so does the whole.
Untouched == param = 1 /\ prev = 1 /\ out = <<>> /\ from = <<>>

SubstInv ==
    /\ ScanInv
    /\ substitution = "scan" => Untouched
    /\ substitution = "substitute" /\ Sql!Apart =>
          param \in 1..Len(positions) + 1 /\ Written(out, from, prev, param - 1)
    /\ LiteralsStand

LEMMA ScanInvIs ==
  ScanInv => /\ SqlTyped
             /\ substitution # "scan" => MarkersTo(sql, SqlLex, positions, Len(sql) + 1)
  BY Zenon DEF ScanInv, SqlTyped, SqlLex

LEMMA SubstInitOk == Init => SubstInv
<1> SUFFICES ASSUME Init PROVE SubstInv
  OBVIOUS
<1>0. ScanInv
  BY SqlInitOk
<1>1. CASE Sql!Init
  <2>1. substitution = "scan" /\ Untouched
    BY <1>1, Zenon DEF Sql!Init, Untouched
  <2>2. substitution # "substitute" /\ substitution # "done"
    BY <2>1
  <2> QED BY <1>0, <2>1, <2>2, Zenon DEF SubstInv, LiteralsStand, Sql!LiteralsStand
<1>2. CASE SqlAtRest
  <2>1. substitution = "done" /\ out = <<>> /\ from = <<>> /\ positions = <<>>
    BY <1>2, Zenon DEF SqlAtRest
  <2>2. substitution # "scan" /\ substitution # "substitute"
    BY <2>1
  <2>3. SqlTyped /\ 0 \in Nat
    BY <1>0, ScanInvIs
  <2>4. DOMAIN positions = 1..0
    BY <2>1
  <2>5. KeptBy(<<>>, <<>>)
    BY <2>3, <2>4, NothingWritten, AlignedIsKept, Zenon
  <2>6. Sql!SubstitutionKept
    BY <2>1, <2>5, KeptIs, Zenon
  <2> QED BY <1>0, <2>2, <2>6, Zenon DEF SubstInv, LiteralsStand, Sql!LiteralsStand
<1> QED BY <1>1, <1>2, Zenon DEF Init

\* Nothing that is said of the text changes while text and markers stay.
LEMMA Stays ==
  ASSUME UNCHANGED <<sql, positions>>
  PROVE  /\ Sql!Apart' <=> Sql!Apart
         /\ Written(out', from', prev', param' - 1) => Written(out, from, prev, param - 1)'
         /\ KeptBy(out', from') => Sql!SubstitutionKept'
<1>1. Sql!Apart' <=> Sql!Apart
  BY Zenon DEF Sql!Apart, Sql!n
<1>2. Written(out', from', prev', param' - 1) => Written(out, from, prev, param - 1)'
  BY Zenon DEF Written, Begins, Aligned, SqlLex
<1>3. KeptBy(out', from') => Sql!SubstitutionKept'
  BY Zenon DEF Sql!SubstitutionKept, KeptBy, Mine
<1> QED BY <1>1, <1>2, <1>3, Zenon

LEMMA SubstStepOk == SubstInv /\ [Next]_vars => SubstInv'
<1> SUFFICES ASSUME SubstInv, [Next]_vars PROVE SubstInv'
  OBVIOUS
<1>0. ScanInv' /\ ScanInv
  BY SqlStepOk, Zenon DEF SubstInv
<1>1. SqlTyped /\ (substitution # "scan" => MarkersTo(sql, SqlLex, positions, Len(sql) + 1))
  BY <1>0, ScanInvIs, Zenon
<1>2. /\ substitution = "scan" => Untouched
      /\ substitution = "substitute" /\ Sql!Apart =>
            param \in 1..Len(positions) + 1 /\ Written(out, from, prev, param - 1)
      /\ substitution = "done" /\ Sql!Apart => Sql!SubstitutionKept
  BY Zenon DEF SubstInv, LiteralsStand, Sql!LiteralsStand
<1>3. CASE UNCHANGED sqlVars
  <2>0. UNCHANGED <<sql, positions>> /\ UNCHANGED <<param, prev, out, from, substitution>>
    BY <1>3, Zenon DEF sqlVars
  <2>1. Sql!Apart' <=> Sql!Apart
    BY <2>0, Stays, Zenon
  <2>2. (substitution = "scan" => Untouched)'
    BY <1>2, <2>0, Zenon DEF Untouched
  <2>3. ASSUME substitution' = "substitute", Sql!Apart'
        PROVE  (param \in 1..Len(positions) + 1 /\ Written(out, from, prev, param - 1))'
    <3>1. param \in 1..Len(positions) + 1 /\ Written(out, from, prev, param - 1)
      BY <1>2, <2>0, <2>1, <2>3, Zenon
    <3>2. Written(out', from', prev', param' - 1)
      BY <2>0, <3>1, Zenon
    <3> QED BY <2>0, <3>1, <3>2, Stays, Zenon
  <2>4. ASSUME substitution' = "done", Sql!Apart' PROVE Sql!SubstitutionKept'
    <3>1. KeptBy(out, from)
      BY <1>2, <2>0, <2>1, <2>4, KeptIs, Zenon
    <3>2. KeptBy(out', from')
      BY <2>0, <3>1, Zenon
    <3> QED BY <2>0, <3>2, Stays, Zenon
  <2> QED BY <1>0, <2>2, <2>3, <2>4, Zenon DEF SubstInv, LiteralsStand, Sql!LiteralsStand
<1>4. CASE Sql!Code \/ Sql!String \/ Sql!Identifier \/ Sql!Line \/ Sql!Block
  <2>1. substitution = "scan" /\ UNCHANGED <<param, prev, out, from, substitution>>
    BY <1>4, Zenon DEF Sql!Code, Sql!String, Sql!Identifier, Sql!Line, Sql!Block, Sql!Scanning
  <2>2. (substitution = "scan" => Untouched)'
    BY <1>2, <2>1, Zenon DEF Untouched
  <2>3. substitution' # "substitute" /\ substitution' # "done"
    BY <2>1
  <2> QED BY <1>0, <2>2, <2>3, Zenon DEF SubstInv, LiteralsStand, Sql!LiteralsStand
<1>5. CASE Sql!Scanned
  <2>1. /\ substitution = "scan" /\ substitution' = "substitute"
        /\ UNCHANGED <<sql, positions>> /\ UNCHANGED <<param, prev, out, from>>
    BY <1>5, Zenon DEF Sql!Scanned
  <2>2. substitution' # "scan" /\ substitution' # "done"
    BY <2>1
  <2>3. param' = 1 /\ prev' = 1 /\ out' = <<>> /\ from' = <<>>
    BY <1>2, <2>1, Zenon DEF Untouched
  <2>4. MarkersTo(sql, SqlLex, positions, Len(sql) + 1)
    <3>1. MarkersTo(sql, SqlLex, positions, Len(sql) + 1)'
      BY <1>0, <2>2, Zenon DEF ScanInv, SqlLex
    <3> QED BY <2>1, <3>1, Zenon DEF MarkersTo, SqlLex
  <2>5. Len(positions) \in Nat
    BY <1>1, <2>4, MarkerAt
  <2>6. param' \in 1..Len(positions) + 1 /\ param' - 1 = 0
    BY <2>3, <2>5
  <2>7. Begins(1, 0)
    BY DEF Begins
  <2>8. Written(<<>>, <<>>, 1, 0)
    BY <1>1, <2>7, NothingWritten, Zenon DEF Written
  <2>9. Written(out', from', prev', param' - 1)
    BY <2>3, <2>6, <2>8, Zenon
  <2>10. Written(out, from, prev, param - 1)'
    BY <2>1, <2>9, Stays, Zenon
  <2> QED BY <1>0, <2>1, <2>2, <2>6, <2>10, Zenon DEF SubstInv, LiteralsStand, Sql!LiteralsStand
<1>6. ASSUME NEW literal \in Sql!Literals, Sql!Substitute(literal) PROVE SubstInv'
  <2>1. /\ substitution = "substitute" /\ substitution' = "substitute" /\ param <= Len(positions)
        /\ UNCHANGED <<sql, positions>> /\ param' = param + 1 /\ prev' = positions[param] + 1
    BY <1>6, Zenon DEF Sql!Substitute
  <2>2. substitution' # "scan" /\ substitution' # "done" /\ substitution # "scan"
    BY <2>1
  <2>m. MarkersTo(sql, SqlLex, positions, Len(sql) + 1)
    BY <1>1, <2>2, Zenon
  <2>3. ASSUME Sql!Apart
        PROVE  param' \in 1..Len(positions) + 1 /\ Written(out', from', prev', param' - 1)
    <3>1. param \in 1..Len(positions) + 1 /\ Written(out, from, prev, param - 1)
      BY <1>2, <2>1, <2>3, Zenon
    <3>2. Len(positions) \in Nat /\ \A k \in 1..Len(positions) : Marker(positions[k])
      BY <1>1, <2>m, MarkerAt
    <3> DEFINE k == param - 1
               e == positions[param] - 1
    <3>3. k \in Nat /\ k + 1 = param /\ k + 1 \in 1..Len(positions) /\ param' - 1 = k + 1
      BY <2>1, <3>1, <3>2
    <3>4. positions[param] \in Int
      <4>1. Marker(positions[param]) /\ Len(sql) \in Nat
        BY <1>1, <3>2, <3>3, SqlLexIs
      <4>2. positions[param] \in 1..Len(sql)
        BY <4>1, Zenon DEF Marker
      <4> QED BY <4>1, <4>2
    <3>5. /\ e = positions[k + 1] - 1 /\ prev' = (e + 1) + 1
          /\ positions[param] - prev = e - prev + 1
      <4>1. prev \in Int
        <5>1. prev \in 1..Len(sql) + 1 /\ Len(sql) \in Nat
          BY <1>1, <3>1, SqlLexIs, Zenon DEF Written, Aligned
        <5> QED BY <5>1
      <4>2. e = positions[k + 1] - 1
        BY <3>3
      <4> QED BY <2>1, <3>4, <4>1, <4>2
    <3>6. /\ out' = (out \o SqlPiece(prev, e)) \o literal
          /\ from' = (from \o [j \in 1..positions[param] - prev |-> prev + j - 1])
                           \o [j \in 1..Len(literal) |-> -param]
      BY <1>6, Zenon DEF Sql!Substitute, SqlPiece
    <3>7. from' = (from \o SqlPlaces(prev, e)) \o Minus(Len(literal), k + 1)
      BY <3>3, <3>5, <3>6, Zenon DEF SqlPlaces, Minus
    <3> HIDE DEF k, e
    <3>8. Written((out \o SqlPiece(prev, e)) \o literal,
                  (from \o SqlPlaces(prev, e)) \o Minus(Len(literal), k + 1), (e + 1) + 1, k + 1)
      <4>1. Written(out, from, prev, k)
        BY <3>1 DEF k
      <4> QED BY <1>1, <2>3, <2>m, <3>3, <3>5, <4>1, ParameterPut
    <3>9. Written(out', from', prev', param' - 1)
      BY <3>3, <3>5, <3>6, <3>7, <3>8, Zenon
    <3>10. param' \in 1..Len(positions) + 1
      BY <2>1, <3>1, <3>2
    <3> QED BY <3>9, <3>10
  <2>4. (substitution = "substitute" /\ Sql!Apart =>
            param \in 1..Len(positions) + 1 /\ Written(out, from, prev, param - 1))'
    BY <2>1, <2>3, Stays, Zenon
  <2> QED BY <1>0, <2>2, <2>4, Zenon DEF SubstInv, LiteralsStand, Sql!LiteralsStand
<1>7. CASE Sql!Rest
  <2>1. /\ substitution = "substitute" /\ substitution' = "done" /\ param > Len(positions)
        /\ UNCHANGED <<sql, positions>>
        /\ out' = out \o SqlPiece(prev, Len(sql)) /\ from' = from \o SqlPlaces(prev, Len(sql))
    BY <1>7, Zenon DEF Sql!Rest, Sql!n, SqlPiece, SqlPlaces
  <2>2. substitution' # "scan" /\ substitution' # "substitute" /\ substitution # "scan"
    BY <2>1
  <2>m. MarkersTo(sql, SqlLex, positions, Len(sql) + 1)
    BY <1>1, <2>2, Zenon
  <2>3. ASSUME Sql!Apart PROVE KeptBy(out', from')
    <3>1. param \in 1..Len(positions) + 1 /\ Written(out, from, prev, param - 1)
      BY <1>2, <2>1, <2>3, Zenon
    <3>2. Len(positions) \in Nat
      BY <1>1, <2>m, MarkerAt
    <3>3. param - 1 = Len(positions)
      BY <2>1, <3>1, <3>2
    <3>4. Written(out, from, prev, Len(positions))
      BY <3>1, <3>3
    <3>5. KeptBy(out \o SqlPiece(prev, Len(sql)), from \o SqlPlaces(prev, Len(sql)))
      BY <1>1, <2>3, <2>m, <3>4, RestPut
    <3> QED BY <2>1, <3>5, Zenon
  <2>4. ASSUME Sql!Apart' PROVE Sql!SubstitutionKept'
    BY <2>1, <2>3, <2>4, Stays, Zenon
  <2> QED BY <1>0, <2>2, <2>4, Zenon DEF SubstInv, LiteralsStand, Sql!LiteralsStand
<1>8. Sql!Next \/ UNCHANGED sqlVars
  BY Zenon DEF Next, vars
<1> QED BY <1>3, <1>4, <1>5, <1>6, <1>7, <1>8, Zenon DEF Sql!Next

\* In the text that is sent every parameter is one literal of its own, which
\* begins and ends in the open, and the rest of the text means what it meant:
\* for every text whose markers stand apart, and every literal put into it
\* (substituteParameters, escapeSqlString).
THEOREM LiteralsInPlace == Spec => []LiteralsStand
<1>1. Init => SubstInv
  BY SubstInitOk
<1>2. SubstInv /\ [Next]_vars => SubstInv'
  BY SubstStepOk
<1>3. SubstInv => LiteralsStand
  BY DEF SubstInv
<1> QED BY <1>1, <1>2, <1>3, PTL DEF Spec

=============================================================================
