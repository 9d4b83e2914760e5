----------------------------- MODULE ConfigKeys -----------------------------
(***************************************************************************)
(* The keys of a connection string that config.cpp reads.                  *)
(***************************************************************************)

\* The keys that a profile may have, and those that only a string may have.
ProfileKeys == {"HOST", "SERVER", "PORT", "SCHEME", "BROKER", "CONTROLLER", "UID", "USER",
                "PWD", "PASSWORD", "TOKEN", "DATABASE", "TIMEOUT", "SSLVERIFY",
                "USEMULTISTAGE", "QUERYOPTIONS", "STRINGCOLUMNSIZE", "HEALTHCHECK"}
StringKeys == {"DSN", "DRIVER", "PROTOCOL", "BROKERHOST", "BROKERPORT", "CONTROLLERURL",
               "CONTROLLERHOST", "CONTROLLERPORT", "USERNAME", "AUTHTOKEN", "DB",
               "QUERYTIMEOUT", "VERIFYSSL", "MULTISTAGE"}
Keys == ProfileKeys \cup StringKeys

\* Those whose value is an endpoint or a URL, and those for a host alone.
PlaceKeys == {"BROKER", "CONTROLLER", "CONTROLLERURL"}
HostKeys == {"HOST", "SERVER", "BROKERHOST", "CONTROLLERHOST"}

=============================================================================
