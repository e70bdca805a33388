---- MODULE ExitLookup ----
(***************************************************************************)
(* What nmbench/gateway.py knows of an exit once its address is known: the *)
(* label ExitRegistry publishes it under, and where locate() says it is,   *)
(* asked of a service of its own and kept by address.                      *)
(*                                                                         *)
(* An exit is [ip, country], the country being where it truly is; "none"   *)
(* is an address, or a country, there is none of.                          *)
(***************************************************************************)
EXTENDS Integers, Sequences

CONSTANT LocateGiveUp   \* _LOCATE_GIVE_UP
ASSUME LocateAssumption == LocateGiveUp \in Nat \ {0}

NoExit == [ip |-> "none", country |-> "none"]
NoIdentity == [ip |-> "none", label |-> 0, country |-> "none"]

\* ExitRegistry: the addresses in the order they were first seen.
Published(registry) == {registry[i] : i \in DOMAIN registry}
Enrolled(registry, ip) ==
  IF ip = "none" \/ ip \in Published(registry) THEN registry ELSE Append(registry, ip)
LabelOf(registry, ip) ==
  IF ip \in Published(registry) THEN CHOOSE i \in DOMAIN registry : registry[i] = ip ELSE 0

\* locate: an address is asked about once, until the service has failed to
\* answer LocateGiveUp times in a row; an answer without a country is an
\* answer, and is kept like one.
NothingLocated == [known |-> <<>>, misses |-> 0]
Latched(located) == located.misses >= LocateGiveUp
Asks(located, ip) == ip # "none" /\ ip \notin DOMAIN located.known /\ ~Latched(located)
Answered(located, ip, country) ==
  [known |-> [x \in DOMAIN located.known \cup {ip} |->
                IF x = ip THEN country ELSE located.known[x]], misses |-> 0]
Missed(located) == [located EXCEPT !.misses = @ + 1]
Kept(located, ip) ==
  IF ip \in DOMAIN located.known THEN located.known[ip] ELSE "none"

\* What may be known after one call: of an exit, with a service that may fail.
Locate(located, exit, mayFail) ==
  IF ~Asks(located, exit.ip) THEN {located}
  ELSE {Answered(located, exit.ip, exit.country)} \cup
       (IF mayFail THEN {Answered(located, exit.ip, "none"), Missed(located)} ELSE {})
====
