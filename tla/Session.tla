------------------------------- MODULE Session --------------------------------
(***************************************************************************)
(* One session token after login: AuthGuard, AuthService                   *)
(* .isTokenBlacklisted with the verdicts each server process remembers for *)
(* a minute, and revokeToken, the whole of a logout.                       *)
(*                                                                         *)
(* The black list is a key in Redis that lives as long as the token.       *)
(***************************************************************************)
EXTENDS Naturals

CONSTANTS Servers,   \* processes of the API
          Requests,  \* requests with the token under way at once
          MaxFaults  \* failed calls of Redis

VARIABLES
  revoked,    \* the key in Redis
  cache,      \* per server: the verdict it remembers
  request,    \* per request: next step, server, kind, the verdict it has
  faults,
  loggedOut,  \* history: servers that answered a logout
  late        \* history: those of them that had a lookup under way then

vars == <<revoked, cache, request, faults, loggedOut, late>>

AServer == CHOOSE s \in Servers : TRUE
Idle == [pc |-> "idle", server |-> AServer, kind |-> "page", seen |-> FALSE]

Init ==
  /\ revoked = FALSE
  /\ cache = [s \in Servers |-> "absent"]
  /\ request = [r \in Requests |-> Idle]
  /\ faults = 0
  /\ loggedOut = {} /\ late = {}

Fault == faults < MaxFaults /\ faults' = faults + 1

Goto(r, pc) == request' = [request EXCEPT ![r].pc = pc]
Return(r)   == request' = [request EXCEPT ![r] = Idle]

\* A refused request ends here, an admitted logout goes on.
Decide(r, blacklisted) ==
  IF ~blacklisted /\ request[r].kind = "logout" THEN Goto(r, "revoke") ELSE Return(r)

Arrive(r) ==
  /\ request[r].pc = "idle"
  /\ \E s \in Servers, k \in {"page", "logout"} :
       request' = [request EXCEPT ![r] = [pc |-> "guard", server |-> s, kind |-> k,
                                          seen |-> FALSE]]
  /\ UNCHANGED <<revoked, cache, faults, loggedOut, late>>

Guard(r) ==
  /\ request[r].pc = "guard"
  /\ LET c == cache[request[r].server] IN
       IF c = "absent" THEN Goto(r, "lookUp") ELSE Decide(r, c = "revoked")
  /\ UNCHANGED <<revoked, cache, faults, loggedOut, late>>

\* "Fail open on Redis errors".
LookUp(r) ==
  /\ request[r].pc = "lookUp"
  /\ \/ /\ request' = [request EXCEPT ![r].pc = "remember", ![r].seen = revoked]
        /\ UNCHANGED faults
     \/ Fault /\ Decide(r, FALSE)
  /\ UNCHANGED <<revoked, cache, loggedOut, late>>

Remember(r) ==
  /\ request[r].pc = "remember"
  /\ cache' = [cache EXCEPT ![request[r].server] = IF request[r].seen THEN "revoked" ELSE "ok"]
  /\ Decide(r, request[r].seen)
  /\ UNCHANGED <<revoked, faults, loggedOut, late>>

\* The timers of a server forget a verdict; one set for an older verdict may forget
\* a newer one.
Forget(s) ==
  /\ cache[s] # "absent"
  /\ cache' = [cache EXCEPT ![s] = "absent"]
  /\ UNCHANGED <<revoked, request, faults, loggedOut, late>>

Revoke(r) ==
  /\ request[r].pc = "revoke"
  /\ \/ revoked' = TRUE /\ Goto(r, "answer") /\ UNCHANGED faults
     \/ Fault /\ Return(r) /\ UNCHANGED revoked
  /\ UNCHANGED <<cache, loggedOut, late>>

\* A lookup of this server that has read the key before it was set.
LookupBehind(s) ==
  \E r \in Requests : /\ request[r].pc = "remember" /\ request[r].server = s
                      /\ ~request[r].seen

\* Mutant of Answered: the verdict of the server is left to its timer.
AnsweredOnly(s) == UNCHANGED cache

Answered(s) == cache' = [cache EXCEPT ![s] = "absent"]

Answer(r) ==
  /\ request[r].pc = "answer"
  /\ LET s == request[r].server IN
       /\ Answered(s)
       /\ loggedOut' = loggedOut \cup {s}
       /\ late' = IF LookupBehind(s) THEN late \cup {s} ELSE late
  /\ Return(r)
  /\ UNCHANGED <<revoked, faults>>

------------------------------------------------------------------------------
Step(r) == Guard(r) \/ LookUp(r) \/ Remember(r) \/ Revoke(r) \/ Answer(r)

Next ==
  \/ \E r \in Requests : Arrive(r) \/ Step(r)
  \/ \E s \in Servers : Forget(s)

\* Every request is served, and a verdict is remembered for a minute.
Fairness ==
  /\ \A r \in Requests : WF_vars(Step(r))
  /\ \A s \in Servers : WF_vars(Forget(s))

Spec == Init /\ [][Next]_vars /\ Fairness

------------------------------------------------------------------------------
(* Properties *)

\* "Logout and revoke current token": a server that answered a logout holds the token
\* for good no more, unless one of its lookups was under way then.
LogoutHolds == \A s \in loggedOut \ late : cache[s] # "ok"

\* Once a token is revoked every server forgets sooner or later that it was good, for
\* ever.
VerdictEnds == revoked ~> [](\A s \in Servers : cache[s] # "ok")
==============================================================================
