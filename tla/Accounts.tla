------------------------------- MODULE Accounts -------------------------------
(***************************************************************************)
(* A user's standing: the plan that is paid for (Billing), the account     *)
(* from registration to purge (Account) and the session (Session).  The    *)
(* three share the user row, so that a behaviour follows one of them: the  *)
(* only steps two of them have in common are a deletion or suspension of   *)
(* the account and its restoration, which are in Account with the rows     *)
(* they hide or bring back and in Billing with the plan they write.        *)
(***************************************************************************)
EXTENDS Billing

CONSTANTS Users, Types, Tokens, Forms, MaxOps, MaxAccountFaults,  \* of Account
          Servers, Requests, MaxRedisFaults                       \* of Session

VARIABLES followed,
          account, sequence, defaults, owned, token, night, form, ops, accountFaults,
          chosen, uses, overlapped,
          revoked, cache, request, redisFaults, loggedOut, late

Registry == INSTANCE Account WITH Calls <- Forms, MaxFaults <- MaxAccountFaults,
              call <- form, faults <- accountFaults, raced <- overlapped
Login    == INSTANCE Session WITH MaxFaults <- MaxRedisFaults, faults <- redisFaults

accountVars == <<account, sequence, defaults, owned, token, night, form, ops, accountFaults,
                 chosen, uses, overlapped>>
sessionVars == <<revoked, cache, request, redisFaults, loggedOut, late>>
standing    == <<followed, vars, accountVars, sessionVars>>

AccountsInit ==
  /\ followed \in {"billing", "account", "session"}
  /\ Init /\ Registry!Init /\ Login!Init
  /\ followed # "billing" => user.expires = "none"
  /\ account[Registry!AUser] = "live" /\ sequence \in SUBSET {Registry!AUser}
  /\ followed # "account" => account = [u \in Users |-> "live"] /\ sequence = {}

AccountsNext ==
  /\ UNCHANGED followed
  /\ \/ followed = "billing" /\ Next /\ UNCHANGED <<accountVars, sessionVars>>
     \/ followed = "account" /\ Registry!Next /\ UNCHANGED <<vars, sessionVars>>
     \/ followed = "session" /\ Login!Next /\ UNCHANGED <<vars, accountVars>>

\* The fairness of each, where it is followed.
AccountsFairness ==
  /\ WF_vars(followed = "billing" /\ CronStep /\ UNCHANGED overrides /\ raced' = (raced \/ Race))
  /\ WF_accountVars(followed = "account" /\ Registry!PurgeStep)
  /\ \A r \in Requests : WF_sessionVars(followed = "session" /\ Login!Step(r))
  /\ \A s \in Servers : WF_sessionVars(followed = "session" /\ Login!Forget(s))

AccountsSpec == AccountsInit /\ [][AccountsNext]_standing /\ AccountsFairness

------------------------------------------------------------------------------
(* Properties, besides those of Billing *)

\* What is over comes to its end, whatever fails: a trial in the free plan unless the
\* user subscribed, an account past its retention by its purge as long as no such
\* account has an email sequence, and the good word of a server on a revoked token.
OverdueEnds == TrialIsEnded /\ Registry!DueIsPurged /\ Login!VerdictEnds

\* Only what was deleted itself and is due is ever purged, with what belongs to it.
PurgeTakesTheDeleted == Registry!PurgeTakesTheDeleted

\* Requests have their effect, unless they overlapped or were cut off: the signing
\* defaults asked for are those in place, a reset token sets one password, and the
\* server that answered a logout holds the token for good no more.
RequestsTakeEffect == Registry!RequestsTakeEffect /\ Login!LogoutHolds
==============================================================================
