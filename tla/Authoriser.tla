----------------------------- MODULE Authoriser -----------------------------
(***************************************************************************)
(* What llmd and the policy engine promise together, with no mention of    *)
(* attempts, files, reloads or breakers: a request is granted only under a *)
(* policy that was in force while it was being asked.                      *)
(*                                                                         *)
(* Asking may start over (an attempt is given up and another is sent);     *)
(* what was in force before that does not count any more.  A request may   *)
(* always be denied: the service fails closed.  PolicyPipeline implements  *)
(* this specification.                                                     *)
(***************************************************************************)
CONSTANTS Requests, None

VARIABLES policy,   \* the requests that the policy in force allows
          asked,    \* the request being asked, None between requests
          seen,     \* the policies in force since it was asked (again)
          verdict   \* "allow" or "deny" of the last request, None before it is there

vars == <<policy, asked, seen, verdict>>

Init == /\ policy = {}
        /\ asked = None
        /\ seen = {}
        /\ verdict = None

\* Another policy comes into force.
Change == /\ policy' \in SUBSET Requests
          /\ seen' = IF asked = None THEN seen ELSE seen \cup {policy'}
          /\ UNCHANGED <<asked, verdict>>

Ask == /\ asked = None /\ verdict = None
       /\ asked' \in Requests
       /\ seen' = {policy}
       /\ UNCHANGED <<policy, verdict>>

AskAgain == /\ asked # None
            /\ seen' = {policy}
            /\ UNCHANGED <<policy, asked, verdict>>

Grant == /\ asked # None
         /\ \E p \in seen : asked \in p
         /\ verdict' = "allow"
         /\ asked' = None /\ seen' = {}
         /\ UNCHANGED policy

\* Also without asking: a breaker that is open, a malformed request.
Deny == /\ verdict = None
        /\ verdict' = "deny"
        /\ asked' = None /\ seen' = {}
        /\ UNCHANGED policy

\* The caller has acted on the verdict.
Finish == /\ verdict # None
          /\ verdict' = None
          /\ UNCHANGED <<policy, asked, seen>>

Next == Change \/ Ask \/ AskAgain \/ Grant \/ Deny \/ Finish

Spec == Init /\ [][Next]_vars
=============================================================================
