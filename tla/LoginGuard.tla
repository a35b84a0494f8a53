----------------------------- MODULE LoginGuard -----------------------------
(***************************************************************************)
(* The login handler (api/routes/auth.py) and its brute-force guard        *)
(* (services/login_guard.py), for the attempts that come from one address: *)
(* addresses share nothing.  The handler tests the guard, then waits for   *)
(* the database and again for the audit trail before the failure counts,   *)
(* so attempts in progress together do not see each other.                 *)
(***************************************************************************)
EXTENDS Integers, Sequences, SequencesExt, FiniteSets

CONSTANTS
  Attempts,      \* the logins that may be in progress at the same time
  MAX_FAILURES,  \* LOGIN_MAX_FAILURES
  LOGIN_WINDOW   \* LOGIN_WINDOW_SECONDS

ASSUME GuardAssumption ==
  MAX_FAILURES \in Nat \ {0} /\ LOGIN_WINDOW \in Nat \ {0} /\ IsFiniteSet(Attempts)

VARIABLES
  failures,   \* _failures: the ages of the failures that count, oldest first
  alertAge,   \* _alerted_at: the age of the last alert, or Never
  attempt     \* where each handler is

guardVars == <<failures, alertAge, attempt>>

Never == -1

(* _prune: what is stale leaves at the left, up to the first that is not.  *)
Fault_NeverStale(age) == TRUE

Fresh(age) == age <= LOGIN_WINDOW

FirstFresh ==
  CHOOSE n \in 1 .. Len(failures) + 1 :
    /\ n <= Len(failures) => Fresh(failures[n])
    /\ \A i \in 1 .. n - 1 : ~Fresh(failures[i])

Pruned == SubSeq(failures, FirstFresh, Len(failures))

Blocked == Len(Pruned) >= MAX_FAILURES

(* The first test of login: 429, or on to the database.                    *)
Fault_OneMore(a) ==
  /\ attempt[a] = "idle"
  /\ Len(Pruned) <= MAX_FAILURES
  /\ failures' = Pruned
  /\ attempt' = [attempt EXCEPT ![a] = "checked"]
  /\ UNCHANGED alertAge

Admit(a) ==
  /\ attempt[a] = "idle"
  /\ ~Blocked
  /\ failures' = Pruned
  /\ attempt' = [attempt EXCEPT ![a] = "checked"]
  /\ UNCHANGED alertAge

Refuse(a) ==
  /\ attempt[a] = "idle"
  /\ Blocked
  /\ failures' = Pruned
  /\ UNCHANGED <<alertAge, attempt>>

(* The account is active and the password is right: register_success.      *)
Succeed(a) ==
  /\ attempt[a] = "checked"
  /\ failures' = <<>>
  /\ alertAge' = Never
  /\ attempt' = [attempt EXCEPT ![a] = "idle"]

(* It is not: register_failure begins with the audit record.               *)
Fail(a) ==
  /\ attempt[a] = "checked"
  /\ attempt' = [attempt EXCEPT ![a] = "audited"]
  /\ UNCHANGED <<failures, alertAge>>

(* Then the failure counts, and at the threshold the alert goes out unless *)
(* one did within the window.                                              *)
Count(a) ==
  /\ attempt[a] = "audited"
  /\ failures' = Append(Pruned, 0)
  /\ alertAge' = IF Len(failures') >= MAX_FAILURES
                    /\ (alertAge = Never \/ alertAge >= LOGIN_WINDOW)
                 THEN 0 ELSE alertAge
  /\ attempt' = [attempt EXCEPT ![a] = "idle"]

(* A second passes.  Ages beyond the window are all alike.                 *)
Older(age) == IF age > LOGIN_WINDOW THEN age ELSE age + 1

GuardTick ==
  /\ failures # <<>> \/ alertAge \in 0 .. LOGIN_WINDOW
  /\ failures' = [i \in DOMAIN failures |-> Older(failures[i])]
  /\ alertAge' = IF alertAge = Never THEN Never ELSE Older(alertAge)
  /\ UNCHANGED attempt

=============================================================================
