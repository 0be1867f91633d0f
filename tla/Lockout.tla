------------------------------ MODULE Lockout ------------------------------
(***************************************************************************)
(* Passwords tried on one account and codes of its second factor: the      *)
(* account's own count of failures and lock, kept in the database, and the *)
(* count per address, kept in memory.  A request checks the count of its   *)
(* address first and counts, if it fails, after the statements and the     *)
(* comparison between; what it writes to the account follows from what it  *)
(* had read.                                                               *)
(***************************************************************************)
EXTENDS Naturals, FiniteSets

CONSTANTS SignIns,    \* requests that can be under way at the same time
          Addresses,  \* client addresses
          LockAfter   \* failures that lock an account, or stop an address

ASSUME LockoutAssumption ==
    LockAfter \in Nat \ {0} /\ IsFiniteSet(SignIns) /\ Addresses # {}

VARIABLES failures,   \* failed_login_count, counted up to LockAfter
          locked,     \* locked_until is in the future
          mfa,        \* totp_enabled
          token,      \* a token that waits for a code is valid
          tries,      \* the failures of each address in its window
          attempt,    \* each request under way
          inRow,      \* wrong passwords since the last right one, up to LockAfter
          disturbed,  \* passwords overlapped, or a write was lost, since a right one alone
          waited,     \* a lock has run out since the last right password
          peak        \* most requests of an address at once since its count was 0

lockoutVars == <<failures, locked, mfa, token, tries, attempt, inRow, disturbed,
                 waited, peak>>

CountUp(n) == IF n < LockAfter THEN n + 1 ELSE LockAfter
NoAttempt == [at |-> "none", of |-> "account", right |-> FALSE, seen |-> 0,
              from |-> CHOOSE a \in Addresses : TRUE]
Trying == {s \in SignIns : attempt[s].at # "none" /\ attempt[s].of = "account"}
Move(s, at) == attempt' = [attempt EXCEPT ![s].at = at]
Finish(s) == attempt' = [attempt EXCEPT ![s] = NoAttempt]

(* The requests of an address that were admitted and have not counted yet. *)
Uncounted(a) ==
    {s \in SignIns : attempt[s].at \in {"reading", "comparing"} /\ attempt[s].from = a}

(* recordFailedAttempt, clearRateLimit.                                    *)
Counts(s, right) ==
    tries' = [tries EXCEPT ![attempt[s].from] = IF right THEN 0 ELSE @ + 1]

LockoutInit ==
    /\ failures = 0 /\ locked = FALSE /\ mfa \in BOOLEAN /\ token = FALSE
    /\ tries = [a \in Addresses |-> 0] /\ peak = [a \in Addresses |-> 0]
    /\ attempt = [s \in SignIns |-> NoAttempt]
    /\ inRow = 0 /\ disturbed = FALSE /\ waited = FALSE

\* Mutated: one more try than the limit.
AdmitsOneMore(a) == tries[a] <= LockAfter
(* checkRateLimit.                                                         *)
Admits(a) == tries[a] < LockAfter

(* A request is admitted: a password for the account, one for an account   *)
(* there is not, or a code, which takes a token.  The count of its address *)
(* is not touched yet.                                                     *)
Attempt(s, a, of, right) ==
    /\ attempt[s].at = "none" /\ Admits(a)
    /\ of = "code" => token
    /\ of = "nobody" => ~right
    /\ attempt' = [attempt EXCEPT ![s] = [NoAttempt EXCEPT
                       !.at = "reading", !.of = of, !.from = a, !.right = right]]
    /\ disturbed' = (disturbed \/ (of = "account" /\ Trying # {}))
    /\ UNCHANGED <<failures, locked, mfa, token, tries, inRow, waited>>

(* The SELECT finds no such account: the address is counted.               *)
FindNobody(s) ==
    /\ attempt[s].at = "reading" /\ attempt[s].of = "nobody"
    /\ Counts(s, FALSE) /\ Finish(s)
    /\ UNCHANGED <<failures, locked, mfa, token, inRow, disturbed, waited>>

(* A locked account is refused without a comparison.                       *)
ReadAccount(s) ==
    /\ attempt[s].at = "reading" /\ attempt[s].of = "account"
    /\ IF locked THEN Finish(s)
       ELSE attempt' = [attempt EXCEPT ![s].at = "comparing", ![s].seen = failures]
    /\ UNCHANGED <<failures, locked, mfa, token, tries, inRow, disturbed, waited>>

Compare(s) ==
    /\ attempt[s].at = "comparing" /\ Move(s, "writing")
    /\ Counts(s, attempt[s].right)
    /\ inRow' = IF attempt[s].right THEN 0 ELSE CountUp(inRow)
    /\ waited' = (waited /\ ~attempt[s].right)
    /\ UNCHANGED <<failures, locked, mfa, token, disturbed>>

\* Mutated: the lock comes one failure late.
LocksLate(n) == n > LockAfter
Locks(n) == n >= LockAfter

(* The write after a wrong password: the count that was read and one, and  *)
(* a lock or none.                                                         *)
WriteFailure(s) ==
    /\ attempt[s].at = "writing" /\ ~attempt[s].right
    /\ failures' = CountUp(attempt[s].seen)
    /\ locked' = Locks(attempt[s].seen + 1)
    /\ Finish(s)
    /\ UNCHANGED <<mfa, token, tries, inRow, disturbed, waited>>

(* The write after a right one; an account with a second factor is given a *)
(* token to send the code with.                                            *)
WriteSuccess(s) ==
    /\ attempt[s].at = "writing" /\ attempt[s].right
    /\ failures' = 0 /\ locked' = FALSE
    /\ token' = (token \/ mfa)
    /\ disturbed' = (disturbed /\ ~(Trying = {s} /\ inRow = 0))
    /\ Finish(s)
    /\ UNCHANGED <<mfa, tries, inRow, waited>>

(* The SELECT of the user and the check of the code: codes count for the   *)
(* address alone, and the token may be used again.                         *)
CheckCode(s) ==
    /\ attempt[s].at = "reading" /\ attempt[s].of = "code"
    /\ Counts(s, attempt[s].right) /\ Finish(s)
    /\ UNCHANGED <<failures, locked, mfa, token, inRow, disturbed, waited>>

(* A statement or the comparison throws, or the token is refused: the      *)
(* request ends there, and what it was about to write is lost.             *)
RequestThrows(s) ==
    /\ attempt[s].at # "none" /\ Finish(s)
    /\ disturbed' = (disturbed \/ attempt[s].at = "writing")
    /\ UNCHANGED <<failures, locked, mfa, token, tries, inRow, waited>>

TokenRunsOut ==
    /\ token /\ token' = FALSE
    /\ UNCHANGED <<failures, locked, mfa, tries, attempt, inRow, disturbed, waited>>

LockRunsOut ==
    /\ locked /\ locked' = FALSE /\ waited' = TRUE
    /\ UNCHANGED <<failures, mfa, token, tries, attempt, inRow, disturbed>>

(* A window ends, or the process restarts.                                 *)
WindowEnds(a) ==
    /\ tries[a] # 0 /\ tries' = [tries EXCEPT ![a] = 0]
    /\ UNCHANGED <<failures, locked, mfa, token, attempt, inRow, disturbed, waited>>

(* The history of the overlap starts again with each count.                *)
PeaksFollow ==
    peak' = [a \in Addresses |->
        LET n == Cardinality(Uncounted(a)') IN
        IF tries'[a] = 0 \/ peak[a] < n THEN n ELSE peak[a]]

SignInStep(s) ==
    \/ FindNobody(s) \/ ReadAccount(s) \/ Compare(s) \/ WriteFailure(s)
    \/ WriteSuccess(s) \/ CheckCode(s) \/ RequestThrows(s)
    \/ \E a \in Addresses, of \in {"account", "nobody", "code"}, right \in BOOLEAN :
          Attempt(s, a, of, right)

LockoutNext ==
    /\ \/ LockRunsOut \/ TokenRunsOut
       \/ \E a \in Addresses : WindowEnds(a)
       \/ \E s \in SignIns : SignInStep(s)
    /\ PeaksFollow

LockoutSpec == LockoutInit /\ [][LockoutNext]_lockoutVars
-----------------------------------------------------------------------------
\* Types of the columns and of the requests under way (schema.sql:21-45, plugin.ts:145-190).
LockoutTypeOK ==
    /\ failures \in 0..LockAfter /\ inRow \in 0..LockAfter
    /\ {locked, mfa, token, disturbed, waited} \subseteq BOOLEAN
    /\ \A a \in Addresses : {tries[a], peak[a]} \subseteq Nat
    /\ \A s \in SignIns :
        /\ attempt[s].at \in {"none", "reading", "comparing", "writing"}
        /\ attempt[s].of \in {"account", "nobody", "code"}
        /\ attempt[s].from \in Addresses /\ attempt[s].seen \in 0..LockAfter

\* As long as passwords do not overlap and no write is lost, the account counts the wrong
\* ones since the last right one and is locked from the limit on, until the lock runs out.
\* An address fails at most as often as its limit if it makes one request at a time, and
\* exceeds it by no more than the requests it had under way at once beyond the first, as
\* each is admitted before the others have counted (plugin.ts:145-185, totp.ts:74-139,
\* rate-limiter.ts:30-74).
GuessesAreLimited ==
    /\ (Trying = {} /\ ~disturbed) =>
        /\ failures = inRow
        /\ inRow = LockAfter => locked \/ waited
    /\ \A a \in Addresses : tries[a] < LockAfter + peak[a]
=============================================================================
