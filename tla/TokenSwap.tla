------------------------------ MODULE TokenSwap ------------------------------
(***************************************************************************)
(* What the gateway's token exchange promises to its callers, with neither *)
(* cache nor clock: every call ends with one answer, and the answer is a   *)
(* token of the call's own subject that either the authorization server    *)
(* minted for this very call, or still has more than Slack ticks to live.  *)
(***************************************************************************)
EXTENDS Naturals

CONSTANTS Request,   \* the concurrent calls of Exchange
          Subject,   \* the inbound subject tokens
          Slack,     \* what a token that is not new has left, at least, beyond 0
          None       \* the absent value

VARIABLES call,      \* call[r]: "idle", "pending", "minted", "done" or "failed"
          subject,   \* subject[r]: the subject token r's call is about
          result     \* result[r]: the token the last answer of r gave it

vars == <<call, subject, result>>

Token == [owner : Subject, left : Nat]

TypeOK ==
    /\ call \in [Request -> {"idle", "pending", "minted", "done", "failed"}]
    /\ subject \in [Request -> Subject \cup {None}]
    /\ result \in [Request -> Token \cup {None}]

Init ==
    /\ call = [r \in Request |-> "idle"]
    /\ subject = [r \in Request |-> None]
    /\ result = [r \in Request |-> None]

Invoke(r, s) ==
    /\ call[r] \in {"idle", "done", "failed"}
    /\ call' = [call EXCEPT ![r] = "pending"]
    /\ subject' = [subject EXCEPT ![r] = s]
    /\ result' = [result EXCEPT ![r] = None]

\* The authorization server mints a token for the call.
Mint(r) ==
    /\ call[r] = "pending"
    /\ call' = [call EXCEPT ![r] = "minted"]
    /\ UNCHANGED <<subject, result>>

Answer(r) ==
    /\ call[r] \in {"pending", "minted"}
    /\ call' = [call EXCEPT ![r] = "done"]
    /\ result'[r] \in [owner : {subject[r]}, left : Nat]
    /\ call[r] = "pending" => result'[r].left > Slack
    /\ result' = [result EXCEPT ![r] = result'[r]]
    /\ UNCHANGED subject

Fail(r) ==
    /\ call[r] \in {"pending", "minted"}
    /\ call' = [call EXCEPT ![r] = "failed"]
    /\ UNCHANGED <<subject, result>>

Next ==
    \E r \in Request :
        \/ \E s \in Subject : Invoke(r, s)
        \/ Mint(r)
        \/ Answer(r)
        \/ Fail(r)

Spec == Init /\ [][Next]_vars

==============================================================================
