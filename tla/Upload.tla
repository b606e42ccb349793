-------------------------------- MODULE Upload --------------------------------
(***************************************************************************)
(* What the gateway promises of an upload, with neither pump nor pipe nor  *)
(* clock: the agent is only contacted for a first file of an allowed type, *)
(* gets nothing forbidden and nothing beyond the cap, and the client gets  *)
(* one answer, which has its cause: a success means the agent has it all.  *)
(***************************************************************************)
EXTENDS Naturals, Sequences

CONSTANTS Requests,  \* the requests, as in FilesUpload
          MaxBytes   \* the cap, in items; 0 for none

VARIABLES request,    \* the upload
          contacted,  \* the request to the agent has been made
          got,        \* the items the agent has
          answer      \* the client's answer, "none" until there is one

vars == <<request, contacted, got, answer>>

parts == request.parts

TooLarge == MaxBytes > 0 /\ Len(parts) > MaxBytes

Forbidden == \E i \in 1..Len(parts) : parts[i] = "bad"

\* The first n items may be sent to the agent.
Allowed(n) ==
    /\ n <= Len(parts) /\ (MaxBytes > 0 => n <= MaxBytes)
    /\ \A i \in 1..n : parts[i] # "bad"

Init ==
    /\ request \in Requests
    /\ contacted = FALSE /\ got = 0 /\ answer = "none"

Contact ==
    /\ ~contacted /\ answer = "none"
    /\ \E n \in 1..Len(parts) : Allowed(n) /\ parts[n] = "file"
    /\ contacted' = TRUE
    /\ UNCHANGED <<request, got, answer>>

\* The agent gets one more item, perhaps when the client has its answer already.
Deliver ==
    /\ contacted /\ Allowed(got + 1)
    /\ got' = got + 1
    /\ UNCHANGED <<request, contacted, answer>>

\* What a client may be told, and when.
Justified(status) ==
    CASE status = "400" -> ~contacted
      [] status = "413" -> TooLarge
      [] status = "415" -> request.form = "other" \/ Forbidden
      [] status \in {"502", "504", "refused"} -> contacted
      [] status = "accepted" -> contacted /\ got = Len(parts)

Respond(status) ==
    /\ answer = "none" /\ Justified(status)
    /\ answer' = status
    /\ UNCHANGED <<request, contacted, got>>

Next ==
    \/ Contact
    \/ Deliver
    \/ \E status \in {"400", "413", "415", "502", "504", "refused", "accepted"} : Respond(status)

Spec == Init /\ [][Next]_vars
===============================================================================
