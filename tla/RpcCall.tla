------------------------------- MODULE RpcCall -------------------------------
(***************************************************************************)
(* What a mailbox promises to the mail station that sends requests through *)
(* it: a request gets one verdict (a response, a timeout, or a refusal at  *)
(* the time of sending) and gets it eventually.  Before the verdict it may *)
(* in addition be told that the connection is gone.                        *)
(***************************************************************************)
CONSTANT Reqs

VARIABLES phase,    \* [Reqs -> {"idle", "waiting", "answered", "failed"}]
          notified  \* requests told about a lost connection

callVars == <<phase, notified>>

Init == /\ phase = [r \in Reqs |-> "idle"]
        /\ notified = {}

Waiting == {r \in Reqs : phase[r] = "waiting"}

Issue(r) == /\ phase[r] = "idle"
            /\ phase' = [phase EXCEPT ![r] = "waiting"]
            /\ UNCHANGED notified

Refuse(r) == /\ phase[r] = "idle"
             /\ phase' = [phase EXCEPT ![r] = "failed"]
             /\ UNCHANGED notified

\* One message from the peer may carry the responses to several requests.
Answer(S) == /\ S \subseteq Waiting
             /\ phase' = [r \in Reqs |-> IF r \in S THEN "answered" ELSE phase[r]]
             /\ UNCHANGED notified

Expire(r) == /\ phase[r] = "waiting"
             /\ phase' = [phase EXCEPT ![r] = "failed"]
             /\ UNCHANGED notified

Disconnect == /\ notified' = notified \cup Waiting
              /\ UNCHANGED phase

Next == \/ \E r \in Reqs : Issue(r) \/ Refuse(r) \/ Expire(r)
        \/ \E S \in SUBSET Waiting : Answer(S)
        \/ Disconnect

Spec == Init /\ [][Next]_callVars

FairSpec == Spec /\ \A r \in Reqs : WF_callVars(Expire(r))

=============================================================================
