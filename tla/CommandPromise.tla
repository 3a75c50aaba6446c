--------------------------- MODULE CommandPromise ---------------------------
(***************************************************************************)
(* What PaperRepository.submit_command promises a client, with the runner  *)
(* and its claims left out: a key stands for one request for ever, every   *)
(* answer under a key is about that request, and a request that was served *)
(* or refused is not owed again.                                           *)
(***************************************************************************)
CONSTANTS Keys, Hashes, NoHash

VARIABLES outcome,     \* [Keys -> {"none", "owed", "done", "refused"}]
          request,     \* the payload hash each key stands for
          answered     \* the <<key, hash>> answered with a command

vars == << outcome, request, answered >>

Init == /\ outcome = [k \in Keys |-> "none"]
        /\ request = [k \in Keys |-> NoHash]
        /\ answered = {}

(* A new key: the request is owed and the caller gets its command.         *)
Accept(k, h) ==
  /\ outcome[k] = "none"
  /\ outcome' = [outcome EXCEPT ![k] = "owed"]
  /\ request' = [request EXCEPT ![k] = h]
  /\ answered' = answered \cup {<<k, h>>}

(* The same request again: the same command is the answer.                 *)
Replay(k) ==
  /\ outcome[k] # "none"
  /\ answered' = answered \cup {<<k, request[k]>>}
  /\ UNCHANGED << outcome, request >>

(* A runner ends the request.  A handler that records its own outcome does *)
(* so even over a refusal stamped while it was working.                    *)
Serve(k) ==
  /\ outcome[k] \in {"owed", "refused"}
  /\ outcome' = [outcome EXCEPT ![k] = "done"]
  /\ UNCHANGED << request, answered >>

(* A second request under the key: the key's own command is marked.        *)
Refuse(k) ==
  /\ outcome[k] # "none"
  /\ outcome' = [outcome EXCEPT ![k] = "refused"]
  /\ UNCHANGED << request, answered >>

Next == \E k \in Keys :
          \/ \E h \in Hashes : Accept(k, h)
          \/ Replay(k)
          \/ Serve(k)
          \/ Refuse(k)

Spec == Init /\ [][Next]_vars
=============================================================================
