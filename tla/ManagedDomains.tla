--------------------------- MODULE ManagedDomains ---------------------------
(* What a keystore promises about the list of managed domains.             *)
(*                                                                         *)
(* The Keystore interface (pkg/keystore/keystore.go) lets any number of    *)
(* goroutines add and remove managed domains.  Seen by its callers the     *)
(* list is one atomic set: an accepted add puts exactly its own domain in, *)
(* an accepted removal takes exactly its own domain out, a refused call    *)
(* changes nothing, and nothing else changes the set.  A call takes effect *)
(* once, at some moment between its invocation and its answer.             *)

CONSTANTS
  Domains,   \* the domain names
  Callers,   \* the goroutines that call the keystore
  MayFail,   \* TRUE if input/output errors may refuse a call
  Durable    \* TRUE if the list outlives the process

VARIABLES
  members,   \* the managed domains
  op         \* op[p]: the call that p has under way

vars == <<members, op>>

Kinds == {"add", "remove"}

Idle == [state |-> "idle"]
Called(k, d) == [state |-> "called", kind |-> k, domain |-> d]

Init ==
  /\ members = {}
  /\ op = [p \in Callers |-> Idle]

Call(p, k, d) ==
  /\ op[p] = Idle
  /\ op' = [op EXCEPT ![p] = Called(k, d)]
  /\ UNCHANGED members

Accept(p) == op' = [op EXCEPT ![p] = [@ EXCEPT !.state = "accepted"]]
Refuse(p) == op' = [op EXCEPT ![p] = [@ EXCEPT !.state = "refused"]]

Add(p, d) ==
  /\ op[p] = Called("add", d)
  /\ d \notin members
  /\ members' = members \cup {d}
  /\ Accept(p)

Remove(p, d) ==
  /\ op[p] = Called("remove", d)
  /\ d \in members
  /\ members' = members \ {d}
  /\ Accept(p)

(* The domain is managed already, or is not managed, or the store failed. *)
Reject(p, k, d) ==
  /\ op[p] = Called(k, d)
  /\ MayFail \/ (k = "add" <=> d \in members)
  /\ Refuse(p)
  /\ UNCHANGED members

Answer(p) ==
  /\ op[p].state \in {"accepted", "refused"}
  /\ op' = [op EXCEPT ![p] = Idle]
  /\ UNCHANGED members

(* The process dies: calls under way are never answered. *)
Crash ==
  /\ op' = [p \in Callers |-> Idle]
  /\ members' = IF Durable THEN members ELSE {}

Next ==
  \/ Crash
  \/ \E p \in Callers :
       \/ Answer(p)
       \/ \E d \in Domains :
            \/ Add(p, d)
            \/ Remove(p, d)
            \/ \E k \in Kinds : Call(p, k, d) \/ Reject(p, k, d)

Spec == Init /\ [][Next]_vars
=============================================================================
