----------------------------- MODULE RequestBook -----------------------------
(***************************************************************************)
(* What src/shared/dataServer/client.ts promises whoever calls request():  *)
(* ids are handed out one after another, a request leaves the books once   *)
(* and never comes back, a call refused for want of a wire takes every     *)
(* open request with it, and no request stays open for ever.  ClientHost   *)
(* implements it.                                                          *)
(***************************************************************************)
EXTENDS Naturals

CONSTANT Ids   \* the ids whose settlement is claimed

VARIABLES
  used,   \* the last id this client handed out
  open    \* the ids that nobody has answered or refused yet

bookVars == <<used, open>>

Init == used = 0 /\ open = {}

Ask == used' = used + 1 /\ open' = open \cup {used'}

\* The send found the wire dead: this request fails, and all the others.
AskInVain == used' = used + 1 /\ open' = {}

\* One answer, one deadline, or everything at once when the connection fails.
Settle == used' = used /\ open' \subseteq open

\* A new launch has a new client; the old one's requests were all refused.
Replace == used' = 0 /\ open' = {}

Next == Ask \/ AskInVain \/ Settle \/ Replace

EverySettles == \A id \in Ids : id \in open ~> id \notin open

Spec == Init /\ [][Next]_bookVars /\ EverySettles

=============================================================================
