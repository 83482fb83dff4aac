-------------------------- MODULE EngineConnection --------------------------
(***************************************************************************)
(* The request half of the data-server client                              *)
(* (src/shared/dataServer/client.ts) over its NDJSON transport (ndjson.ts, *)
(* socketChannel.ts).  Pure operators over a connection record; EngineClient *)
(* holds the other half, epochs and windows.                               *)
(*                                                                         *)
(* A transport is "none" until attach, then "open", then "ended": an ended *)
(* one delivers nothing, and a peer that closed cleanly ends it without    *)
(* telling the client, which stays "ready" until it next sends.            *)
(***************************************************************************)
EXTENDS Naturals, Sequences

CONSTANT None   \* no log

\* What a request came to: the answer, or no answer.
Unanswered == [is |-> "none", status |-> "none", log |-> None]
Refused == [is |-> "refused", status |-> "none", log |-> None]
Answer(status, log) == [is |-> "answer", status |-> status, log |-> log]

\* A message to the engine: its op, and the log or the defines it names.
Message(op, log, define) == [id |-> 0, op |-> op, log |-> log, define |-> define]
Hello == Message("hello", None, 0)

\* up and down are what is written and not yet read, in each direction.
NewConnection ==
  [state |-> "connecting", transport |-> "none", next |-> 1, pending |-> {},
   outbox |-> <<>>, up |-> <<>>, down |-> <<>>]

Usable(c) == c.state \in {"connecting", "ready"}

\* close() on a transport: what is on the way to us is never read; what was
\* written may still reach the engine.
EndTransport(c) ==
  [c EXCEPT !.transport = IF @ = "none" THEN @ ELSE "ended", !.down = <<>>]

RejectAllPending(c) == [c EXCEPT !.pending = {}, !.outbox = <<>>]

FailConnection(c) ==
  IF Usable(c) THEN [RejectAllPending(EndTransport(c)) EXCEPT !.state = "failed"] ELSE c

SendNow(c, m) ==
  IF c.transport = "open" THEN [c EXCEPT !.up = Append(@, m)] ELSE FailConnection(c)

Send(c, m) ==
  CASE c.state = "ready" -> SendNow(c, m)
    [] c.state = "connecting" -> [c EXCEPT !.outbox = Append(@, m)]
    [] OTHER -> c

\* Mutant: an id is handed out twice.
RequestReusesId(c, m) ==
  Send([c EXCEPT !.pending = @ \cup {c.next}], [m EXCEPT !.id = c.next])

\* request() on a usable connection: registered under a fresh id, then sent.
Request(c, m) ==
  Send([c EXCEPT !.next = @ + 1, !.pending = @ \cup {c.next}], [m EXCEPT !.id = c.next])

\* attach(): a transport replaced takes the requests in flight with it.
AttachTransport(c) ==
  LET kept == IF c.transport = "none" THEN c ELSE RejectAllPending(EndTransport(c))
  IN  SendNow([kept EXCEPT !.transport = "open", !.state = "connecting",
                           !.up = <<>>, !.down = <<>>], Hello)

\* takePending: a settlement finds the request on the books or does nothing.
TakePending(c, id) == [c EXCEPT !.pending = @ \ {id}]

\* Mutant: the requests made before the handshake are forgotten.
OnHelloReplyForgets(c, ok) ==
  IF c.state # "connecting" THEN c
  ELSE IF ok THEN [c EXCEPT !.state = "ready", !.outbox = <<>>]
  ELSE FailConnection(c)

\* onHelloReply: what waited behind the handshake goes out, in order.
OnHelloReply(c, ok) ==
  IF c.state # "connecting" THEN c
  ELSE IF ok THEN [c EXCEPT !.state = "ready", !.outbox = <<>>, !.up = @ \o c.outbox]
  ELSE FailConnection(c)

Close(c) ==
  IF c.state = "closed" THEN c
  ELSE [RejectAllPending(EndTransport(c)) EXCEPT !.state = "closed"]

=============================================================================
