------------------------------ MODULE EngineClient ------------------------------
(***************************************************************************)
(* The client half of a subscription (src/shared/dataServer/client.ts and  *)
(* viewWindow.ts): what one frame from the engine does to the epoch and    *)
(* the window a renderer draws.  Pure operators over a client record; the  *)
(* module World composes them with the engine that sends the frames.       *)
(*                                                                         *)
(* Rows are abstracted to the fold state they were cut from: the window    *)
(* of generation g at revision r.  A diff names the two windows it was     *)
(* computed between, and one that meets any other window leaves rows       *)
(* nobody computed ("parted"); module ViewDiff shows that the ops          *)
(* themselves are exact between equal windows.                             *)
(***************************************************************************)
EXTENDS Naturals

Window(is, g, r) == [is |-> is, gen |-> g, rev |-> r]

\* ViewState.rows = null: nothing is held until a reset arrives.
LOADING == Window("loading", 0, 0)

\* The window the opening reset carries, and of a fold that has folded nothing.
Empty == Window("rows", 0, 0)

Parted == Window("parted", 0, 0)

\* Sub.held = None on the engine side: a reset is owed.
Owed == Window("owed", 0, 0)

Rows(g, r) == IF r = 0 THEN Empty ELSE Window("rows", g, r)

Frame(kind, id, epoch, from, to) ==
  [kind |-> kind, id |-> id, epoch |-> epoch, from |-> from, to |-> to]

EpochMessage(epoch) == Frame("epoch", 0, epoch, Empty, Empty)
ResetMessage(id, epoch, rows) == Frame("reset", id, epoch, Empty, rows)
DiffMessage(id, epoch, from, to) == Frame("diff", id, epoch, from, to)

\* A reply computed by the fold of the generation whose epoch this is.
Answer(epoch) == Frame("answer", 0, epoch, Empty, Empty)

\* A client record: epoch (0 is null), the one view it has mounted, the id of
\* the request that opened it on this connection (0: not on the wire).
NewClient == [epoch |-> 0, open |-> FALSE, id |-> 0, view |-> LOADING]

\* noteEpoch answers false exactly here: a frame of an epoch already left.
Stale(cl, epoch) == cl.epoch # 0 /\ epoch < cl.epoch

\* Mutant: a newer epoch is adopted and the old rows stay.
NoteEpochKeepsRows(cl, epoch) ==
  [cl EXCEPT !.epoch = IF Stale(cl, epoch) THEN @ ELSE epoch]

\* noteEpoch: the first epoch is adopted, a newer one drops every window.
NoteEpoch(cl, epoch) ==
  [cl EXCEPT !.epoch = IF Stale(cl, epoch) THEN @ ELSE epoch,
             !.view = IF cl.epoch # 0 /\ epoch > cl.epoch THEN LOADING ELSE @]

OnReset(cl, m) ==
  LET noted == NoteEpoch(cl, m.epoch)
  IN  IF ~Stale(cl, m.epoch) /\ m.id = cl.id
      THEN [noted EXCEPT !.view = m.to]
      ELSE noted

ApplyDiff(held, m) == IF held = m.from THEN m.to ELSE Parted

OnDiff(cl, m) ==
  LET noted == NoteEpoch(cl, m.epoch)
  IN  IF ~Stale(cl, m.epoch) /\ m.id = cl.id /\ noted.view # LOADING
      THEN [noted EXCEPT !.view = ApplyDiff(@, m)]
      ELSE noted

\* receive: a reply carries no epoch and no window.
Receive(cl, m) ==
  CASE m.kind = "epoch" -> NoteEpoch(cl, m.epoch)
    [] m.kind = "reset" -> OnReset(cl, m)
    [] m.kind = "diff" -> OnDiff(cl, m)
    [] m.kind = "answer" -> cl

\* attach over a new transport: no epoch, every window dropped, every view to
\* be opened again under a fresh id.
AttachTransport(cl) == [cl EXCEPT !.epoch = 0, !.id = 0, !.view = LOADING]

\* failConnection: the rows stay on screen, the subscription is gone.
FailConnection(cl) == [cl EXCEPT !.id = 0]

=============================================================================
