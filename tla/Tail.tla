--------------------------------- MODULE Tail ---------------------------------
(***************************************************************************)
(* Following the log the game is still writing (eqlog/src/tail.rs): the    *)
(* scan's handoff, FileTail's poll cycle and TailCore under it, against a  *)
(* game that appends, truncates, deletes and recreates the file between    *)
(* any two system calls of a poll.                                         *)
(*                                                                         *)
(* A byte is its kind and the moment it was written, so that two bytes are *)
(* never mistaken for one another.                                         *)
(***************************************************************************)
EXTENDS Integers, Sequences, FiniteSets, SequencesExt

CONSTANTS
  Files,         \* the files that may be behind the path
  Absent,        \* no file
  Kinds,         \* "ink", "cr" and "nl": what a byte may be
  SliceBytes,    \* TAIL_READ_SLICE_BYTES
  MaxBytes,      \* bytes the game writes
  MaxRotations,  \* truncations and deletions
  MaxErrors      \* opens and reads that fail

ASSUME TailAssumption ==
  /\ Absent \notin Files
  /\ Kinds \subseteq {"ink", "cr", "nl"}
  /\ SliceBytes \in Nat \ {0}
  /\ MaxBytes \in Nat /\ MaxRotations \in Nat /\ MaxErrors \in Nat

VARIABLES
  content,    \* file -> its bytes
  path,       \* the file the path names, or Absent
  offset,     \* TailCore.offset: the read cursor
  leftover,   \* TailCore.leftover: the bytes of the line in hand
  fh,         \* FileTail.fh, or Absent
  reopen,     \* FileTail.pending_open is set
  vanished,   \* FileTail.vanished
  pc,         \* where the follower stands in a poll
  size,       \* the size this poll saw
  lines,      \* every line handed over since the follower last stood at byte 0
  unobserved, \* the file was cut below the cursor, or removed, since the last look
  blind,      \* ...and written to before a poll could see it
  written, rotations, errors

gameVars == <<content, path, unobserved, written, rotations>>
coreVars == <<offset, leftover, lines>>
tailVars == <<fh, reopen, vanished>>
vars == <<gameVars, coreVars, tailVars, pc, size, blind, errors>>

-----------------------------------------------------------------------------
(* split_lines and TailCore. *)

LineEnds(bytes) == {i \in DOMAIN bytes : bytes[i].kind = "nl"}

\* Where the last complete line of bytes ends, or 0.
LastEnd(bytes) ==
  CHOOSE i \in 0 .. Len(bytes) :
    /\ i # 0 => i \in LineEnds(bytes)
    /\ \A j \in LineEnds(bytes) : j <= i

Rest(bytes) == SubSeq(bytes, LastEnd(bytes) + 1, Len(bytes))

\* A line without its terminator: \n, and one \r before it.
Trim(line) ==
  IF line # <<>> /\ Last(line).kind = "cr" THEN Front(line) ELSE line

\* The line that ends at e: what is unfinished before it.
LineTo(bytes, e) == Trim(Rest(SubSeq(bytes, 1, e - 1)))

\* The k-th smallest of a set of numbers.
Nth(S, k) == CHOOSE e \in {d \in S : Cardinality({c \in S : c <= d}) = k} : TRUE

\* The complete lines of bytes in order, empty ones dropped.
SplitLines(bytes) ==
  LET full == {e \in LineEnds(bytes) : LineTo(bytes, e) # <<>>}
  IN  [k \in 1 .. Cardinality(full) |-> LineTo(bytes, Nth(full, k))]

\* Mutant: the chunk is split without the carry under it.
ConsumeDropsCarry(chunk) ==
  /\ offset' = offset + Len(chunk)
  /\ lines' = lines \o SplitLines(chunk)
  /\ leftover' = Rest(chunk)

Consume(chunk) ==
  LET buf == leftover \o chunk
  IN  /\ offset' = offset + Len(chunk)
      /\ lines' = lines \o SplitLines(buf)
      /\ leftover' = Rest(buf)

\* Mutant: a restart keeps the partial line the truncation ate.
RestartKeepsCarry ==
  offset' = 0 /\ lines' = <<>> /\ UNCHANGED leftover

\* TailCore::reset.
Restart == offset' = 0 /\ leftover' = <<>> /\ lines' = <<>>

-----------------------------------------------------------------------------
(* The game. *)

Init ==
  /\ content = [f \in Files |-> <<>>]
  /\ path \in Files
  /\ offset = 0 /\ leftover = <<>> /\ lines = <<>>
  /\ fh = Absent /\ reopen = TRUE /\ vanished = FALSE
  /\ pc = "scan" /\ size = 0
  /\ unobserved = FALSE /\ blind = FALSE
  /\ written = 0 /\ rotations = 0 /\ errors = 0

GameAppends(kind) ==
  /\ path # Absent /\ written < MaxBytes /\ kind \in Kinds
  /\ written' = written + 1
  /\ content' = [content EXCEPT ![path] = Append(@, [kind |-> kind, at |-> written])]
  /\ blind' = (blind \/ unobserved)
  /\ UNCHANGED <<path, unobserved, rotations, coreVars, tailVars, pc, size, errors>>

Truncate(n) ==
  /\ path # Absent /\ rotations < MaxRotations /\ n < Len(content[path])
  /\ rotations' = rotations + 1
  /\ content' = [content EXCEPT ![path] = SubSeq(@, 1, n)]
  /\ unobserved' = (unobserved \/ n < offset)
  /\ UNCHANGED <<path, written, coreVars, tailVars, pc, size, blind, errors>>

Unlink ==
  /\ path # Absent /\ rotations < MaxRotations
  /\ rotations' = rotations + 1
  /\ path' = Absent
  /\ unobserved' = (unobserved \/ fh # Absent \/ offset # 0)
  /\ UNCHANGED <<content, written, coreVars, tailVars, pc, size, blind, errors>>

\* A new, empty file under the name.
Recreate(f) ==
  /\ path = Absent /\ f # fh
  /\ path' = f
  /\ content' = [content EXCEPT ![f] = <<>>]
  /\ blind' = (blind \/ unobserved)
  /\ UNCHANGED <<unobserved, written, rotations, coreVars, tailVars, pc, size, errors>>

Game ==
  \/ \E kind \in Kinds : GameAppends(kind)
  \/ \E n \in 0 .. MaxBytes : Truncate(n)
  \/ Unlink
  \/ \E f \in Files : Recreate(f)

-----------------------------------------------------------------------------
(* The handoff from the scan. *)

\* scan.rs folded the complete lines of the file and stops at the end of the
\* last one.
ScanLog ==
  /\ pc = "scan" /\ path # Absent
  /\ offset' = LastEnd(content[path])
  /\ lines' = SplitLines(content[path])
  /\ pc' = "scanned"
  /\ UNCHANGED <<gameVars, leftover, tailVars, size, blind, errors>>

\* FileTail::open(path, At(offset)): clamped to the size of a file that shrank
\* in between, which hides the shrink from every later poll.
OpenTail ==
  /\ pc = "scanned"
  /\ LET shrank == path # Absent /\ Len(content[path]) < offset
     IN  /\ offset' = IF shrank THEN Len(content[path]) ELSE offset
         /\ blind' = (blind \/ shrank)
         /\ unobserved' = (unobserved /\ path = Absent)
  /\ pc' = "idle"
  /\ UNCHANGED <<content, path, written, rotations, leftover, lines, tailVars, size, errors>>

-----------------------------------------------------------------------------
(* One poll. *)

\* metadata failed with NotFound.
PollMissing ==
  /\ pc = "idle" /\ path = Absent
  /\ vanished' = TRUE
  /\ unobserved' = FALSE
  /\ UNCHANGED <<content, path, written, rotations, coreVars, fh, reopen, pc, size, blind, errors>>

\* Mutant: one new byte is taken for none.
PollStatOffByOne ==
  LET now == Len(content[path])
      shrunk == now < offset
  IN  /\ pc = "idle" /\ path # Absent
      /\ IF shrunk THEN Restart ELSE UNCHANGED coreVars
      /\ reopen' = (reopen \/ vanished \/ shrunk)
      /\ vanished' = FALSE /\ unobserved' = FALSE
      /\ blind' = (~shrunk /\ (blind \/ (vanished /\ offset # 0)))
      /\ size' = now
      /\ pc' = IF now <= offset' + 1 THEN "idle" ELSE "open"
      /\ UNCHANGED <<content, path, written, rotations, fh, errors>>

\* metadata answered.  A file that vanished is another file; a strict shrink
\* restarts at 0; nothing new ends the poll.  A replacement already as long as
\* the cursor is read from the middle (rule 5 of the module header).
PollStat ==
  LET now == Len(content[path])
      shrunk == now < offset
  IN  /\ pc = "idle" /\ path # Absent
      /\ IF shrunk THEN Restart ELSE UNCHANGED coreVars
      /\ reopen' = (reopen \/ vanished \/ shrunk)
      /\ vanished' = FALSE /\ unobserved' = FALSE
      /\ blind' = (~shrunk /\ (blind \/ (vanished /\ offset # 0)))
      /\ size' = now
      /\ pc' = IF now <= offset' THEN "idle" ELSE "open"
      /\ UNCHANGED <<content, path, written, rotations, fh, errors>>

\* ensure_handle: the handle in hand, unless a reason to reopen is pending.
EnsureHandle ==
  /\ pc = "open"
  /\ \/ fh # Absent /\ ~reopen /\ UNCHANGED <<fh, reopen>>
     \/ (fh = Absent \/ reopen) /\ path # Absent /\ fh' = path /\ reopen' = FALSE
  /\ pc' = "read"
  /\ UNCHANGED <<gameVars, coreVars, vanished, size, blind, errors>>

\* Mutant: an open that failed does not end the poll.
OpenFailsAndReads ==
  /\ pc = "open" /\ (fh = Absent \/ reopen)
  /\ path = Absent \/ errors < MaxErrors
  /\ errors' = IF path = Absent THEN errors ELSE errors + 1
  /\ fh' = Absent
  /\ pc' = "read"
  /\ UNCHANGED <<gameVars, coreVars, reopen, vanished, size, blind>>

\* The open failed: no handle, and the reason stays pending.
OpenFails ==
  /\ pc = "open" /\ (fh = Absent \/ reopen)
  /\ path = Absent \/ errors < MaxErrors
  /\ errors' = IF path = Absent THEN errors ELSE errors + 1
  /\ fh' = Absent
  /\ pc' = "idle"
  /\ UNCHANGED <<gameVars, coreVars, reopen, vanished, size, blind>>

\* One turn of read_slices: as much of a slice as the handle's file still has,
\* consumed; the cycle ends at the size this poll saw, or at a file with
\* nothing there.
ReadSlice ==
  LET upTo == LET ends == {offset + SliceBytes, size, Len(content[fh])}
              IN  CHOOSE e \in ends : \A d \in ends : e <= d
      chunk == SubSeq(content[fh], offset + 1, upTo)
  IN  /\ pc = "read"
      /\ Consume(chunk)
      /\ pc' = IF chunk = <<>> \/ offset' >= size THEN "idle" ELSE "read"
      /\ UNCHANGED <<gameVars, tailVars, size, blind, errors>>

\* A read failed: the handle is dropped, the cursor untouched.
ReadFails ==
  /\ pc = "read" /\ errors < MaxErrors
  /\ errors' = errors + 1
  /\ fh' = Absent /\ reopen' = TRUE
  /\ pc' = "idle"
  /\ UNCHANGED <<gameVars, coreVars, vanished, size, blind>>

Follower == ScanLog \/ OpenTail \/ PollMissing \/ PollStat \/ EnsureHandle \/ ReadSlice

Next == Game \/ Follower \/ OpenFails \/ ReadFails

\* FileTail::follow polls for ever, and a read in hand goes on.
Spec == Init /\ [][Next]_vars /\ WF_vars(Follower)

-----------------------------------------------------------------------------
(* Properties. *)

Bytes == [kind : Kinds, at : 0 .. MaxBytes]

\* Every variable stays in the set its Rust type describes.
TypeOK ==
  /\ content \in [Files -> Seq(Bytes)] /\ path \in Files \cup {Absent}
  /\ offset \in Nat /\ leftover \in Seq(Bytes) /\ lines \in Seq(Seq(Bytes))
  /\ fh \in Files \cup {Absent} /\ reopen \in BOOLEAN /\ vanished \in BOOLEAN
  /\ pc \in {"scan", "scanned", "idle", "open", "read"} /\ size \in Nat
  /\ unobserved \in BOOLEAN /\ blind \in BOOLEAN
  /\ written \in 0 .. MaxBytes /\ rotations \in 0 .. MaxRotations /\ errors \in 0 .. MaxErrors
  /\ pc = "read" => fh # Absent

\* The mark law: whatever happened to the file, the mark (cursor less carry) is
\* an offset, and the carry is a line the game has not finished, so no complete
\* line is ever held back and no incomplete one counted under the mark.
Mark == offset - Len(leftover)

MarkLaw == Mark >= 0 /\ LineEnds(leftover) = {}

\* The reference: bytes fed one at a time to a reader that hands over the line
\* in hand when its newline arrives.
Feed(acc, byte) ==
  IF byte.kind # "nl" THEN [acc EXCEPT !.hand = Append(@, byte)]
  ELSE [done |-> IF Trim(acc.hand) = <<>> THEN acc.done ELSE Append(acc.done, Trim(acc.hand)),
        hand |-> <<>>]

Fed(bytes) == FoldLeft(Feed, [done |-> <<>>, hand |-> <<>>], bytes)

\* Poll timing never decides what comes out: unless a cut was written over
\* before any poll could see it, what was handed over since byte 0 is the line
\* sequence of the bytes under the cursor, read in one piece, and the carry is
\* what follows the last of them, across slices, the scan's handoff, races with
\* truncation and deletion, and failed reads.
SameLinesHoweverPolled ==
  path # Absent /\ ~blind /\ ~vanished /\ offset <= Len(content[path]) =>
    Fed(SubSeq(content[path], 1, offset)) = [done |-> lines, hand |-> leftover]

\* A file the game leaves alone is eventually read to its end, and every complete
\* line of it handed over, whatever failed on the way.
CatchesUp ==
  <>[](path = Absent \/ blind \/ offset = Len(content[path]))

=============================================================================
