---------------------------- MODULE TelemetryCursor ----------------------------
(***************************************************************************)
(* holyfitra_telemetry.py: processes append events to a log, one line each,  *)
(* and the cursor of a dashboard reads what is new.  A long line reaches     *)
(* the file in two writes, and its writer may die between them; somebody     *)
(* may truncate the file at any time.                                        *)
(*                                                                         *)
(* A line has two parts, <<e, "body">> and <<e, "end">>; the newline is in   *)
(* the second.  Only a line of these two decodes.                            *)
(***************************************************************************)
EXTENDS Integers, Sequences, FiniteSets, SequencesExt

CONSTANTS Events, EventLimit    \* limit of read_new

(* A limit of zero would keep every event, as [-0:] does.                    *)
ASSUME CursorAssumption == IsFiniteSet(Events) /\ EventLimit \in Nat \ {0}

VARIABLES log,
          offset, partial, events,   \* the TelemetryCursor
          sized,     \* whether read_new is between its stat and its read
          seen       \* history: what precedes the offset is what was read

cursor == <<offset, partial, events>>
cursor_vars == <<log, cursor, sized, seen>>

BodyOf(e) == <<e, "body">>
EndOf(e) == <<e, "end">>
EndsLine(b) == b[2] = "end"

CursorInit == /\ log = <<>> /\ offset = 0 /\ partial = <<>> /\ events = <<>>
              /\ sized = FALSE /\ seen = TRUE

Logged(b) == \E i \in DOMAIN log : log[i] = b

(* record_event, in one write or in two.  The second goes to the end of the   *)
(* file even when the first has been cut away: it may be all that is there.  *)
AppendLine(e) == ~Logged(BodyOf(e)) /\ ~Logged(EndOf(e)) /\ log' = log \o <<BodyOf(e), EndOf(e)>>
AppendBody(e) == ~Logged(BodyOf(e)) /\ ~Logged(EndOf(e)) /\ log' = Append(log, BodyOf(e))
AppendEnd(e) == ~Logged(EndOf(e)) /\ log' = Append(log, EndOf(e))

Record(e) == /\ AppendLine(e) \/ AppendBody(e) \/ AppendEnd(e)
             /\ UNCHANGED <<cursor, sized, seen>>

Truncate(n) ==
  /\ n < Len(log) /\ log' = SubSeq(log, 1, n)
  /\ seen' = (seen /\ n >= offset)
  /\ UNCHANGED <<cursor, sized>>

(* The beginning of read_new: a file that is too short starts it again.     *)
Stat ==
  /\ ~sized /\ sized' = TRUE
  /\ IF Len(log) < offset
     THEN offset' = 0 /\ partial' = <<>> /\ events' = <<>> /\ seen' = TRUE
     ELSE UNCHANGED <<cursor, seen>>
  /\ UNCHANGED log

Newlines(s) == {i \in DOMAIN s : EndsLine(s[i])}
LastNewline(s) == Max({0} \cup Newlines(s))

(* The events of the complete lines of s, in order: what ends at i decodes.  *)
Decodes(s, i) == i > 1 /\ EndsLine(s[i]) /\ s[i - 1] = BodyOf(s[i][1]) /\ (i = 2 \/ EndsLine(s[i - 2]))
Decoded(s) ==
  LET upto[i \in 0..Len(s)] == IF i = 0 THEN <<>>
                               ELSE IF Decodes(s, i) THEN Append(upto[i - 1], s[i][1]) ELSE upto[i - 1]
  IN  upto[Len(s)]

LastN(s, n) == SubSeq(s, Max({1, Len(s) - n + 1}), Len(s))

(* What is read with what was left of the last line, and what that shows.     *)
Chunk == partial \o SubSeq(log, offset + 1, Len(log))
Shown(chunk) ==
  LET n == LastNewline(chunk)
  IN  IF n = 0 THEN events ELSE LastN(events \o Decoded(SubSeq(chunk, 1, n)), EventLimit)
LastLine(chunk) == SubSeq(chunk, LastNewline(chunk) + 1, Len(chunk))

(* Variant with a fault: the offset stays at the last newline.              *)
ReadPartialAgain ==
  /\ sized /\ sized' = FALSE
  /\ partial' = LastLine(Chunk) /\ events' = Shown(Chunk)
  /\ offset' = Max({offset, Len(log)}) - Len(partial')
  /\ UNCHANGED <<log, seen>>

(* The rest of read_new.                                                    *)
ReadRest ==
  /\ sized /\ sized' = FALSE
  /\ partial' = LastLine(Chunk) /\ events' = Shown(Chunk)
  /\ offset' = Max({offset, Len(log)})
  /\ UNCHANGED <<log, seen>>

CursorNext == \/ \E e \in Events : Record(e)
              \/ \E n \in 0..(2 * Cardinality(Events)) : Truncate(n)
              \/ Stat \/ ReadRest

CursorSpec == CursorInit /\ [][CursorNext]_cursor_vars
-----------------------------------------------------------------------------
CursorTypeOK ==
  /\ log \in Seq(Events \X {"body", "end"}) /\ partial \in Seq(Events \X {"body", "end"})
  /\ offset \in 0..(2 * Cardinality(Events)) /\ sized \in BOOLEAN /\ seen \in BOOLEAN
  /\ events \in Seq(Events) /\ Len(events) <= EventLimit

(* The dashboard shows the last events of the complete lines before the     *)
(* offset, once each and in order, and keeps the rest of them, unless the    *)
(* file was cut below the offset and has grown beyond it before a read.     *)
ShowsLog ==
  seen => LET read == SubSeq(log, 1, offset)
              n == LastNewline(read)
          IN  /\ offset <= Len(log)
              /\ events = LastN(Decoded(SubSeq(read, 1, n)), EventLimit)
              /\ partial = SubSeq(read, n + 1, offset)

(* The telemetry cursor shows each event of the log once and in order,       *)
(* through lines written in parts, torn lines and truncation.               *)
CursorFaithful == CursorTypeOK /\ ShowsLog
=============================================================================
