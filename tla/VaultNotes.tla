------------------------------ MODULE VaultNotes ------------------------------
(***************************************************************************)
(* The index of a vault of notes (holyfitra_obsidian.py): read file by file    *)
(* when it is empty or after a write, while others edit the files.  A note     *)
(* holds one link, a path or a stem; two paths may share a stem.  A digest       *)
(* stands for what it is computed from.                                      *)
(***************************************************************************)
EXTENDS Sequences, Functions, TLC

CONSTANTS
  Order,       \* the paths, in the order refresh sorts them
  Stem,        \* of each path and link
  Links,       \* the contents of notes that can be read
  TooLarge, Absent

VARIABLES disk, _notes, _snapshot, _backlinks, op, result

vars == <<disk, _notes, _snapshot, _backlinks, op, result>>
Idle == [is |-> "idle"]
Paths == Range(Order)

Init ==
  /\ disk \in [Paths -> Links \cup {Absent}]
  /\ _notes = <<>> /\ _backlinks = <<>> /\ _snapshot = [is |-> "none"]
  /\ op = Idle /\ result = Idle
-----------------------------------------------------------------------------
(* The note with that path, or the one note with that stem.                  *)
_resolve_target(notes, link) ==
  LET candidates == {p \in DOMAIN notes : Stem[p] = Stem[link]} IN
  IF link \in DOMAIN notes THEN {link}
  ELSE IF \E p \in Paths : candidates = {p} THEN candidates ELSE {}
_build_backlinks(notes) ==
  [p \in UNION {_resolve_target(notes, notes[q]) : q \in DOMAIN notes} |->
     {q \in DOMAIN notes : p \in _resolve_target(notes, notes[q])}]

Refreshing(then, told, files) ==
  /\ op' = [is |-> "refresh", then |-> then, told |-> told, todo |-> SelectSeq(Order, LAMBDA p : files[p] # Absent),
            got |-> <<>>, edited |-> {}]
  /\ result' = Idle
Reply(told, notes, was) == result' = [is |-> "hits", told |-> told, notes |-> notes, was |-> was] /\ op' = Idle

(* Variant with a fault: the index is filled as the files are read.           *)
RefreshFileInPlace ==
  LET p == Head(op.todo) IN
  /\ op.todo # <<>>
  /\ IF disk[p] \in {Absent, TooLarge}
     THEN op' = Idle /\ result' = [is |-> "raised"] /\ UNCHANGED _notes
     ELSE /\ op' = [op EXCEPT !.todo = Tail(@), !.got = p :> disk[p] @@ @]
          /\ _notes' = op'.got /\ UNCHANGED result
  /\ UNCHANGED <<disk, _snapshot, _backlinks>>

(* A file that is gone since it was listed, or too large, raises.             *)
RefreshFile ==
  LET p == Head(op.todo) IN
  /\ op.todo # <<>>
  /\ IF disk[p] \in {Absent, TooLarge}
     THEN op' = Idle /\ result' = [is |-> "raised"]
     ELSE op' = [op EXCEPT !.todo = Tail(@), !.got = p :> disk[p] @@ @] /\ UNCHANGED result
  /\ UNCHANGED <<disk, _notes, _snapshot, _backlinks>>

(* The index changes at once; the caller goes on with it.                     *)
RefreshEnd ==
  /\ op.todo = <<>>
  /\ _notes' = op.got /\ _backlinks' = _build_backlinks(op.got)
  /\ _snapshot' = [is |-> "digest", of |-> op.got]
  /\ CASE op.then = "search" -> Reply(op.told, op.got, "empty")
       [] op.then = "tool" /\ op.got # <<>> -> Reply(_snapshot', op.got, "new")
       [] op.then = "tool" /\ op.got = <<>> -> Refreshing("search", _snapshot', disk)
       [] op.then = "write" /\ op.told.path \in DOMAIN op.got ->
            result' = [is |-> "written", path |-> op.told.path, note |-> op.got[op.told.path],
                       meant |-> op.told.content, edited |-> op.edited] /\ op' = Idle
       [] OTHER -> result' = Idle /\ op' = Idle
  /\ UNCHANGED disk

refresh == Refreshing("nothing", [is |-> "none"], disk) /\ UNCHANGED <<disk, _notes, _snapshot, _backlinks>>

(* The read tool: it takes the snapshot there is, or refreshes; then it searches,  *)
(* which refreshes an index that is empty.                                   *)
handle ==
  /\ CASE _notes # <<>> -> Reply(_snapshot, _notes, "filled")
       [] _notes = <<>> /\ _snapshot.is = "none" -> Refreshing("tool", _snapshot, disk)
       [] _notes = <<>> /\ _snapshot.is # "none" -> Refreshing("search", _snapshot, disk)
  /\ UNCHANGED <<disk, _notes, _snapshot, _backlinks>>

write_note(p, content) ==
  /\ disk' = [disk EXCEPT ![p] = content] /\ _notes' = <<>>
  /\ Refreshing("write", [is |-> "note", path |-> p, content |-> content], disk')
  /\ UNCHANGED <<_snapshot, _backlinks>>

Edit(p, content) ==
  /\ disk[p] # content /\ disk' = [disk EXCEPT ![p] = content] /\ result' = Idle
  /\ op' = IF op = Idle THEN op ELSE [op EXCEPT !.edited = @ \cup {p}]
  /\ UNCHANGED <<_notes, _snapshot, _backlinks>>

Next ==
  \/ op # Idle /\ (RefreshFile \/ RefreshEnd)
  \/ op = Idle /\ (handle \/ refresh \/ \E p \in Paths, c \in Links : write_note(p, c))
  \/ \E p \in Paths, c \in Links \cup {TooLarge, Absent} : Edit(p, c)

Spec == Init /\ [][Next]_vars
-----------------------------------------------------------------------------
(* The backlinks and the snapshot are those of the notes in the index; what the  *)
(* tool returns comes with the digest of the index it was found in, unless that *)
(* was empty at first; a note that is written is returned as written, unless    *)
(* somebody edited it meanwhile.                                             *)
IndexAgrees ==
  /\ _notes # <<>> => _snapshot = [is |-> "digest", of |-> _notes] /\ _backlinks = _build_backlinks(_notes)
  /\ result.is = "hits" /\ result.was # "empty" => result.told.of = result.notes
  /\ result.is = "written" => result.note = result.meant \/ result.path \in result.edited
=============================================================================
