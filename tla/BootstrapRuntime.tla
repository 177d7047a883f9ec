--------------------------- MODULE BootstrapRuntime ---------------------------
(***************************************************************************)
(* The runtime that compiled programs are linked with                         *)
(* (bootstrap/holyfitra_runtime.c): arrays, strings, buffers and files by the   *)
(* address of their block, a register of the addresses that are live, text     *)
(* files written through a temporary file, and paths brought to one form.      *)
(* Any allocation may fail, and the program may end at any step and be run      *)
(* again.  The program reads no string it has freed, and one thread uses a     *)
(* handle or a file at a time.                                               *)
(***************************************************************************)
EXTENDS Integers, SequencesExt, TLC

CONSTANTS
  Addresses, Texts,      \* sequences of bytes
  MaxCapacity,           \* HF_MAX_DYNAMIC_I32_CAPACITY and HF_MAX_BUFFER_BYTES
  Paths,                 \* [absolute, segments], "" for what is between two slashes
  Dirs,                  \* directories a program may be in, as sequences of names
  MaxSegments, MaxPath   \* 256 and HF_MAX_PATH_BYTES

VARIABLES
  memory,                \* address |-> the block there
  hf_resources,          \* the live handles: <<address, kind>>
  disk,                  \* the text file and its temporary file
  writer,                \* hf_write_text, where it is
  canonical              \* a path just given to hf_path_canonicalize and its result

vars == <<memory, hf_resources, disk, writer, canonical>>
Free == [kind |-> "free"]
NULL == [absolute |-> FALSE, segments |-> <<"NULL">>]
NoPath == [path |-> NULL, result |-> NULL]
Quiet == [at |-> "none"]
Block(k, text) == [kind |-> k, text |-> text]
Handle(k, data, c) == [kind |-> k, data |-> data, size |-> 0, capacity |-> c]
Live(a, k) == <<a, k>> \in hf_resources
Released(m, as) == [a \in Addresses |-> IF a \in as THEN Free ELSE m[a]]

(* malloc, which takes the first free address here.                           *)
malloc(m) == {a \in Addresses : m[a] = Free /\ \A b \in Addresses : m[b] = Free => a <= b}

Init ==
  /\ memory = [a \in Addresses |-> Free] /\ hf_resources = {}
  /\ disk = "file" :> <<>> /\ writer = Quiet
  /\ canonical = NoPath

HeapOnly == canonical' = NoPath /\ UNCHANGED <<disk, writer>>
DiskOnly == canonical' = NoPath /\ UNCHANGED <<memory, hf_resources>>
-----------------------------------------------------------------------------
(* A block made for a resource is registered, or freed when that fails.        *)
Registered(made, a, k, blocks) ==
  \/ memory' = made /\ hf_resources' = hf_resources \cup {<<a, k>>}
  \/ memory' = Released(made, blocks) /\ UNCHANGED hf_resources

(* hf_dyn_i32_new and hf_buf_new.                                            *)
New(k, c) ==
  \E a \in malloc(memory) : \E b \in malloc([memory EXCEPT ![a] = Block("data", <<>>)]) :
    /\ Registered([memory EXCEPT ![a] = Handle(k, b, c), ![b] = Block("data", <<>>)], a, k, {a, b})
    /\ HeapOnly

Append32(a, k, text) ==
  /\ Live(a, k) /\ memory[a].size + Len(text) <= memory[a].capacity
  /\ memory' = [memory EXCEPT ![a].size = @ + Len(text), ![memory[a].data].text = @ \o text]
  /\ UNCHANGED hf_resources /\ HeapOnly
hf_dyn_i32_push(a, value) == Append32(a, "dyn", <<value>>)
hf_buf_append_bytes(a, text) == Append32(a, "buffer", text)

(* The program is ended and run again; what it held is gone.                  *)
Restart ==
  /\ memory' = [a \in Addresses |-> Free] /\ hf_resources' = {}
  /\ writer' = Quiet /\ canonical' = NoPath
  /\ UNCHANGED disk

(* hf_abort_invalid: a wrong handle or index ends the program.                 *)
hf_dyn_i32_set32(a, index, value) ==
  IF Live(a, "dyn") /\ index \in 0..memory[a].size - 1
  THEN /\ memory' = [memory EXCEPT ![memory[a].data].text[index + 1] = value]
       /\ UNCHANGED hf_resources /\ HeapOnly
  ELSE Restart

(* Variant with a fault: the kind is not compared.                           *)
TakeByPointer(a, k) == (\E l \in {"dyn", "buffer", "string", "file"} : Live(a, l))
                         /\ hf_resources' = {r \in hf_resources : r[1] # a}

(* hf_resource_take, and what is freed with it.  A handle may be one that was   *)
(* freed before, or of another kind.                                         *)
hf_resource_take(a, k) == Live(a, k) /\ hf_resources' = hf_resources \ {<<a, k>>}

FreeHandle(a, k) ==
  /\ hf_resource_take(a, k)
  /\ memory' = Released(memory, IF k \in {"dyn", "buffer"} THEN {a, memory[a].data} ELSE {a})
  /\ HeapOnly

(* A new string: hf_string_slice32, hf_buf_finish, hf_file_read_all.          *)
NewString(text) ==
  \E b \in malloc(memory) : Registered([memory EXCEPT ![b] = Block("string", text)], b, "string", {b}) /\ HeapOnly
hf_string_slice32(text, start, length) ==
  start + length <= Len(text) /\ NewString(SubSeq(text, start + 1, start + length))
hf_buf_finish(a) == Live(a, "buffer") /\ NewString(memory[memory[a].data].text)
hf_file_open ==
  \E a \in malloc(memory) : Registered([memory EXCEPT ![a] = Block("file", <<>>)], a, "file", {a}) /\ HeapOnly
hf_file_read_all(a) == Live(a, "file") /\ NewString(disk["file"])
-----------------------------------------------------------------------------
(* hf_write_text: opened, written, renamed.  A disk may take a part only.      *)
OpenTemporary(text) ==
  /\ writer.at \in {"none", "done"} /\ disk' = ("temporary" :> <<>>) @@ disk
  /\ writer' = [at |-> "write", text |-> text]
  /\ DiskOnly

WriteTemporary(written) ==
  /\ writer.at = "write" /\ written <= Len(writer.text)
  /\ disk' = ("temporary" :> SubSeq(writer.text, 1, written)) @@ disk
  /\ writer' = IF written = Len(writer.text) THEN [writer EXCEPT !.at = "rename"] ELSE [at |-> "remove"]
  /\ DiskOnly

RenameTemporary ==
  /\ writer.at = "rename" /\ disk' = "file" :> disk["temporary"]
  /\ writer' = [writer EXCEPT !.at = "done"]
  /\ DiskOnly
RemoveTemporary ==
  /\ writer.at \in {"rename", "remove"} /\ disk' = "file" :> disk["file"]
  /\ writer' = Quiet
  /\ DiskOnly
-----------------------------------------------------------------------------
LengthOf == "" :> 0 @@ "." :> 1 @@ ".." :> 2 @@ "a" :> 1 @@ "bcd" :> 3
Slashes(p) == IF p.segments = <<>> THEN (IF p.absolute THEN 1 ELSE 0)
              ELSE Len(p.segments) - (IF p.absolute THEN 0 ELSE 1)
Bytes(p) == FoldLeft(LAMBDA n, s : n + LengthOf[s], Slashes(p), p.segments)

(* Variant with a fault: ".." takes away a ".." that was kept.                *)
KeptNoParents(p, stack, s) ==
  CASE stack = NULL.segments \/ s \in {"", "."} -> stack
    [] s = ".." /\ stack # <<>> -> Front(stack)
    [] s = ".." /\ stack = <<>> /\ p.absolute -> NULL.segments
    [] OTHER -> IF Len(stack) >= MaxSegments THEN NULL.segments ELSE Append(stack, s)

(* One segment of the path; what is kept so far is a stack.                   *)
Kept(p, stack, s) ==
  CASE stack = NULL.segments \/ s \in {"", "."} -> stack
    [] s = ".." /\ stack # <<>> /\ Last(stack) # ".." -> Front(stack)
    [] s = ".." /\ (stack = <<>> \/ Last(stack) = "..") /\ p.absolute -> NULL.segments
    [] OTHER -> IF Len(stack) >= MaxSegments THEN NULL.segments ELSE Append(stack, s)

Normal(p) ==
  IF Bytes(p) = 0 \/ Bytes(p) >= MaxPath THEN NULL
  ELSE LET kept == FoldLeft(LAMBDA stack, s : Kept(p, stack, s), <<>>, p.segments)
       IN  CASE kept = NULL.segments -> NULL
             [] kept = <<>> /\ ~p.absolute -> [absolute |-> FALSE, segments |-> <<".">>]
             [] OTHER -> [absolute |-> p.absolute, segments |-> kept]

(* On an empty heap, to bound the states.                                    *)
hf_path_canonicalize(p) ==
  /\ hf_resources = {} /\ writer = Quiet /\ canonical = NoPath
  /\ canonical' = [path |-> p, result |-> Normal(p)]
  /\ IF Normal(p) = NULL THEN UNCHANGED <<memory, hf_resources>>
     ELSE \E a \in malloc(memory) : Registered([memory EXCEPT ![a] = Block("string", <<>>)], a, "string", {a})
  /\ UNCHANGED <<disk, writer>>

Next ==
  \/ \E k \in {"dyn", "buffer"}, c \in 1..MaxCapacity : New(k, c)
  \/ \E a \in Addresses : \/ hf_dyn_i32_push(a, 1) \/ hf_buf_finish(a) \/ hf_file_read_all(a)
                          \/ \E i \in -1..MaxCapacity : hf_dyn_i32_set32(a, i, 2)
                          \/ \E text \in Texts : hf_buf_append_bytes(a, text)
                          \/ \E k \in {"dyn", "buffer", "string", "file"} : FreeHandle(a, k)
  \/ \E text \in Texts : \E i, n \in 0..Len(text) : hf_string_slice32(text, i, n)
  \/ hf_file_open \/ Restart
  \/ \E text \in Texts : OpenTemporary(text)
  \/ \E n \in 0..MaxCapacity : WriteTemporary(n)
  \/ RenameTemporary \/ RemoveTemporary
  \/ hf_resources = {} /\ \E p \in Paths : hf_path_canonicalize(p)

Spec == Init /\ [][Next]_vars
-----------------------------------------------------------------------------
Owners(b) == {a \in Addresses : memory[a].kind \in {"dyn", "buffer"} /\ memory[a].data = b}

(* A handle that is live is a block of its kind, a block that is not data is     *)
(* live, and data belongs to one handle, which counts it right.               *)
HandlesLive ==
  /\ hf_resources = {<<a, memory[a].kind>> : a \in {b \in Addresses : memory[b].kind \notin {"free", "data"}}}
  /\ \A b \in Addresses : memory[b].kind = "data" =>
       \E a \in Owners(b) : /\ Owners(b) = {a} /\ memory[a].size = Len(memory[b].text)
                            /\ memory[a].size <= memory[a].capacity
  /\ \A a \in Addresses : memory[a].kind \in {"dyn", "buffer"} => memory[memory[a].data].kind = "data"

(* Whoever reads the file reads a text that was written whole, and it is the     *)
(* new one once the write has returned.                                       *)
FileWhole ==
  /\ disk["file"] \in Texts \cup {<<>>}
  /\ writer.at = "done" => disk["file"] = writer.text

(* Where a path leads from a directory; above the root there is none.           *)
Entered(dir, s) == CASE s \in {"", "."} \/ dir = <<"none">> -> dir
                     [] s = ".." -> IF dir = <<>> THEN <<"none">> ELSE Front(dir)
                     [] OTHER -> Append(dir, s)
Leads(dir, p) == FoldLeft(Entered, IF p.absolute THEN <<>> ELSE dir, p.segments)

(* A path brought to its one form leads where it led, and stays as it is; an     *)
(* absolute path that leads above the root has none.                          *)
PathsLeadSame ==
  LET p == canonical.path r == canonical.result
  IN  /\ r # NULL => /\ \A dir \in Dirs : Leads(dir, r) = Leads(dir, p)
                     /\ Normal(r) = r /\ Bytes(r) <= Bytes(p)
      /\ r = NULL /\ p # NULL => \/ Bytes(p) \notin 1..MaxPath - 1
                                 \/ p.absolute /\ Leads(<<>>, p) = <<"none">>
                                 \/ Len(SelectSeq(p.segments, LAMBDA s : s \notin {"", "."})) > MaxSegments

RuntimeHolds == HandlesLive /\ FileWhole /\ PathsLeadSame
=============================================================================
