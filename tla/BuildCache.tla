------------------------------ MODULE BuildCache ------------------------------
(***************************************************************************)
(* The compiler driver's caches (holyfitra_compiler.py, compile_native_file   *)
(* and build): LLVM text in memory and in files that are replaced at once,    *)
(* executables in files that are copied in place, each with a file that       *)
(* holds its hash.  Processes build, to whatever output path they are given,  *)
(* are killed with the clang they run, and find what was left.  A digest       *)
(* stands for a source with its modules and its target, and for what is        *)
(* compiled from it.                                                         *)
(***************************************************************************)
EXTENDS Integers, SequencesExt, FiniteSetsExt

CONSTANTS
  Builders, Digests, Absent,
  Outputs,                     \* the output paths
  Torn,                        \* the content of a file that was not written to its end
  _MEMORY_COMPILE_CACHE_LIMIT

(* What is assumed of the constants: what is not there and what is torn are no *)
(* executables.                                                              *)
BuildConstants == Absent \notin Digests /\ Torn \notin Digests \cup {Absent}

VARIABLES
  llvm,        \* digest |-> the text in its cache file
  native,      \* digest |-> the executable in its cache file
  sha256,      \* digest |-> the executable whose hash is in its hash file
  memory,      \* process |-> the digests in _MEMORY_COMPILE_CACHE, oldest first
  builds,      \* process |-> the build it is in, or what it left where it was told to
  output,      \* path |-> the executable there
  overlapped   \* the digests whose builds met another of their digest or output path

build_vars == <<llvm, native, sha256, memory, builds, output, overlapped>>
Idle == [at |-> "idle"]

BuildInit ==
  /\ llvm = [d \in Digests |-> Absent] /\ native = [d \in Digests |-> Absent]
  /\ sha256 = [d \in Digests |-> Absent] /\ memory = [b \in Builders |-> <<>>]
  /\ builds = [b \in Builders |-> Idle] /\ output = [p \in Outputs |-> Absent]
  /\ overlapped = {}

Building(b) == builds[b].at \notin {"idle", "done"}
Go(b, at) == builds' = [builds EXCEPT ![b].at = at]
Done(b, left) == builds' = [builds EXCEPT ![b] = [at |-> "done", digest |-> @.digest, left |-> left]]
-----------------------------------------------------------------------------
(* compile_native_file: what is in memory, or a cache file that is as it was   *)
(* written, or else text emitted now and published at once.                  *)
Touch(m, d) ==
  LET newest == Append(SelectSeq(m, LAMBDA e : e # d), d)
  IN  IF Len(newest) > _MEMORY_COMPILE_CACHE_LIMIT THEN Tail(newest) ELSE newest
_atomic_write_text(d, text) == llvm' = [llvm EXCEPT ![d] = text]
Beside(b, d, p) == {c \in Builders \ {b} : Building(c) /\ (builds[c].digest = d \/ builds[c].path = p)}
compile_native_file(b, d, p) ==
  /\ ~Building(b)
  /\ memory' = [memory EXCEPT ![b] = Touch(@, d)]
  /\ IF d \in Range(memory[b]) THEN UNCHANGED llvm ELSE _atomic_write_text(d, d)
  /\ builds' = [builds EXCEPT ![b] = [at |-> "validate", digest |-> d, path |-> p]]
  /\ overlapped' = overlapped \cup UNION {{d, builds[c].digest} : c \in Beside(b, d, p)}
  /\ UNCHANGED <<native, sha256, output>>

(* Variant with a fault: the hash file need only be there.                    *)
PresentArtifact(d) == native[d] # Absent /\ sha256[d] # Absent

artifact_valid(d) == native[d] # Absent /\ sha256[d] = native[d]

Validate(b, d) ==
  /\ builds[b].at = "validate"
  /\ IF artifact_valid(d)
     THEN Go(b, "hit") /\ UNCHANGED <<native, sha256>>
     ELSE /\ native' = [native EXCEPT ![d] = Absent] /\ sha256' = [sha256 EXCEPT ![d] = Absent]
          /\ Go(b, "link")
  /\ UNCHANGED <<llvm, memory, output, overlapped>>

CopyHit(b, d) ==
  /\ builds[b].at = "hit" /\ native[d] # Absent
  /\ output' = [output EXCEPT ![builds[b].path] = native[d]]
  /\ Done(b, native[d]) /\ UNCHANGED <<llvm, native, sha256, memory, overlapped>>

Link(b, d) ==
  /\ builds[b].at = "link"
  /\ output' = [output EXCEPT ![builds[b].path] = d]
  /\ Go(b, "copy") /\ UNCHANGED <<llvm, native, sha256, memory, overlapped>>

(* copy2 truncates the cache file, then fills it with what is at the path now. *)
CopyBegin(b, d) ==
  /\ builds[b].at = "copy"
  /\ native' = [native EXCEPT ![d] = Torn]
  /\ Go(b, "copying") /\ UNCHANGED <<llvm, sha256, memory, output, overlapped>>

CopyEnd(b, d) ==
  /\ builds[b].at = "copying"
  /\ native' = [native EXCEPT ![d] = IF @ = Absent THEN @ ELSE output[builds[b].path]]
  /\ Go(b, "hash") /\ UNCHANGED <<llvm, sha256, memory, output, overlapped>>

Hash(b, d) ==
  /\ builds[b].at = "hash" /\ native[d] # Absent
  /\ sha256' = [sha256 EXCEPT ![d] = native[d]]
  /\ Done(b, output[builds[b].path]) /\ UNCHANGED <<llvm, native, memory, output, overlapped>>

(* Raised: clang failed, or a file is gone that somebody else removed.        *)
Fails(b, d) ==
  /\ builds[b].at = "link" \/ (builds[b].at \in {"hit", "hash"} /\ native[d] = Absent)
  /\ builds' = [builds EXCEPT ![b] = Idle]
  /\ UNCHANGED <<llvm, native, sha256, memory, output, overlapped>>

BuildStep(b, d) == Validate(b, d) \/ CopyHit(b, d) \/ Link(b, d) \/ CopyBegin(b, d) \/ CopyEnd(b, d)
                     \/ Hash(b, d) \/ Fails(b, d)

(* The process is killed; linking or copying, it may leave its output torn.   *)
Kill(b) ==
  /\ Building(b)
  /\ IF builds[b].at \in {"hit", "link"} THEN output' = [output EXCEPT ![builds[b].path] = Torn]
                                         ELSE UNCHANGED output
  /\ builds' = [builds EXCEPT ![b] = Idle] /\ memory' = [memory EXCEPT ![b] = <<>>]
  /\ UNCHANGED <<llvm, native, sha256, overlapped>>

(* Something outside damages a file of the cache.                            *)
Damage(d) ==
  /\ \/ llvm[d] = d /\ llvm' = [llvm EXCEPT ![d] = Torn] /\ UNCHANGED <<native, sha256>>
     \/ native[d] \in Digests /\ native' = [native EXCEPT ![d] = Torn] /\ UNCHANGED <<llvm, sha256>>
     \/ sha256[d] \in Digests /\ sha256' = [sha256 EXCEPT ![d] = Absent] /\ UNCHANGED <<llvm, native>>
  /\ \A b \in Builders : ~Building(b)
  /\ UNCHANGED <<memory, builds, output, overlapped>>

BuildNext == \/ \E b \in Builders : \/ \E d \in Digests, p \in Outputs : compile_native_file(b, d, p)
                                    \/ Building(b) /\ BuildStep(b, builds[b].digest)
                                    \/ Kill(b)
             \/ \E d \in Digests : Damage(d)

BuildSpec == BuildInit /\ [][BuildNext]_build_vars
-----------------------------------------------------------------------------
BuildTypeOK ==
  /\ \A d \in Digests : llvm[d] \in {Absent, Torn, d}
  /\ native \in [Digests -> Digests \cup {Absent, Torn}] /\ sha256 \in [Digests -> Digests \cup {Absent, Torn}]
  /\ \A b \in Builders : Len(memory[b]) <= _MEMORY_COMPILE_CACHE_LIMIT

(* A build that reports success leaves the executable of its own digest at    *)
(* its output path, whatever builds that were killed and damaged files have    *)
(* left in the caches and whatever else is built, unless a build of the digest *)
(* has met another one of that digest or of that path.                       *)
BuildsOwnSource ==
  \A b \in Builders : builds[b].at = "done" /\ builds[b].digest \notin overlapped => builds[b].left = builds[b].digest
=============================================================================
