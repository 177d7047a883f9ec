----------------------------- MODULE ModelCapsule -----------------------------
(***************************************************************************)
(* A model capsule that is read chunk by chunk while its file may be replaced, *)
(* damaged or cut (holyfitra_model_capsule.py).  A capsule is its chunks, each  *)
(* a sequence of bytes, behind a header that is authenticated as a whole and   *)
(* says where each chunk lies and what its bytes are.                        *)
(***************************************************************************)
EXTENDS Integers, SequencesExt, FiniteSetsExt

CONSTANTS
  Capsules,          \* what is exported: sequences of chunks
  Jobs,              \* what is read: sequences of chunk numbers
  cache_chunks, Junk

VARIABLES
  file,        \* the file at the path: its header and its payload; <<>> for none
  capsule,     \* the open capsule: the manifest and the cache, oldest first
  job,         \* deployment_bytes, a prediction, or a single read_chunk: what it has read so far
  result       \* what the last job returned

vars == <<file, capsule, job, result>>
None == [is |-> "none"]

Init == file = <<>> /\ capsule = None /\ job = None /\ result = None
-----------------------------------------------------------------------------
(* _write_capsule: written beside and put in place at once, so that a writer     *)
(* that dies leaves the file as it was.                                      *)
Offset(chunks, n) == Len(FlattenSeq(SubSeq(chunks, 1, n - 1)))
export_pipeline_capsule(chunks) ==
  /\ file' = [header |-> chunks, payload |-> FlattenSeq(chunks)]
  /\ file # file' /\ UNCHANGED <<capsule, job, result>>

(* Something outside damages a byte of the payload, or cuts it.               *)
Damage(i) == /\ file' = [file EXCEPT !.payload[i] = Junk] /\ file # file'
             /\ UNCHANGED <<capsule, job, result>>
Cut == /\ file.payload # <<>> /\ file' = [file EXCEPT !.payload = Front(@)]
       /\ UNCHANGED <<capsule, job, result>>

(* The header is authentic and the payload as long as its chunks, whatever it  *)
(* holds.                                                                    *)
open_model_capsule ==
  /\ job = None /\ file # <<>> /\ Len(file.payload) = Len(FlattenSeq(file.header))
  /\ capsule' = [is |-> "open", chunks |-> file.header, cache |-> <<>>]
  /\ result' = None /\ UNCHANGED <<file, job>>

Begin(names) ==
  /\ capsule # None /\ job = None /\ \A i \in DOMAIN names : names[i] \in DOMAIN capsule.chunks
  /\ job' = [is |-> "reading", names |-> names, got |-> <<>>]
  /\ result' = None /\ UNCHANGED <<file, capsule>>

Cached(n) == {i \in DOMAIN capsule.cache : capsule.cache[i].name = n}
Stored == IF file = <<>> THEN <<>> ELSE file.payload
FromFile(n) ==
  LET at == Offset(capsule.chunks, n)
  IN  SubSeq(Stored, at + 1, Min({at + Len(capsule.chunks[n]), Len(Stored)}))
Kept(cache) == SubSeq(cache, Len(cache) - Min({Len(cache), cache_chunks}) + 1, Len(cache))

(* Variant with a fault: bytes of the right number are taken for the chunk.    *)
LooksRight(n, bytes) == Len(bytes) = Len(capsule.chunks[n])

Verified(n, bytes) == bytes = capsule.chunks[n]

(* The next chunk, from the cache or the file; the last one ends the job.      *)
read_chunk ==
  LET n == job.names[Len(job.got) + 1]
      hit == Cached(n) # {}
      at == CHOOSE i \in Cached(n) : TRUE
      bytes == IF hit THEN capsule.cache[at].bytes ELSE FromFile(n)
      got == Append(job.got, bytes)
      others == SelectSeq(capsule.cache, LAMBDA e : e.name # n)
      done == Len(got) = Len(job.names)
  IN  /\ job # None
      /\ IF hit \/ Verified(n, bytes)
         THEN /\ capsule' = [capsule EXCEPT !.cache = Kept(Append(others, [name |-> n, bytes |-> bytes]))]
              /\ job' = IF done THEN None ELSE [job EXCEPT !.got = got]
              /\ result' = IF done THEN [is |-> "bytes", names |-> job.names, got |-> got] ELSE None
         ELSE job' = None /\ result' = [is |-> "raised"] /\ UNCHANGED capsule
      /\ UNCHANGED file

Next == \/ \E chunks \in Capsules : export_pipeline_capsule(chunks)
        \/ file # <<>> /\ (Cut \/ \E i \in DOMAIN file.payload : Damage(i))
        \/ open_model_capsule \/ read_chunk
        \/ \E names \in Jobs : Begin(names)

Spec == Init /\ [][Next]_vars
-----------------------------------------------------------------------------
(* What a job returns is what the capsule held that was opened, every chunk of  *)
(* it, whatever happened to the file before, between and after its reads; and  *)
(* no more chunks stay in memory than allowed, each once.                     *)
ReadsWhatWasSigned ==
  /\ result.is = "bytes" => \A i \in DOMAIN result.got : result.got[i] = capsule.chunks[result.names[i]]
  /\ capsule # None =>
       /\ Len(capsule.cache) <= cache_chunks
       /\ \A i, j \in DOMAIN capsule.cache : capsule.cache[i].name = capsule.cache[j].name => i = j
=============================================================================
