-------------------------- MODULE LocalLanguageModel --------------------------
(***************************************************************************)
(* The local language models of holyfitra_local_lm.py: CausalBigramLanguageModel *)
(* and CausalNgramLanguageModel, which count the bytes that follow each context, *)
(* and their checkpoints.                                                    *)
(*   Processes fit models, byte by byte, and save and load them at one path.     *)
(* A save writes a temporary file of a fixed name, which two processes may have  *)
(* open at once, and gives it the name of the checkpoint.  A digest is what it    *)
(* is the digest of; smoothing is 1, the greatest there is.                     *)
(***************************************************************************)
EXTENDS Integers, SequencesExt, FiniteSetsExt, TLC

CONSTANTS
  Processes,
  BYTE_VOCAB_SIZE,
  Corpora,              \* sequences of documents, which are sequences of bytes
  order, max_contexts,  \* of an n-gram model; 1..4, and at least 1
  MaxCalls

VARIABLES
  model,       \* of each process
  receipt,     \* the last one each process was given
  call,        \* what each process is doing
  inodes,      \* the contents of the files written so far
  temporary,   \* the inode of that name; 0 for none
  output,      \* and of the checkpoint's
  calls        \* a bound

vars == <<model, receipt, call, inodes, temporary, output, calls>>
-----------------------------------------------------------------------------
Bytes == 0..BYTE_VOCAB_SIZE - 1
BOS_TOKEN == BYTE_VOCAB_SIZE
Kinds == {"bigram", "ngram"}
Zeros == [t \in Bytes |-> 0]
Total(row) == MapThenSumSet(LAMBDA t : row[t], Bytes)

(* A table is a function of contexts: a bigram model has every row there may be. *)
NoRows(kind) == IF kind = "bigram" THEN [c \in {<<b>> : b \in 0..BOS_TOKEN} |-> Zeros] ELSE <<>>
New(kind) == [kind |-> kind, counts |-> NoRows(kind), transitions |-> 0]

Width(kind) == IF kind = "bigram" THEN 1 ELSE order
Cut(kind, history) == SubSeq(history, Len(history) - Min({Width(kind), Len(history)}) + 1, Len(history))

(* The contexts of a history, the longest first: a bigram model has only one.    *)
_contexts(kind, history) ==
  IF kind = "bigram" THEN <<<<Last(history)>>>>
  ELSE LET n == Len(history) IN [k \in 1..Min({order, n}) + 1 |-> SubSeq(history, n - Min({order, n}) + k, n)]

(* A corpus is refused when it, or one of its documents, is empty.             *)
Encodes(corpus) == corpus # <<>> /\ \A d \in DOMAIN corpus : corpus[d] # <<>>
CorpusBytes(corpus) == MapThenSumSet(LAMBDA d : Len(corpus[d]), DOMAIN corpus)

(* A digest is what it is of.                                                 *)
model_sha256(m) == m
Receipt(m, corpus, transitions) ==
  [corpus |-> corpus, model |-> model_sha256(m), corpus_bytes |-> CorpusBytes(corpus), transitions |-> transitions,
   context_rows |-> Cardinality(DOMAIN m.counts)]
LocalLMTrainingReceipt(m, corpus) == [at |-> "fitted"] @@ Receipt(m, corpus, m.transitions)
LocalLMEvaluationReceipt(m, corpus) == [at |-> "evaluated"] @@ Receipt(m, corpus, CorpusBytes(corpus))
-----------------------------------------------------------------------------
Idle == [at |-> "idle"]
At(p, step) == call[p].at = step
Becomes(p, c) == call' = [call EXCEPT ![p] = c]
Raise(p) == Becomes(p, Idle)
Files == UNCHANGED <<inodes, temporary, output>>
Keeps == UNCHANGED <<model, receipt>>
Started(p) == At(p, "idle") /\ calls < MaxCalls /\ calls' = calls + 1

Init ==
  /\ model \in [Processes -> {New(kind) : kind \in Kinds}] /\ receipt = [p \in Processes |-> Idle]
  /\ call = [p \in Processes |-> Idle] /\ inodes = <<>> /\ temporary = 0 /\ output = 0 /\ calls = 0

(* fit: the counts are of a table of its own, which the model gets at the end.    *)
fit(p, corpus) ==
  /\ Started(p) /\ Files /\ Keeps
  /\ IF Encodes(corpus)
     THEN Becomes(p, [at |-> "fit", corpus |-> corpus, d |-> 1, i |-> 1, history |-> <<BOS_TOKEN>>,
                      table |-> NoRows(model[p].kind), transitions |-> 0])
     ELSE Raise(p)

(* _row: a context is given a row unless there are too many.                   *)
Counted(table, contexts, token) ==
  LET row(c) == IF c \in DOMAIN table THEN table[c] ELSE Zeros
      added == [c \in Range(contexts) |-> [row(c) EXCEPT ![token] = @ + 1]]
  IN  added @@ table
TooMany(kind, table) == kind = "ngram" /\ Cardinality(DOMAIN table) > max_contexts

(* The next byte: at the end of a document the history starts anew.             *)
Count(p) ==
  /\ At(p, "fit") /\ Files /\ Keeps /\ UNCHANGED calls
  /\ LET c == call[p]  kind == model[p].kind  token == c.corpus[c.d][c.i]
         table == Counted(c.table, _contexts(kind, c.history), token)
         counted == [c EXCEPT !.table = table, !.transitions = @ + 1]
     IN  IF TooMany(kind, table) THEN Raise(p)
         ELSE IF c.i < Len(c.corpus[c.d])
         THEN Becomes(p, [counted EXCEPT !.i = @ + 1, !.history = Cut(kind, Append(@, token))])
         ELSE IF c.d < Len(c.corpus)
         THEN Becomes(p, [counted EXCEPT !.d = @ + 1, !.i = 1, !.history = <<BOS_TOKEN>>])
         ELSE Becomes(p, [counted EXCEPT !.at = "fitted"])

Fitted(p) ==
  /\ At(p, "fitted") /\ Raise(p) /\ Files /\ UNCHANGED calls
  /\ LET m == [model[p] EXCEPT !.counts = call[p].table, !.transitions = call[p].transitions]
     IN  /\ model' = [model EXCEPT ![p] = m]
         /\ receipt' = [receipt EXCEPT ![p] = LocalLMTrainingReceipt(m, call[p].corpus)]
-----------------------------------------------------------------------------
(* Variant with a fault: shorter contexts weigh as much as the longest.          *)
BackoffPlain(q, row) == [of |-> [t \in Bytes |-> row[t] + q.of[t]], all |-> Total(row) + q.all]

(* Probabilities, of one denominator.  A bigram model smooths its row; an n-gram  *)
(* model starts from even chances and goes from the shortest context it has a row *)
(* for to the longest.                                                       *)
Smoothed(row) == [of |-> [t \in Bytes |-> row[t] + 1], all |-> Total(row) + BYTE_VOCAB_SIZE]
Backoff(q, row) == [of |-> [t \in Bytes |-> row[t] * q.all + q.of[t]], all |-> (Total(row) + 1) * q.all]
Matching(m, history) == SelectSeq(_contexts(m.kind, history), LAMBDA c : c \in DOMAIN m.counts)
_distribution(m, history) ==
  IF m.kind = "bigram" THEN Smoothed(m.counts[<<Last(history)>>])
  ELSE FoldRight(LAMBDA c, q : Backoff(q, m.counts[c]), Matching(m, history),
                 [of |-> [t \in Bytes |-> 1], all |-> BYTE_VOCAB_SIZE])
Ready(m) == m.kind = "bigram" \/ m.transitions > 0

argmax(of) == CHOOSE t \in Bytes : \A u \in Bytes : of[t] > of[u] \/ (of[t] = of[u] /\ t <= u)
Next1(m, history) == argmax(_distribution(m, history).of)

(* The history after n more bytes.                                            *)
generate(m, prompt, n) ==
  LET history == Cut(m.kind, <<BOS_TOKEN>> \o prompt)
      after[k \in 0..n] == IF k = 0 THEN history
                           ELSE LET h == after[k - 1] IN Cut(m.kind, Append(h, Next1(m, h)))
  IN  after[n]

evaluate(p, corpus) ==
  /\ Started(p) /\ Files /\ UNCHANGED <<model, call>>
  /\ receipt' = IF ~Encodes(corpus) \/ ~Ready(model[p]) THEN receipt
                ELSE [receipt EXCEPT ![p] = LocalLMEvaluationReceipt(model[p], corpus)]
-----------------------------------------------------------------------------
(* The rows of a checkpoint: a key is a context, filled up to the order with -1.  *)
Pad == -1
Keyed(m, c) == [key |-> [k \in 1..Width(m.kind) |-> IF k <= Len(c) THEN c[k] ELSE Pad], length |-> Len(c),
                row |-> m.counts[c]]
Checkpoint(m) ==
  [is |-> "checkpoint", schema |-> m.kind, rows |-> {Keyed(m, c) : c \in DOMAIN m.counts},
   transitions |-> m.transitions, model_sha256 |-> model_sha256(m)]

Context(r) == SubSeq(r.key, 1, r.length)
Sound(r) == /\ \A k \in 1..r.length : r.key[k] \in 0..BOS_TOKEN
            /\ \A k \in DOMAIN r.key : k > r.length => r.key[k] = Pad
Table(rows) == [c \in {Context(r) : r \in rows} |-> (CHOOSE r \in rows : Context(r) = c).row]
Decoded(f) == [kind |-> f.schema, counts |-> Table(f.rows), transitions |-> f.transitions]
Loads(f) ==
  /\ f.is = "checkpoint" /\ f.transitions > 0
  /\ f.schema = "ngram" => Cardinality(f.rows) \in 1..max_contexts
  /\ \A r \in f.rows : Sound(r) /\ \A s \in f.rows : Context(r) = Context(s) => r = s
  /\ model_sha256(Decoded(f)) = f.model_sha256

Partial == [is |-> "partial"]
Junk == [is |-> "junk"]

(* save: an n-gram model with no rows has none to stack.  Opening empties the    *)
(* temporary file, whoever else is writing it.                                *)
save(p) ==
  /\ Started(p) /\ Keeps /\ UNCHANGED output
  /\ IF DOMAIN model[p].counts = {} THEN Raise(p) /\ UNCHANGED <<inodes, temporary>>
     ELSE LET handle == IF temporary = 0 THEN Len(inodes) + 1 ELSE temporary
          IN  /\ Becomes(p, [at |-> "write", handle |-> handle]) /\ temporary' = handle
              /\ inodes' = IF temporary = 0 THEN Append(inodes, Partial) ELSE [inodes EXCEPT ![handle] = Partial]

(* What two have written to one file at a time may be anything.                 *)
Shared(p) == \E q \in Processes \ {p} : At(q, "write") /\ call[q].handle = call[p].handle
Write(p) ==
  /\ At(p, "write") /\ Becomes(p, [at |-> "replace"]) /\ Keeps /\ UNCHANGED <<temporary, output, calls>>
  /\ \E written \in {Checkpoint(model[p])} \cup
                    (IF Shared(p) \/ inodes[call[p].handle] # Partial THEN {Junk} ELSE {}) :
       inodes' = [inodes EXCEPT ![call[p].handle] = written]

(* The one who comes second finds no file to rename.                           *)
Replace(p) ==
  /\ At(p, "replace") /\ Raise(p) /\ Keeps /\ UNCHANGED <<inodes, calls>>
  /\ IF temporary = 0 THEN UNCHANGED <<temporary, output>> ELSE output' = temporary /\ temporary' = 0

(* load_local_language_model: the schema says who loads the file, which is read   *)
(* again.                                                                    *)
OnDisk == IF output = 0 THEN Junk ELSE inodes[output]
load_local_language_model(p) ==
  /\ Started(p) /\ Files /\ Keeps
  /\ IF OnDisk.is = "checkpoint" THEN Becomes(p, [at |-> "load", schema |-> OnDisk.schema]) ELSE Raise(p)

load(p) ==
  /\ At(p, "load") /\ Raise(p) /\ Files /\ UNCHANGED <<receipt, calls>>
  /\ model' = IF Loads(OnDisk) /\ OnDisk.schema = call[p].schema THEN [model EXCEPT ![p] = Decoded(OnDisk)] ELSE model

(* A process dies, in the middle of what it writes perhaps.                     *)
Die(p) ==
  /\ ~At(p, "idle") /\ Raise(p) /\ UNCHANGED <<receipt, temporary, output, calls>>
  /\ model' = [model EXCEPT ![p] = New(@.kind)]
  /\ inodes' = IF At(p, "write") THEN [inodes EXCEPT ![call[p].handle] = Junk] ELSE inodes

Next == \E p \in Processes :
  \/ \E corpus \in Corpora : fit(p, corpus) \/ evaluate(p, corpus)
  \/ Count(p) \/ Fitted(p) \/ save(p) \/ Write(p) \/ Replace(p) \/ load_local_language_model(p) \/ load(p) \/ Die(p)

Spec == Init /\ [][Next]_vars
-----------------------------------------------------------------------------
(* How often a context comes before a byte in documents that begin with BOS.     *)
Occurrences(kind, corpus, c, t) ==
  LET Before(d, i) == SubSeq(<<BOS_TOKEN>> \o corpus[d], 1, i)
      Places == UNION {{<<d, i>> : i \in DOMAIN corpus[d]} : d \in DOMAIN corpus}
      Ends(h) == Len(c) <= Len(h) /\ SubSeq(h, Len(h) - Len(c) + 1, Len(h)) = c
  IN  Cardinality({x \in Places : corpus[x[1]][x[2]] = t /\ Ends(Before(x[1], x[2]))})
CountsOf(m, corpus) ==
  /\ \A c \in DOMAIN m.counts : \A t \in Bytes : m.counts[c][t] = Occurrences(m.kind, corpus, c, t)
  /\ m.transitions = CorpusBytes(corpus)
  /\ m.kind = "ngram" => /\ Cardinality(DOMAIN m.counts) <= max_contexts
                         /\ \A c \in DOMAIN m.counts : Total(m.counts[c]) > 0

(* A model, fitted or loaded, has the counts of one corpus, all of them, or is    *)
(* new; a receipt is of the corpus and model it names.                         *)
ModelsHold ==
  /\ \A p \in Processes : \/ model[p] = New(model[p].kind)
                          \/ \E corpus \in Corpora : Encodes(corpus) /\ CountsOf(model[p], corpus)
  /\ \A p \in Processes : LET r == receipt[p] IN
       /\ r.at # "idle" => r.transitions = r.corpus_bytes
       /\ r.at = "fitted" => CountsOf(r.model, r.corpus) /\ r.context_rows = Cardinality(DOMAIN r.model.counts)

(* The longest context decides, then the next, then the smaller byte; a byte of    *)
(* any history has a chance, and the chances add up.                           *)
Prefers(m, history, t, u) ==
  LET cs == Matching(m, history)
      Even(k) == m.counts[cs[k]][t] = m.counts[cs[k]][u]
  IN  \/ \E k \in DOMAIN cs : m.counts[cs[k]][t] > m.counts[cs[k]][u] /\ \A j \in 1..k - 1 : Even(j)
      \/ (\A k \in DOMAIN cs : Even(k)) /\ t < u
Prompts == {<<>>} \cup {<<b>> : b \in Bytes} \cup {<<b, c>> : b, c \in Bytes}
GenerationHolds ==
  \A p \in Processes : Ready(model[p]) => \A prompt \in Prompts :
    LET history == Cut(model[p].kind, <<BOS_TOKEN>> \o prompt)
        q == _distribution(model[p], history)
        next == Last(generate(model[p], prompt, 1))
    IN  /\ \A u \in Bytes \ {next} : Prefers(model[p], history, next, u)
        /\ \A t \in Bytes : q.of[t] > 0
        /\ Total(q.of) = q.all

(* A checkpoint that somebody wrote alone can be loaded, if it is of a fitted     *)
(* model, and gives that model back.                                         *)
CheckpointsHold ==
  \A p \in Processes : model[p].transitions > 0 =>
    Loads(Checkpoint(model[p])) /\ Decoded(Checkpoint(model[p])) = model[p]

LanguageHolds == ModelsHold /\ GenerationHolds /\ CheckpointsHold
=============================================================================
