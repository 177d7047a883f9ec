--------------------------- MODULE ConsentedActions ---------------------------
(***************************************************************************)
(* ConsentToken, InMemoryFiles, ActionReceipt, PrivateValue,                *)
(* PrivacyReleasePermit and GovernedMemory of holy_fitra_runtime.py: a       *)
(* program moves files, with receipts that take a move back, and remembers   *)
(* values that carry privacy labels; both ask for consents that are good     *)
(* once.                                                                    *)
(*                                                                         *)
(* A consent is leave to do one action once, in a scope, before a time that  *)
(* whoever uses it names.  Finding it good and marking it used are one       *)
(* critical section, so one step.  A hash of the store is the store, and     *)
(* anybody may write to the store.  The program works on one value at a      *)
(* time, which it made, derived or read; the names of the permits in its     *)
(* provenance are kept.  As history, a value keeps the highest label it has  *)
(* had and a receipt the consent and the time of its move.  An operation     *)
(* that raises before it has changed anything is not a step.                 *)
(***************************************************************************)
EXTENDS Integers, Sequences, Functions

CONSTANTS ConsentTokens, NoToken,
          TokenOf,     \* [ConsentTokens -> [action, scope, expires_at, audience]]
          Under,       \* the names that begin with each scope that ends in a slash
          Permits, PermitOf,    \* [Permits -> [source, target, use, expires_at]]
          Uses,                 \* pairs of a destination and a purpose
          StorePaths, FileContents, MemoryKeys, ConsentTimes, Retentions, MaxReceipts

Label == {"public", "private", "sensitive", "secret"}

(* What is assumed of the constants: permits and tokens are told apart, and   *)
(* times are numbers.                                                       *)
ConsentConstants ==
  /\ NoToken \notin ConsentTokens /\ Permits \cap ConsentTokens = {}
  /\ \A t \in ConsentTokens : TokenOf[t].expires_at \in Int
  /\ \A p \in Permits : PermitOf[p].target \in Label /\ PermitOf[p].expires_at \in Int
  /\ ConsentTimes \subseteq Int /\ Retentions \subseteq Int

VARIABLES files,       \* InMemoryFiles.files
          receipts,    \* what move has returned, in order
          value,       \* [label, provenance, highest]
          entries,     \* GovernedMemory.entries
          used         \* the tokens and permits whose used flag is set

consent_vars == <<files, receipts, value, entries, used>>

scope_allows(granted, requested) ==
  \/ granted \in {"*", requested}
  \/ granted \in DOMAIN Under /\ requested \in Under[granted]

(* Variant with a fault: a used token is good again.                        *)
GoodAgain(t, action, scope, now) ==
  t # NoToken => /\ now < TokenOf[t].expires_at /\ action = TokenOf[t].action
                 /\ scope_allows(TokenOf[t].scope, scope) /\ TokenOf[t].audience = "*"

(* What consume asks of an optional token, when the caller names no          *)
(* audience; the token is used from then on.                                *)
Good(t, action, scope, now) ==
  t # NoToken => /\ t \notin used /\ now < TokenOf[t].expires_at /\ action = TokenOf[t].action
                 /\ scope_allows(TokenOf[t].scope, scope) /\ TokenOf[t].audience = "*"

Consume(t, action, scope, now) ==
  Good(t, action, scope, now) /\ used' = used \cup ({t} \ {NoToken})
-----------------------------------------------------------------------------
Rank == [public |-> 0, private |-> 1, sensitive |-> 2, secret |-> 3]
can_flow_to(source, target) == Rank[source] <= Rank[target]

New(l) == [label |-> l, provenance |-> {}, highest |-> l]

ConsentInit == /\ files \in UNION {[P -> FileContents] : P \in SUBSET StorePaths} /\ receipts = <<>>
               /\ value \in {New(l) : l \in Label} /\ entries = <<>> /\ used = {}

(* The store with its file of one path at another.                          *)
Renamed(source, target) ==
  [p \in (DOMAIN files \ {source}) \cup {target} |-> IF p = target THEN files[source] ELSE files[p]]

Move(source, target, consent, now) ==
  /\ Len(receipts) < MaxReceipts
  /\ source \in DOMAIN files /\ target \notin DOMAIN files
  /\ Consume(consent, "files.move", source, now)
  /\ files' = Renamed(source, target)
  /\ receipts' = Append(receipts, [source |-> source, target |-> target, by |-> consent, at |-> now,
                                   before_hash |-> files, after_hash |-> files', undone |-> FALSE])

(* Variant with a fault: only rollback's own checks.                        *)
UndoUnchecked(i) ==
  LET r == receipts[i]
  IN  /\ ~r.undone /\ r.target \in DOMAIN files /\ r.source \notin DOMAIN files
      /\ files' = Renamed(r.target, r.source)
      /\ receipts' = [receipts EXCEPT ![i].undone = TRUE]
      /\ UNCHANGED used

(* ActionReceipt.undo, with rollback.                                       *)
Undo(i) ==
  LET r == receipts[i]
  IN  /\ ~r.undone /\ files = r.after_hash
      /\ r.target \in DOMAIN files /\ r.source \notin DOMAIN files
      /\ files' = Renamed(r.target, r.source)
      /\ receipts' = [receipts EXCEPT ![i].undone = TRUE]
      /\ UNCHANGED used

(* Somebody else writes to the store, which is a public dictionary.         *)
Put(p, c) == files' = [q \in DOMAIN files \cup {p} |-> IF q = p THEN c ELSE files[q]]
Drop(p) == p \in DOMAIN files /\ files' = Restrict(files, DOMAIN files \ {p})

Outside == /\ \E p \in StorePaths : Drop(p) \/ \E c \in FileContents : Put(p, c)
           /\ UNCHANGED <<used, receipts>>
-----------------------------------------------------------------------------
(* The value with another label, and a permit in its provenance or none.    *)
Labelled(l, permits) ==
  [label |-> l, provenance |-> value.provenance \cup permits,
   highest |-> IF can_flow_to(value.highest, l) THEN l ELSE value.highest]

Create(l) == value' = New(l) /\ UNCHANGED <<entries, used>>

Transform(l) == can_flow_to(value.label, l) /\ value' = Labelled(l, {}) /\ UNCHANGED <<entries, used>>

Declassify(p, target, use, now) ==
  /\ p \notin used /\ now < PermitOf[p].expires_at
  /\ PermitOf[p].source = value.label /\ PermitOf[p].target = target /\ PermitOf[p].use = use
  /\ used' = used \cup {p} /\ value' = Labelled(target, {p})
  /\ UNCHANGED entries

Write(k, now, retention_seconds, consent) ==
  /\ value.label = "public" \/ consent # NoToken
  /\ Consume(consent, "memory.write", k, now)
  /\ entries' = [x \in DOMAIN entries \cup {k} |->
                   IF x = k THEN [value |-> value, consent_id |-> consent,
                                  created_at |-> now, expires_at |-> now + retention_seconds]
                   ELSE entries[x]]
  /\ UNCHANGED value

Expired(now) == {k \in DOMAIN entries : now >= entries[k].expires_at}

(* read gives the value, or forgets the entry and raises.                   *)
Read(k, now) ==
  /\ k \in DOMAIN entries
  /\ IF k \in Expired(now)
     THEN entries' = Restrict(entries, DOMAIN entries \ {k}) /\ UNCHANGED value
     ELSE value' = entries[k].value /\ UNCHANGED entries
  /\ UNCHANGED used

purge_expired(now) ==
  /\ Expired(now) # {} /\ entries' = Restrict(entries, DOMAIN entries \ Expired(now))
  /\ UNCHANGED <<value, used>>

(* The two stores know nothing of each other; they share the consents.       *)
StoreNext ==
  /\ \/ \E s, t \in StorePaths, by \in ConsentTokens \cup {NoToken}, now \in ConsentTimes : Move(s, t, by, now)
     \/ \E i \in DOMAIN receipts : Undo(i)
     \/ Outside
  /\ UNCHANGED <<value, entries>>

MemoryNext ==
  /\ \/ \E l \in Label : Create(l) \/ Transform(l)
     \/ \E p \in Permits, l \in Label, u \in Uses, now \in ConsentTimes : Declassify(p, l, u, now)
     \/ \E k \in MemoryKeys, now \in ConsentTimes :
          \/ \E n \in Retentions, t \in ConsentTokens \cup {NoToken} : Write(k, now, n, t)
          \/ Read(k, now)
     \/ \E now \in ConsentTimes : purge_expired(now)
  /\ UNCHANGED <<files, receipts>>

ConsentNext == StoreNext \/ MemoryNext

ConsentSpec == ConsentInit /\ [][ConsentNext]_consent_vars
-----------------------------------------------------------------------------
ConsentTypeOK == /\ DOMAIN files \subseteq StorePaths /\ used \subseteq ConsentTokens \cup Permits
                 /\ \A i \in DOMAIN receipts : receipts[i].by \in ConsentTokens \cup {NoToken}
                 /\ value.label \in Label /\ value.provenance \subseteq Permits /\ DOMAIN entries \subseteq MemoryKeys

(* Token t is leave for an action on a name at a time: of that action, its   *)
(* scope everything, that name or the beginning of it, and not yet expired.  *)
Authorizes(t, action, name, time) ==
  LET s == TokenOf[t].scope
  IN  /\ TokenOf[t].action = action /\ time < TokenOf[t].expires_at
      /\ s \in {"*", name} \/ (s \in DOMAIN Under /\ name \in Under[s])

(* Each consent has moved one file at most, one in its scope and before it    *)
(* expired, and a move that was undone does not give it back.                *)
MovesConsented ==
  /\ {receipts[i].by : i \in DOMAIN receipts} \ {NoToken} \subseteq used
  /\ \A i, j \in DOMAIN receipts : i # j /\ receipts[i].by = receipts[j].by => receipts[i].by = NoToken
  /\ \A i \in DOMAIN receipts : receipts[i].by # NoToken =>
       Authorizes(receipts[i].by, "files.move", receipts[i].source, receipts[i].at)

(* What the program holds and what it remembers is never less private than   *)
(* it was, except down to what a permit that is used up and in its           *)
(* provenance allowed, from the memory and back too.                        *)
LabelsHold ==
  \A v \in {value} \cup {entries[k].value : k \in DOMAIN entries} :
    /\ v.provenance \subseteq used
    /\ \/ v.label = v.highest
       \/ \E p \in v.provenance : can_flow_to(PermitOf[p].target, v.label)

(* Nothing that is not public is remembered without a consent; a consent     *)
(* backs one entry at most, under a key in its scope and written before it    *)
(* expired.                                                                 *)
MemoryConsented ==
  /\ \A k \in DOMAIN entries : entries[k].value.label # "public" => entries[k].consent_id # NoToken
  /\ \A k, l \in DOMAIN entries :
       LET t == entries[k].consent_id
       IN  t # NoToken => /\ t \in used
                          /\ Authorizes(t, "memory.write", k, entries[k].created_at)
                          /\ k # l => entries[l].consent_id # t

(* Consents and permits account for every move, memory and lower label.       *)
ConsentHolds == ConsentTypeOK /\ MovesConsented /\ MemoryConsented /\ LabelsHold

UndoIsExactStep ==
  \A i \in DOMAIN receipts : receipts'[i].undone # receipts[i].undone =>
    files = receipts[i].after_hash /\ files' = receipts[i].before_hash

(* What undoing leaves is exactly what the action found, once, however many  *)
(* moves and writes of others came between.                                 *)
UndoRestores == [][UndoIsExactStep]_consent_vars
=============================================================================
