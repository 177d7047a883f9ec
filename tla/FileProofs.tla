------------------------------- MODULE FileProofs -------------------------------
(***************************************************************************)
(* Proofs about the components that work on files others write to as well:    *)
(* the consented actions, for any tokens, permits, paths and times; the       *)
(* changes of the coding agent, for any plans, providers and files; the       *)
(* caches of the compiler driver, for any builders and digests; the cursor of  *)
(* the telemetry log, for any events and limit.  Each has an inductive        *)
(* invariant of its own, over its own variables.                             *)
(***************************************************************************)
EXTENDS ConsentedActions, WorkspaceChange, BuildCache, TelemetryCursor, SumProofs

Store == UNION {[P -> FileContents] : P \in SUBSET StorePaths}
Receipt == [source : StorePaths, target : StorePaths, by : ConsentTokens \cup {NoToken}, at : Int,
            before_hash : Store, after_hash : Store, undone : BOOLEAN]
Value == [label : Label, provenance : SUBSET Permits, highest : Label]
Entry == [value : Value, consent_id : ConsentTokens \cup {NoToken}, created_at : Int, expires_at : Int]
Memory == UNION {[K -> Entry] : K \in SUBSET MemoryKeys}

ConsentTypes == /\ files \in Store /\ receipts \in Seq(Receipt)
                /\ value \in Value /\ entries \in Memory /\ used \subseteq ConsentTokens \cup Permits

(* A store with its file of one path at another.                            *)
Moved(f, source, target) ==
  [p \in (DOMAIN f \ {source}) \cup {target} |-> IF p = target THEN f[source] ELSE f[p]]

(* A receipt remembers a move as it was made: what undo relies on.            *)
ReceiptsTrue ==
  \A i \in DOMAIN receipts :
    LET r == receipts[i]
    IN  /\ r.source \in DOMAIN r.before_hash /\ r.target \notin DOMAIN r.before_hash
        /\ r.after_hash = Moved(r.before_hash, r.source, r.target)

ConsentInv == ConsentTypes /\ ReceiptsTrue /\ MovesConsented /\ MemoryConsented /\ LabelsHold
-----------------------------------------------------------------------------
LEMMA InStore ==
  ASSUME NEW P \in SUBSET StorePaths, NEW f \in [P -> FileContents]
  PROVE  f \in Store
BY DEF Store

LEMMA StoreFacts ==
  ASSUME NEW f \in Store
  PROVE  /\ DOMAIN f \in SUBSET StorePaths /\ f \in [DOMAIN f -> FileContents]
         /\ \A p \in DOMAIN f : f[p] \in FileContents
BY DEF Store

LEMMA InMemory ==
  ASSUME NEW K \in SUBSET MemoryKeys, NEW m \in [K -> Entry]
  PROVE  m \in Memory
BY DEF Memory

LEMMA MemoryFacts ==
  ASSUME NEW m \in Memory
  PROVE  /\ DOMAIN m \in SUBSET MemoryKeys /\ m \in [DOMAIN m -> Entry]
         /\ \A k \in DOMAIN m : m[k] \in Entry
BY DEF Memory

(* A file that is moved and moved back leaves the store as it was.            *)
LEMMA MovedBack ==
  ASSUME NEW f \in Store, NEW s \in DOMAIN f, NEW t, t \notin DOMAIN f
  PROVE  Moved(Moved(f, s, t), t, s) = f
<1> DEFINE g == Moved(f, s, t)
           h == Moved(g, t, s)
<1>1. s # t
  OBVIOUS
<1>2. /\ DOMAIN g = (DOMAIN f \ {s}) \cup {t} /\ g[t] = f[s]
      /\ \A p \in DOMAIN f \ {s} : g[p] = f[p]
  BY DEF Moved
<1>3. /\ DOMAIN h = (DOMAIN g \ {t}) \cup {s} /\ h[s] = g[t]
      /\ \A p \in DOMAIN g \ {t, s} : h[p] = g[p]
  BY <1>1 DEF Moved
<1>4. DOMAIN h = DOMAIN f
  BY <1>2, <1>3
<1>5. \A p \in DOMAIN f : h[p] = f[p]
  BY <1>1, <1>2, <1>3
<1>6. h = [p \in DOMAIN h |-> h[p]]
  BY DEF Moved
<1>7. f = [p \in DOMAIN f |-> f[p]]
  BY StoreFacts
<1> QED
  BY <1>4, <1>5, <1>6, <1>7

LEMMA MovedIsStore ==
  ASSUME NEW f \in Store, NEW s \in DOMAIN f, NEW t \in StorePaths
  PROVE  Moved(f, s, t) \in Store
<1>1. (DOMAIN f \ {s}) \cup {t} \in SUBSET StorePaths
  BY StoreFacts
<1>2. Moved(f, s, t) \in [(DOMAIN f \ {s}) \cup {t} -> FileContents]
  BY StoreFacts DEF Moved
<1> QED
  BY <1>1, <1>2, InStore

(* A restricted function is the function on fewer arguments.                 *)
LEMMA Restricted ==
  ASSUME NEW f, NEW S
  PROVE  /\ DOMAIN Restrict(f, S) = S
         /\ \A p \in S : Restrict(f, S)[p] = f[p]
         /\ Restrict(f, S) = [p \in S |-> f[p]]
BY DEF Restrict
-----------------------------------------------------------------------------
(* What keeps each part of the invariant.                                   *)
LEMMA MovesKept ==
  ASSUME MovesConsented, DOMAIN receipts' = DOMAIN receipts,
         \A i \in DOMAIN receipts : /\ receipts'[i].by = receipts[i].by
                                    /\ receipts'[i].source = receipts[i].source
                                    /\ receipts'[i].at = receipts[i].at,
         used \subseteq used'
  PROVE  MovesConsented'
BY DEF MovesConsented

LEMMA MemoryKept ==
  ASSUME MemoryConsented, UNCHANGED entries, used \subseteq used'
  PROVE  MemoryConsented'
BY DEF MemoryConsented

LEMMA LabelsKept ==
  ASSUME LabelsHold, UNCHANGED <<value, entries>>, used \subseteq used'
  PROVE  LabelsHold'
BY DEF LabelsHold
-----------------------------------------------------------------------------
LEMMA MoveConsentInv ==
  ASSUME ConsentConstants, ConsentInv, UNCHANGED <<value, entries>>,
         NEW s \in StorePaths, NEW t \in StorePaths, NEW by \in ConsentTokens \cup {NoToken}, NEW now \in ConsentTimes,
         Move(s, t, by, now)
  PROVE  ConsentInv'
<1> DEFINE r == [source |-> s, target |-> t, by |-> by, at |-> now,
                 before_hash |-> files, after_hash |-> files', undone |-> FALSE]
           n == Len(receipts) + 1
<1>1. /\ s \in DOMAIN files /\ t \notin DOMAIN files /\ Good(by, "files.move", s, now)
      /\ used' = used \cup ({by} \ {NoToken}) /\ files' = Moved(files, s, t)
  BY DEF Move, Consume, Renamed, Moved
<1>2. receipts' = Append(receipts, r)
  BY DEF Move
<1>3. files \in Store /\ receipts \in Seq(Receipt)
  BY DEF ConsentInv, ConsentTypes
<1>4. files' \in Store
  BY <1>1, <1>3, MovedIsStore
<1>5. r \in Receipt
  BY <1>3, <1>4 DEF Receipt, ConsentConstants
<1> HIDE DEF r
<1>6. /\ receipts' \in Seq(Receipt) /\ DOMAIN receipts' = DOMAIN receipts \cup {n}
      /\ receipts'[n] = r /\ n \notin DOMAIN receipts
      /\ \A i \in DOMAIN receipts : receipts'[i] = receipts[i]
  BY <1>2, <1>3, <1>5
<1>7. used \subseteq used' /\ used' \subseteq ConsentTokens \cup Permits
  BY <1>1 DEF ConsentInv, ConsentTypes
<1>8. ConsentTypes'
  BY <1>4, <1>6, <1>7 DEF ConsentInv, ConsentTypes
<1>9. ReceiptsTrue'
  <2>1. r.source = s /\ r.target = t /\ r.before_hash = files /\ r.after_hash = files'
    BY DEF r
  <2> QED
    BY <1>1, <1>6, <2>1 DEF ConsentInv, ReceiptsTrue
<1>10. MovesConsented'
  <2>1. r.by = by /\ r.source = s /\ r.at = now
    BY DEF r
  <2>2. by # NoToken => by \notin used /\ Authorizes(by, "files.move", s, now)
    BY <1>1 DEF Good, scope_allows, Authorizes
  <2>3. {receipts'[i].by : i \in DOMAIN receipts'} \ {NoToken} \subseteq used'
    BY <1>1, <1>6, <2>1 DEF ConsentInv, MovesConsented
  <2>4. \A i \in DOMAIN receipts : receipts[i].by # NoToken => receipts[i].by \in used
    BY DEF ConsentInv, MovesConsented
  <2>5. \A i, j \in DOMAIN receipts' : i # j /\ receipts'[i].by = receipts'[j].by => receipts'[i].by = NoToken
    BY <1>6, <2>1, <2>2, <2>4 DEF ConsentInv, MovesConsented
  <2>6. \A i \in DOMAIN receipts' : receipts'[i].by # NoToken =>
          Authorizes(receipts'[i].by, "files.move", receipts'[i].source, receipts'[i].at)
    BY <1>6, <2>1, <2>2 DEF ConsentInv, MovesConsented
  <2> QED
    BY <2>3, <2>5, <2>6 DEF MovesConsented
<1>11. MemoryConsented' /\ LabelsHold'
  BY <1>7, MemoryKept, LabelsKept DEF ConsentInv
<1> QED
  BY <1>8, <1>9, <1>10, <1>11 DEF ConsentInv

LEMMA UndoFacts ==
  ASSUME ConsentInv, NEW i \in DOMAIN receipts, Undo(i)
  PROVE  /\ files = receipts[i].after_hash /\ files' = receipts[i].before_hash
         /\ receipts' = [receipts EXCEPT ![i].undone = TRUE] /\ UNCHANGED used
<1>1. receipts[i] \in Receipt
  BY DEF ConsentInv, ConsentTypes
<1>2. receipts[i].before_hash \in Store
  BY <1>1 DEF Receipt
<1>3. /\ files = receipts[i].after_hash
      /\ files' = Moved(files, receipts[i].target, receipts[i].source)
  BY DEF Undo, Renamed, Moved
<1>4. /\ receipts[i].source \in DOMAIN receipts[i].before_hash
      /\ receipts[i].target \notin DOMAIN receipts[i].before_hash
      /\ receipts[i].after_hash = Moved(receipts[i].before_hash, receipts[i].source, receipts[i].target)
  BY DEF ConsentInv, ReceiptsTrue
<1>5. files' = receipts[i].before_hash
  BY <1>2, <1>3, <1>4, MovedBack
<1> QED
  BY <1>3, <1>5 DEF Undo

LEMMA UndoConsentInv ==
  ASSUME ConsentInv, UNCHANGED <<value, entries>>, NEW i \in DOMAIN receipts, Undo(i)
  PROVE  ConsentInv'
<1>1. receipts \in Seq(Receipt) /\ receipts[i] \in Receipt
  BY DEF ConsentInv, ConsentTypes
<1>2. files' = receipts[i].before_hash /\ UNCHANGED used
  BY UndoFacts
<1>3. receipts' = [receipts EXCEPT ![i] = [receipts[i] EXCEPT !.undone = TRUE]]
  BY <1>1, UndoFacts
<1>4. [receipts[i] EXCEPT !.undone = TRUE] \in Receipt
  BY <1>1 DEF Receipt
<1>5. receipts' \in Seq(Receipt) /\ DOMAIN receipts' = DOMAIN receipts
  BY <1>1, <1>3, <1>4
<1>6. \A j \in DOMAIN receipts :
        /\ receipts'[j].source = receipts[j].source /\ receipts'[j].target = receipts[j].target
        /\ receipts'[j].by = receipts[j].by /\ receipts'[j].at = receipts[j].at
        /\ receipts'[j].before_hash = receipts[j].before_hash
        /\ receipts'[j].after_hash = receipts[j].after_hash
  <2> TAKE j \in DOMAIN receipts
  <2>1. CASE j = i
    <3>1. receipts'[j] = [receipts[i] EXCEPT !.undone = TRUE]
      BY <1>1, <1>3, <2>1
    <3> QED
      BY <1>1, <2>1, <3>1 DEF Receipt
  <2>2. CASE j # i
    BY <1>1, <1>3, <2>2
  <2> QED
    BY <2>1, <2>2
<1>7. ConsentTypes'
  BY <1>1, <1>2, <1>5 DEF ConsentInv, ConsentTypes, Receipt
<1>8. ReceiptsTrue'
  BY <1>5, <1>6 DEF ConsentInv, ReceiptsTrue
<1>9. MovesConsented' /\ MemoryConsented' /\ LabelsHold'
  BY <1>2, <1>5, <1>6, MovesKept, MemoryKept, LabelsKept DEF ConsentInv
<1> QED
  BY <1>7, <1>8, <1>9 DEF ConsentInv

LEMMA OutsideConsentInv ==
  ASSUME ConsentInv, UNCHANGED <<value, entries>>, Outside
  PROVE  ConsentInv'
<1>1. files' \in Store
  <2>1. ASSUME NEW p \in StorePaths, Drop(p) PROVE files' \in Store
    <3>1. files' = [q \in DOMAIN files \ {p} |-> files[q]]
      BY <2>1, Restricted DEF Drop
    <3> QED
      BY <3>1, StoreFacts, InStore DEF ConsentInv, ConsentTypes
  <2>2. ASSUME NEW p \in StorePaths, NEW c \in FileContents, Put(p, c) PROVE files' \in Store
    <3>1. files' = [q \in DOMAIN files \cup {p} |-> IF q = p THEN c ELSE files[q]]
      BY <2>2 DEF Put
    <3>2. files' \in [DOMAIN files \cup {p} -> FileContents] /\ DOMAIN files \cup {p} \in SUBSET StorePaths
      BY <3>1, StoreFacts DEF ConsentInv, ConsentTypes
    <3> QED
      BY <3>2, InStore
  <2> QED
    BY <2>1, <2>2 DEF Outside
<1>2. UNCHANGED <<receipts, used>>
  BY DEF Outside
<1>3. ConsentTypes' /\ ReceiptsTrue'
  BY <1>1, <1>2 DEF ConsentInv, ConsentTypes, ReceiptsTrue
<1> QED
  BY <1>2, <1>3, MovesKept, MemoryKept, LabelsKept DEF ConsentInv
-----------------------------------------------------------------------------
(* The label of v is accounted for when the permits of u are used up.         *)
Honest(v, u) == /\ v.provenance \subseteq u
                /\ \/ v.label = v.highest
                   \/ \E p \in v.provenance : can_flow_to(PermitOf[p].target, v.label)

LEMMA LabelsAreHonest ==
  LabelsHold <=> Honest(value, used) /\ \A k \in DOMAIN entries : Honest(entries[k].value, used)
BY DEF LabelsHold, Honest

LEMMA HonestKept ==
  ASSUME NEW v, NEW u, NEW w, Honest(v, u), u \subseteq w
  PROVE  Honest(v, w)
BY DEF Honest

LEMMA Flows ==
  /\ \A a \in Label : can_flow_to(a, a)
  /\ \A a, b, c \in Label : can_flow_to(a, b) /\ can_flow_to(b, c) => can_flow_to(a, c)
<1>1. \A a \in Label : Rank[a] \in Int
  BY DEF Label, Rank
<1> QED
  BY <1>1 DEF can_flow_to

(* The value with another label is still accounted for, when the label is      *)
(* higher or a permit for it has been used.                                  *)
LEMMA HonestLabelled ==
  ASSUME ConsentConstants, ConsentInv, NEW l \in Label, NEW P \in SUBSET Permits, NEW u,
         Honest(value, used), used \subseteq u, P \subseteq u,
         \/ can_flow_to(value.label, l)
         \/ \E p \in P : can_flow_to(PermitOf[p].target, l)
  PROVE  Labelled(l, P) \in Value /\ Honest(Labelled(l, P), u)
<1> DEFINE v == Labelled(l, P)
<1>1. value \in Value
  BY DEF ConsentInv, ConsentTypes
<1>2. /\ v.label = l /\ v.provenance = value.provenance \cup P
      /\ v.highest = IF can_flow_to(value.highest, l) THEN l ELSE value.highest
  BY DEF Labelled
<1>3. v \in Value
  BY <1>1 DEF Labelled, Value
<1>4. v.provenance \subseteq u
  BY <1>2 DEF Honest
<1>5. CASE \E p \in P : can_flow_to(PermitOf[p].target, l)
  BY <1>2, <1>3, <1>4, <1>5 DEF Honest
<1>6. CASE can_flow_to(value.label, l)
  <2>1. CASE value.label = value.highest
    BY <1>2, <1>3, <1>4, <1>6, <2>1 DEF Honest
  <2>2. CASE \E p \in value.provenance : can_flow_to(PermitOf[p].target, value.label)
    <3>1. PICK p \in value.provenance : can_flow_to(PermitOf[p].target, value.label)
      BY <2>2
    <3>2. p \in Permits /\ PermitOf[p].target \in Label /\ value.label \in Label
      BY <1>1 DEF Value, ConsentConstants
    <3>3. can_flow_to(PermitOf[p].target, l)
      BY <1>6, <3>1, <3>2, Flows
    <3> QED
      BY <1>2, <1>3, <1>4, <3>3 DEF Honest
  <2> QED
    BY <2>1, <2>2 DEF Honest
<1> QED
  BY <1>5, <1>6

(* Steps that change only what the program holds.                           *)
LEMMA ValueConsentInv ==
  ASSUME ConsentInv, UNCHANGED <<files, receipts, entries>>, used \subseteq used',
         used' \subseteq ConsentTokens \cup Permits, value' \in Value, Honest(value', used')
  PROVE  ConsentInv'
<1>1. ConsentTypes' /\ ReceiptsTrue'
  BY DEF ConsentInv, ConsentTypes, ReceiptsTrue
<1>2. MovesConsented' /\ MemoryConsented'
  BY MovesKept, MemoryKept DEF ConsentInv
<1>3. LabelsHold'
  <2>1. \A k \in DOMAIN entries : Honest(entries[k].value, used)
    BY LabelsAreHonest DEF ConsentInv
  <2>2. \A k \in DOMAIN entries' : Honest(entries'[k].value, used')
    BY <2>1, HonestKept
  <2> QED
    BY <2>2 DEF LabelsHold, Honest
<1> QED
  BY <1>1, <1>2, <1>3 DEF ConsentInv

LEMMA CreateConsentInv ==
  ASSUME ConsentInv, UNCHANGED <<files, receipts>>, NEW l \in Label, Create(l)
  PROVE  ConsentInv'
<1>1. value' = New(l) /\ UNCHANGED <<entries, used>>
  BY DEF Create
<1>2. value' \in Value /\ Honest(value', used')
  BY <1>1 DEF New, Value, Honest
<1> QED
  BY <1>1, <1>2, ValueConsentInv DEF ConsentInv, ConsentTypes

LEMMA TransformConsentInv ==
  ASSUME ConsentConstants, ConsentInv, UNCHANGED <<files, receipts>>, NEW l \in Label, Transform(l)
  PROVE  ConsentInv'
<1>1. can_flow_to(value.label, l) /\ value' = Labelled(l, {}) /\ UNCHANGED <<entries, used>>
  BY DEF Transform
<1>2. Honest(value, used)
  BY LabelsAreHonest DEF ConsentInv
<1>3. value' \in Value /\ Honest(value', used')
  BY <1>1, <1>2, HonestLabelled
<1> QED
  BY <1>1, <1>3, ValueConsentInv DEF ConsentInv, ConsentTypes

LEMMA DeclassifyConsentInv ==
  ASSUME ConsentConstants, ConsentInv, UNCHANGED <<files, receipts>>,
         NEW p \in Permits, NEW l \in Label, NEW use, NEW now, Declassify(p, l, use, now)
  PROVE  ConsentInv'
<1>1. /\ PermitOf[p].target = l /\ used' = used \cup {p}
      /\ value' = Labelled(l, {p}) /\ UNCHANGED entries
  BY DEF Declassify
<1>2. Honest(value, used)
  BY LabelsAreHonest DEF ConsentInv
<1>3. can_flow_to(PermitOf[p].target, l)
  BY <1>1, Flows
<1>4. value' \in Value /\ Honest(value', used')
  BY <1>1, <1>2, <1>3, HonestLabelled
<1> QED
  BY <1>1, <1>4, ValueConsentInv DEF ConsentInv, ConsentTypes
-----------------------------------------------------------------------------
LEMMA WriteConsentInv ==
  ASSUME ConsentConstants, ConsentInv, UNCHANGED <<files, receipts>>,
         NEW k \in MemoryKeys, NEW now \in ConsentTimes, NEW n \in Retentions, NEW t \in ConsentTokens \cup {NoToken},
         Write(k, now, n, t)
  PROVE  ConsentInv'
<1> DEFINE e == [value |-> value, consent_id |-> t, created_at |-> now, expires_at |-> now + n]
<1>1. /\ value.label = "public" \/ t # NoToken
      /\ Good(t, "memory.write", k, now) /\ used' = used \cup ({t} \ {NoToken})
      /\ UNCHANGED value
  BY DEF Write, Consume
<1>2. entries' = [x \in DOMAIN entries \cup {k} |-> IF x = k THEN e ELSE entries[x]]
  BY DEF Write
<1>3. e \in Entry
  <2>1. now \in Int /\ n \in Int
    BY DEF ConsentConstants
  <2>2. value \in Value
    BY DEF ConsentInv, ConsentTypes
  <2> QED
    BY ONLY <2>1, <2>2, t \in ConsentTokens \cup {NoToken} DEF Entry
<1>4. e.value = value /\ e.consent_id = t /\ e.created_at = now
  OBVIOUS
<1> HIDE DEF e
<1>5. /\ DOMAIN entries' = DOMAIN entries \cup {k} /\ entries'[k] = e
      /\ \A x \in DOMAIN entries \ {k} : entries'[x] = entries[x]
  BY <1>2
<1>6. entries' \in Memory
  <2>1. DOMAIN entries \cup {k} \in SUBSET MemoryKeys
    BY MemoryFacts DEF ConsentInv, ConsentTypes
  <2>2. entries' \in [DOMAIN entries \cup {k} -> Entry]
    BY <1>2, <1>3, MemoryFacts DEF ConsentInv, ConsentTypes
  <2> QED
    BY <2>1, <2>2, InMemory
<1>7. used \subseteq used' /\ used' \subseteq ConsentTokens \cup Permits
  BY <1>1 DEF ConsentInv, ConsentTypes
<1>8. ConsentTypes' /\ ReceiptsTrue'
  BY <1>1, <1>6, <1>7 DEF ConsentInv, ConsentTypes, ReceiptsTrue
<1>9. MovesConsented'
  BY <1>7, MovesKept DEF ConsentInv
<1>10. MemoryConsented'
  <2>1. t # NoToken => t \notin used /\ Authorizes(t, "memory.write", k, now)
    BY <1>1 DEF Good, scope_allows, Authorizes
  <2>2. \A x \in DOMAIN entries :
          LET c == entries[x].consent_id
          IN  c # NoToken => c \in used /\ Authorizes(c, "memory.write", x, entries[x].created_at)
    BY DEF ConsentInv, MemoryConsented
  <2>3. \A x, y \in DOMAIN entries : x # y /\ entries[x].consent_id # NoToken =>
          entries[y].consent_id # entries[x].consent_id
    BY DEF ConsentInv, MemoryConsented
  <2>4. \A x \in DOMAIN entries' : entries'[x].value.label # "public" => entries'[x].consent_id # NoToken
    BY <1>1, <1>4, <1>5 DEF ConsentInv, MemoryConsented
  <2>5. \A x \in DOMAIN entries' :
          LET c == entries'[x].consent_id
          IN  c # NoToken => c \in used' /\ Authorizes(c, "memory.write", x, entries'[x].created_at)
    BY <1>1, <1>4, <1>5, <2>1, <2>2
  <2>6. \A x, y \in DOMAIN entries' : x # y /\ entries'[x].consent_id # NoToken =>
          entries'[y].consent_id # entries'[x].consent_id
    <3> SUFFICES ASSUME NEW x \in DOMAIN entries', NEW y \in DOMAIN entries', x # y,
                        entries'[x].consent_id # NoToken
                 PROVE  entries'[y].consent_id # entries'[x].consent_id
      OBVIOUS
    <3>1. CASE x # k /\ y # k
      BY <1>5, <2>3, <3>1
    <3>2. CASE x = k
      BY <1>4, <1>5, <2>1, <2>2, <3>2
    <3>3. CASE y = k
      BY <1>4, <1>5, <2>1, <2>2, <3>3
    <3> QED
      BY <3>1, <3>2, <3>3
  <2> QED
    BY <2>4, <2>5, <2>6 DEF MemoryConsented
<1>11. LabelsHold'
  <2>1. Honest(value, used) /\ \A x \in DOMAIN entries : Honest(entries[x].value, used)
    BY LabelsAreHonest DEF ConsentInv
  <2>2. Honest(value', used') /\ \A x \in DOMAIN entries' : Honest(entries'[x].value, used')
    BY <1>1, <1>4, <1>5, <1>7, <2>1, HonestKept
  <2> QED
    BY <2>2 DEF LabelsHold, Honest
<1> QED
  BY <1>8, <1>9, <1>10, <1>11 DEF ConsentInv

(* Forgetting entries disturbs nothing.                                     *)
LEMMA ForgetConsentInv ==
  ASSUME ConsentInv, UNCHANGED <<files, receipts, value, used>>, NEW S \in SUBSET DOMAIN entries,
         entries' = Restrict(entries, S)
  PROVE  ConsentInv'
<1>1. DOMAIN entries' = S /\ \A k \in S : entries'[k] = entries[k]
  BY Restricted
<1>2. entries' \in Memory
  <2>1. S \in SUBSET MemoryKeys /\ \A k \in S : entries[k] \in Entry
    BY MemoryFacts DEF ConsentInv, ConsentTypes
  <2>2. entries' \in [S -> Entry]
    BY <2>1, Restricted
  <2> QED
    BY <2>1, <2>2, InMemory
<1>3. ConsentTypes' /\ ReceiptsTrue'
  BY <1>2 DEF ConsentInv, ConsentTypes, ReceiptsTrue
<1>4. MovesConsented'
  BY MovesKept DEF ConsentInv
<1>5. MemoryConsented'
  BY <1>1 DEF ConsentInv, MemoryConsented
<1>6. LabelsHold'
  <2>1. Honest(value, used) /\ \A x \in DOMAIN entries : Honest(entries[x].value, used)
    BY LabelsAreHonest DEF ConsentInv
  <2>2. Honest(value', used') /\ \A x \in DOMAIN entries' : Honest(entries'[x].value, used')
    BY <1>1, <2>1
  <2> QED
    BY <2>2 DEF LabelsHold, Honest
<1> QED
  BY <1>3, <1>4, <1>5, <1>6 DEF ConsentInv

LEMMA ReadConsentInv ==
  ASSUME ConsentInv, UNCHANGED <<files, receipts>>, NEW k \in MemoryKeys, NEW now, Read(k, now)
  PROVE  ConsentInv'
<1>1. k \in DOMAIN entries /\ UNCHANGED used
  BY DEF Read
<1>2. CASE k \in Expired(now)
  <2>1. entries' = Restrict(entries, DOMAIN entries \ {k}) /\ UNCHANGED value
    BY <1>2 DEF Read
  <2> QED
    BY <1>1, <2>1, ForgetConsentInv
<1>3. CASE k \notin Expired(now)
  <2>1. value' = entries[k].value /\ UNCHANGED entries
    BY <1>3 DEF Read
  <2>2. value' \in Value
    BY <1>1, <2>1, MemoryFacts DEF ConsentInv, ConsentTypes, Entry
  <2>3. Honest(value', used')
    BY <1>1, <2>1, LabelsAreHonest DEF ConsentInv
  <2> QED
    BY <1>1, <2>1, <2>2, <2>3, ValueConsentInv DEF ConsentInv, ConsentTypes
<1> QED
  BY <1>2, <1>3

LEMMA PurgeConsentInv ==
  ASSUME ConsentInv, UNCHANGED <<files, receipts>>, NEW now, purge_expired(now)
  PROVE  ConsentInv'
BY ForgetConsentInv DEF purge_expired
-----------------------------------------------------------------------------
LEMMA InitConsentInv ==
  ASSUME ConsentInit
  PROVE  ConsentInv
<1>1. ConsentTypes
  <2>1. entries \in Memory
    <3>1. <<>> \in [{} -> Entry]
      OBVIOUS
    <3> QED
      BY <3>1, InMemory DEF ConsentInit
  <2> QED
    BY <2>1 DEF ConsentInit, ConsentTypes, Store, New, Value
<1>2. ReceiptsTrue /\ MovesConsented /\ MemoryConsented
  BY DEF ConsentInit, ReceiptsTrue, MovesConsented, MemoryConsented
<1>3. LabelsHold
  BY DEF ConsentInit, New, LabelsHold
<1> QED
  BY <1>1, <1>2, <1>3 DEF ConsentInv

LEMMA NextConsentInv ==
  ASSUME ConsentConstants, ConsentInv, [ConsentNext]_consent_vars
  PROVE  ConsentInv'
<1>1. CASE UNCHANGED consent_vars
  BY <1>1 DEF consent_vars, ConsentInv, ConsentTypes, ReceiptsTrue, MovesConsented, MemoryConsented, LabelsHold
<1>2. CASE StoreNext
  <2>1. UNCHANGED <<value, entries>>
    BY <1>2 DEF StoreNext
  <2> QED
    BY <1>2, <2>1, MoveConsentInv, UndoConsentInv, OutsideConsentInv DEF StoreNext
<1>3. CASE MemoryNext
  <2>1. UNCHANGED <<files, receipts>>
    BY <1>3 DEF MemoryNext
  <2> QED
    BY <1>3, <2>1, CreateConsentInv, TransformConsentInv, DeclassifyConsentInv, WriteConsentInv, ReadConsentInv,
       PurgeConsentInv
    DEF MemoryNext
<1> QED
  BY <1>1, <1>2, <1>3 DEF ConsentNext

(* The inductive invariant holds of every state.                             *)
THEOREM ConsentInvariance == ASSUME ConsentConstants PROVE ConsentSpec => []ConsentInv
<1>1. ConsentInit => ConsentInv
  BY InitConsentInv
<1>2. ConsentInv /\ [ConsentNext]_consent_vars => ConsentInv'
  BY NextConsentInv
<1> QED
  BY <1>1, <1>2, PTL DEF ConsentSpec

(* Each consent backs one move or one memory at most, in its scope and time,   *)
(* an undo does not give it back, and nothing is less private than its highest *)
(* label but by a permit that is used up: through any order of moves, undos,   *)
(* writes of others, memories, reads and purges.                             *)
THEOREM ConsentIsKept == ASSUME ConsentConstants PROVE ConsentSpec => []ConsentHolds
<1>1. ConsentInv => ConsentHolds
  <2> SUFFICES ASSUME ConsentInv PROVE ConsentHolds
    OBVIOUS
  <2>1. DOMAIN files \subseteq StorePaths /\ DOMAIN entries \subseteq MemoryKeys
    BY StoreFacts, MemoryFacts DEF ConsentInv, ConsentTypes
  <2>2. \A i \in DOMAIN receipts : receipts[i].by \in ConsentTokens \cup {NoToken}
    <3>1. \A i \in DOMAIN receipts : receipts[i] \in Receipt
      BY DEF ConsentInv, ConsentTypes
    <3> QED
      BY <3>1 DEF Receipt
  <2>3. value.label \in Label /\ value.provenance \subseteq Permits
    BY DEF ConsentInv, ConsentTypes, Value
  <2>4. ConsentTypeOK
    BY <2>1, <2>2, <2>3 DEF ConsentInv, ConsentTypes, ConsentTypeOK
  <2> QED
    BY <2>4 DEF ConsentInv, ConsentHolds
<1> QED
  BY <1>1, ConsentInvariance, PTL

(* An undo that is accepted leaves exactly the store its action found.         *)
THEOREM UndoIsExact == ASSUME ConsentConstants PROVE ConsentSpec => UndoRestores
<1>1. ConsentInv /\ [ConsentNext]_consent_vars => [UndoIsExactStep]_consent_vars
  <2> SUFFICES ASSUME ConsentInv, ConsentNext PROVE UndoIsExactStep
    OBVIOUS
  <2>1. CASE UNCHANGED receipts
    BY <2>1 DEF UndoIsExactStep
  <2>2. ASSUME NEW s, NEW t, NEW by, NEW now, Move(s, t, by, now) PROVE UndoIsExactStep
    <3>1. PICK r : receipts' = Append(receipts, r)
      BY <2>2 DEF Move
    <3>2. \A i \in DOMAIN receipts : receipts'[i] = receipts[i]
      BY <3>1 DEF ConsentInv, ConsentTypes
    <3> QED
      BY <3>2 DEF UndoIsExactStep
  <2>3. ASSUME NEW i \in DOMAIN receipts, Undo(i) PROVE UndoIsExactStep
    <3>1. /\ files = receipts[i].after_hash /\ files' = receipts[i].before_hash
          /\ receipts' = [receipts EXCEPT ![i].undone = TRUE]
      BY <2>3, UndoFacts
    <3>2. \A j \in DOMAIN receipts : j # i => receipts'[j] = receipts[j]
      BY <3>1 DEF ConsentInv, ConsentTypes
    <3> QED
      BY <3>1, <3>2 DEF UndoIsExactStep
  <2> QED
    BY <2>1, <2>2, <2>3 DEF ConsentNext, StoreNext, MemoryNext, Outside
<1> QED
  BY <1>1, ConsentInvariance, PTL DEF ConsentSpec, UndoRestores
-----------------------------------------------------------------------------
Content == Texts \cup {NoFile}
RunRecord == [status : {"running"}, from : {"packet", "run", "round"}, plan : Plans, next : Nat,
              backups : UNION {[P -> Content] : P \in SUBSET AllFiles},
              before : [AllFiles -> Content], checked : [AllFiles -> Content] \cup {<<>>},
              others : SUBSET AllFiles]

(* The i-th action writes p, and is the last of those done that does.        *)
WritesTo(plan, i, p) == IsWrite(plan[i]) /\ plan[i].path = p
LastDone(r, i, p) == /\ i \in 1..(r.next - 1) /\ WritesTo(r.plan, i, p)
                     /\ \A j \in (i + 1)..(r.next - 1) : ~WritesTo(r.plan, j, p)

Mine(r) == AllFiles \ r.others
BackupsTrue(r, fs) ==
  \A p \in Mine(r) : IF p \in DOMAIN r.backups THEN r.backups[p] = r.before[p] ELSE fs[p] = r.before[p]
WritesStand(r, fs) ==
  \A p \in Mine(r), i \in 1..(r.next - 1) : LastDone(r, i, p) => fs[p] = r.plan[i].content
ChecksStand(r) ==
  \A p \in Mine(r), i, k \in 1..(r.next - 1) :
    LastDone(r, i, p) /\ i < k /\ IsCheck(r.plan[k]) => r.checked[p] = r.plan[i].content

RunOK(r, fs) == /\ r \in RunRecord /\ r.next \in 1..(Len(r.plan) + 1) /\ review_plan(r.plan)
                /\ BackupsTrue(r, fs) /\ WritesStand(r, fs) /\ ChecksStand(r)

(* What nobody edited since a plan was shown is as it was, and a digest that   *)
(* reached every file it might have has that of each.                        *)
Previewed == [status : {"inspected"}, plan : Plans, seen : [AllFiles -> Content], edited : SUBSET AllFiles]
PreviewOK ==
  packet.status = "inspected" =>
    run = Nothing /\ packet \in Previewed /\ \A p \in AllFiles \ packet.edited : workspace[p] = packet.seen[p]
Digested(p) == Readable(packet.seen, p) => p \in DOMAIN packet.digest /\ packet.digest[p] = packet.seen[p]
DigestOK ==
  packet.status = "saved" =>
    packet.plan \in Plans /\ (packet.whole => \A p \in AllFiles \ packet.edited : Digested(p))

FromPacket ==
  run # Nothing /\ run.from = "packet" =>
    packet.status = "saved" /\ workspace_digest(run.before) = packet.digest

WorkspaceInv == /\ workspace \in [AllFiles -> Content] /\ round \in 0..MaxRounds
                /\ run # Nothing => RunOK(run, workspace)
                /\ PreviewOK /\ DigestOK /\ FromPacket /\ ChangesAreWhole
-----------------------------------------------------------------------------
LEMMA PlanTypes ==
  ASSUME NEW plan \in Plans
  PROVE  /\ Len(plan) \in Nat /\ DOMAIN plan = 1..Len(plan)
         /\ \A i \in 1..Len(plan) : IsWrite(plan[i]) => plan[i].path \in AllFiles /\ plan[i].content \in Texts
         /\ \A i \in 1..Len(plan) : IsWrite(plan[i]) => ~IsCheck(plan[i])
<1> DEFINE Actions == [kind : {"write_file"}, path : AllFiles, content : Texts]
                        \cup [kind : {"read_file"}, path : AllFiles] \cup [kind : {"run_check", "finish"}]
<1>1. plan \in Seq(Actions)
  BY WorkspaceAssumption
<1>2. \A a \in Actions : IsWrite(a) => a.path \in AllFiles /\ a.content \in Texts /\ ~IsCheck(a)
  BY DEF IsWrite, IsCheck
<1> HIDE DEF Actions
<1> QED
  BY <1>1, <1>2

(* A set of positions that is not empty has a greatest one.                   *)
LEMMA MaxIsGreatest ==
  ASSUME NEW n \in Nat, NEW S \in SUBSET (0..n), S # {}
  PROVE  Max(S) \in S /\ \A j \in S : Max(S) >= j
<1> DEFINE below == {n - j : j \in S}
<1>1. below \subseteq Nat /\ below # {}
  <2>1. ASSUME NEW j \in S PROVE n - j \in Nat
    BY j \in 0..n
  <2> QED
    BY <2>1
<1>2. PICK m \in below : \A j \in below : m <= j
  <2> HIDE DEF below
  <2> QED
    BY <1>1, HasLeast
<1>3. PICK x \in S : m = n - x
  BY <1>2
<1>4. \A j \in S : x >= j
  <2>1. ASSUME NEW j \in S PROVE x >= j
    <3>1. m <= n - j /\ x \in 0..n /\ j \in 0..n
      BY <1>2
    <3> QED
      BY <1>3, <3>1
  <2> QED
    BY <2>1
<1> QED
  BY <1>4 DEF Max

(* A run that begins has nothing to take back.                               *)
LEMMA StartOK ==
  ASSUME workspace \in [AllFiles -> Content], NEW plan \in Plans, NEW from \in {"packet", "run", "round"},
         review_plan(plan), Start(plan, from)
  PROVE  /\ run' # Nothing /\ RunOK(run', workspace) /\ run'.from = from /\ run'.before = workspace
<1>1. run' = [status |-> "running", from |-> from, plan |-> plan, next |-> 1, backups |-> <<>>,
              before |-> workspace, checked |-> <<>>, others |-> {}]
  BY DEF Start
<1>2. <<>> \in UNION {[P -> Content] : P \in SUBSET AllFiles} /\ DOMAIN <<>> = {}
  <2>1. <<>> \in [{} -> Content]
    OBVIOUS
  <2> QED
    BY <2>1
<1>3. run' \in RunRecord
  BY <1>1, <1>2 DEF RunRecord
<1>4. run'.next = 1 /\ run'.backups = <<>> /\ run'.plan = plan /\ run'.before = workspace /\ run'.from = from
      /\ run'.status = "running"
  BY <1>1
<1>5. run' # Nothing
  BY <1>4 DEF Nothing
<1>6. 1..(run'.next - 1) = {} /\ run'.next \in 1..(Len(run'.plan) + 1)
  BY <1>4, PlanTypes
<1>7. BackupsTrue(run', workspace)
  BY <1>2, <1>4 DEF BackupsTrue
<1> QED
  BY <1>3, <1>4, <1>5, <1>6, <1>7 DEF RunOK, WritesStand, ChecksStand

(* Another action done, which writes nothing.                                *)
LEMMA AdvanceOK ==
  ASSUME NEW r \in RunRecord, NEW s \in RunRecord, NEW fs \in [AllFiles -> Content], RunOK(r, fs),
         r.next <= Len(r.plan), ~IsWrite(r.plan[r.next]),
         s.plan = r.plan, s.next = r.next + 1, s.backups = r.backups, s.before = r.before,
         s.others = r.others,
         IF IsCheck(r.plan[r.next]) THEN s.checked = fs ELSE s.checked = r.checked
  PROVE  RunOK(s, fs)
<1>1. /\ r.next \in 1..Len(r.plan) /\ s.next \in 1..(Len(s.plan) + 1) /\ s.next - 1 = r.next
      /\ Len(r.plan) \in Nat /\ r.next \in Nat
  BY PlanTypes DEF RunOK, RunRecord
<1>2. ASSUME NEW p \in Mine(s), NEW i \in 1..(s.next - 1), LastDone(s, i, p)
      PROVE  i \in 1..(r.next - 1) /\ LastDone(r, i, p)
  <2>1. i # r.next
    BY <1>2 DEF LastDone, WritesTo
  <2>2. i \in 1..(r.next - 1)
    BY <1>1, <1>2, <2>1
  <2> QED
    BY <1>1, <1>2, <2>2 DEF LastDone
<1>3. WritesStand(s, fs)
  BY <1>2 DEF WritesStand, RunOK, Mine
<1>4. ASSUME NEW p \in Mine(s), NEW i \in 1..(s.next - 1), NEW k \in 1..(s.next - 1),
             LastDone(s, i, p), i < k, IsCheck(s.plan[k])
      PROVE  s.checked[p] = s.plan[i].content
  <2>1. p \in Mine(r) /\ i \in 1..(r.next - 1) /\ LastDone(r, i, p) /\ s.plan = r.plan
    BY <1>2, <1>4 DEF Mine
  <2>2. fs[p] = r.plan[i].content
    BY <2>1 DEF RunOK, WritesStand
  <2>3. CASE k = r.next
    BY <1>4, <2>1, <2>2, <2>3
  <2>4. CASE k # r.next
    <3>1. k \in 1..(r.next - 1)
      BY <1>1, <1>4, <2>4
    <3>2. r.checked[p] = r.plan[i].content
      BY <1>4, <2>1, <3>1 DEF RunOK, ChecksStand
    <3> QED
      BY <2>1, <2>2, <3>2
  <2> QED
    BY <2>3, <2>4
<1>5. ChecksStand(s)
  BY <1>4 DEF ChecksStand
<1>6. BackupsTrue(s, fs) /\ review_plan(s.plan)
  BY DEF RunOK, BackupsTrue, Mine
<1> QED
  BY <1>1, <1>3, <1>5, <1>6 DEF RunOK

(* A write done, with the backup of what it replaces.                        *)
LEMMA WriteOK ==
  ASSUME NEW r \in RunRecord, NEW s \in RunRecord, NEW fs \in [AllFiles -> Content], RunOK(r, fs),
         r.next <= Len(r.plan), NEW a, a = r.plan[r.next], IsWrite(a),
         s.plan = r.plan, s.next = r.next + 1, s.before = r.before, s.others = r.others,
         s.checked = r.checked,
         s.backups = [p \in DOMAIN r.backups \cup {a.path} |->
                        IF p \in DOMAIN r.backups THEN r.backups[p] ELSE fs[p]]
  PROVE  RunOK(s, [fs EXCEPT ![a.path] = a.content])
<1> DEFINE gs == [fs EXCEPT ![a.path] = a.content]
<1>1. /\ r.next \in 1..Len(r.plan) /\ s.next \in 1..(Len(s.plan) + 1) /\ s.next - 1 = r.next
      /\ Len(r.plan) \in Nat /\ r.next \in Nat /\ r.plan \in Plans
  BY PlanTypes DEF RunOK, RunRecord
<1>2. a.path \in AllFiles /\ a.content \in Texts /\ ~IsCheck(a)
  BY <1>1, PlanTypes
<1>3. gs[a.path] = a.content /\ \A p \in AllFiles \ {a.path} : gs[p] = fs[p]
  BY <1>2
<1> HIDE DEF gs
<1>4. ASSUME NEW p \in Mine(s), NEW i \in 1..(s.next - 1), LastDone(s, i, p)
      PROVE  \/ p = a.path /\ i = r.next
             \/ p # a.path /\ i \in 1..(r.next - 1) /\ LastDone(r, i, p)
  <2>1. CASE p = a.path
    <3>1. WritesTo(s.plan, r.next, p)
      BY <2>1 DEF WritesTo
    <3>2. ~(r.next \in (i + 1)..(s.next - 1))
      BY <1>4, <3>1 DEF LastDone
    <3> QED
      BY <1>1, <1>4, <2>1, <3>2
  <2>2. CASE p # a.path
    <3>1. i # r.next
      BY <1>4, <2>2 DEF LastDone, WritesTo
    <3>2. i \in 1..(r.next - 1)
      BY <1>1, <1>4, <3>1
    <3> QED
      BY <1>1, <1>4, <2>2, <3>2 DEF LastDone
  <2> QED
    BY <2>1, <2>2
<1>5. WritesStand(s, gs)
  <2> SUFFICES ASSUME NEW p \in Mine(s), NEW i \in 1..(s.next - 1), LastDone(s, i, p)
               PROVE  gs[p] = s.plan[i].content
    BY DEF WritesStand
  <2>1. CASE p = a.path /\ i = r.next
    BY <1>3, <2>1
  <2>2. CASE p # a.path /\ i \in 1..(r.next - 1) /\ LastDone(r, i, p)
    <3>1. p \in Mine(r) /\ p \in AllFiles \ {a.path}
      BY <2>2 DEF Mine
    <3>2. fs[p] = r.plan[i].content
      BY <2>2, <3>1 DEF RunOK, WritesStand
    <3> QED
      BY <1>3, <3>1, <3>2
  <2> QED
    BY <1>4, <2>1, <2>2
<1>6. ChecksStand(s)
  <2> SUFFICES ASSUME NEW p \in Mine(s), NEW i \in 1..(s.next - 1), NEW k \in 1..(s.next - 1),
                      LastDone(s, i, p), i < k, IsCheck(s.plan[k])
               PROVE  s.checked[p] = s.plan[i].content
    BY DEF ChecksStand
  <2>1. k # r.next /\ k \in 1..(r.next - 1)
    BY <1>1, <1>2
  <2>2. i # r.next
    BY <1>1, <2>1
  <2>3. p \in Mine(r) /\ i \in 1..(r.next - 1) /\ LastDone(r, i, p)
    BY <1>4, <2>2 DEF Mine
  <2>4. IsCheck(r.plan[k]) /\ ChecksStand(r)
    BY DEF RunOK
  <2>5. r.checked[p] = r.plan[i].content
    BY <2>1, <2>3, <2>4 DEF ChecksStand
  <2> QED
    BY <2>5
<1>7. BackupsTrue(s, gs)
  <2> SUFFICES ASSUME NEW p \in Mine(s)
               PROVE  IF p \in DOMAIN s.backups THEN s.backups[p] = s.before[p] ELSE gs[p] = s.before[p]
    BY DEF BackupsTrue
  <2>1. p \in Mine(r) /\ p \in AllFiles
    BY DEF Mine
  <2>2. IF p \in DOMAIN r.backups THEN r.backups[p] = r.before[p] ELSE fs[p] = r.before[p]
    BY <2>1 DEF RunOK, BackupsTrue
  <2>3. DOMAIN s.backups = DOMAIN r.backups \cup {a.path}
    OBVIOUS
  <2>4. CASE p \in DOMAIN r.backups
    BY <2>2, <2>4
  <2>5. CASE p \notin DOMAIN r.backups /\ p = a.path
    BY <2>2, <2>5
  <2>6. CASE p \notin DOMAIN r.backups /\ p # a.path
    BY <1>3, <2>1, <2>2, <2>3, <2>6
  <2> QED
    BY <2>4, <2>5, <2>6
<1>8. review_plan(s.plan)
  BY DEF RunOK
<1> QED
  BY <1>1, <1>5, <1>6, <1>7, <1>8 DEF RunOK, gs

(* Somebody else writes a file, which is no longer the run's to answer for.   *)
LEMMA OthersOK ==
  ASSUME NEW r \in RunRecord, NEW fs \in [AllFiles -> Content], RunOK(r, fs),
         NEW p \in AllFiles, NEW c \in Content
  PROVE  RunOK([r EXCEPT !.others = @ \cup {p}], [fs EXCEPT ![p] = c])
<1> DEFINE s == [r EXCEPT !.others = @ \cup {p}]
           gs == [fs EXCEPT ![p] = c]
<1>1. /\ s \in RunRecord /\ s.others = r.others \cup {p}
      /\ s.plan = r.plan /\ s.next = r.next /\ s.backups = r.backups /\ s.before = r.before
      /\ s.checked = r.checked
  BY DEF RunRecord
<1>2. Mine(s) \subseteq Mine(r) /\ \A q \in Mine(s) : gs[q] = fs[q]
  BY <1>1 DEF Mine
<1>3. \A i, q : LastDone(s, i, q) => LastDone(r, i, q)
  BY <1>1 DEF LastDone
<1> HIDE DEF s, gs
<1>4. BackupsTrue(s, gs)
  BY <1>1, <1>2 DEF BackupsTrue, RunOK
<1>5. WritesStand(s, gs)
  BY <1>1, <1>2, <1>3 DEF WritesStand, RunOK
<1>6. ChecksStand(s)
  BY <1>1, <1>2, <1>3 DEF ChecksStand, RunOK
<1> QED
  BY <1>1, <1>4, <1>5, <1>6 DEF RunOK, s, gs

(* A plan that was done passed its last check on what it wrote last.          *)
LEMMA DoneAsChecked ==
  ASSUME NEW r \in RunRecord, NEW fs \in [AllFiles -> Content], RunOK(r, fs), r.next > Len(r.plan),
         NEW p \in Written(r.plan) \ r.others
  PROVE  r.checked[p] = FinalWrite(r.plan, p)
<1> DEFINE n == Len(r.plan)
           writes == {i \in DOMAIN r.plan : IsWrite(r.plan[i])}
           checks == {i \in DOMAIN r.plan : IsCheck(r.plan[i])}
           own == {i \in DOMAIN r.plan : IsWrite(r.plan[i]) /\ r.plan[i].path = p}
           i == Max(own)
           k == Max({0} \cup checks)
<1>1. n \in Nat /\ DOMAIN r.plan = 1..n /\ r.plan \in Plans /\ r.next - 1 = n
  BY PlanTypes DEF RunOK, RunRecord
<1>2. own # {} /\ own \subseteq 1..n /\ p \in AllFiles
  <2>1. PICK j \in DOMAIN r.plan : IsWrite(r.plan[j]) /\ r.plan[j].path = p
    BY DEF Written
  <2> QED
    BY <1>1, <2>1, PlanTypes
<1>3. i \in own /\ \A j \in own : i >= j
  <2>1. own \in SUBSET (0..n)
    BY <1>1, <1>2
  <2> HIDE DEF own
  <2> QED
    BY <1>1, <1>2, <2>1, MaxIsGreatest
<1>4. Max({0} \cup writes) > 0 => Max({0} \cup checks) > Max({0} \cup writes)
  BY DEF RunOK, review_plan
<1>5. /\ Max({0} \cup writes) \in {0} \cup writes /\ \A j \in {0} \cup writes : Max({0} \cup writes) >= j
      /\ k \in {0} \cup checks
  <2>1. {0} \cup writes \subseteq 0..n /\ {0} \cup checks \subseteq 0..n
    BY <1>1
  <2> HIDE DEF writes, checks
  <2> QED
    BY <1>1, <2>1, MaxIsGreatest
<1> HIDE DEF k
<1>6. i \in writes /\ i \in 1..n
  BY <1>1, <1>3
<1>7. k \in checks /\ i < k /\ k \in 1..n
  <2>1. Max({0} \cup writes) \in Nat /\ k \in Nat /\ i <= Max({0} \cup writes) /\ i >= 1
    <3>1. {0} \cup writes \subseteq Nat /\ {0} \cup checks \subseteq Nat
      BY <1>1
    <3>2. n \in Nat
      BY <1>1
    <3> DEFINE m == Max({0} \cup writes)
    <3>3. m \in {0} \cup writes /\ k \in {0} \cup checks /\ m >= i
      BY <1>5, <1>6
    <3> HIDE DEF writes, checks, i, m, n
    <3>4. m \in Nat /\ k \in Nat
      BY <3>1, <3>3
    <3>5. i \in 1..n
      BY <1>6
    <3>6. i <= m /\ i >= 1
      BY <3>2, <3>3, <3>4, <3>5
    <3> QED
      BY <3>4, <3>6 DEF m
  <2>2. k > Max({0} \cup writes)
    BY <1>4, <1>6, <2>1 DEF k
  <2> QED
    BY <1>1, <1>5, <1>6, <2>1, <2>2
<1>8. LastDone(r, i, p)
  <2>1. \A j \in 1..n : j > i => j \notin own
    <3> HIDE DEF own, i
    <3> QED
      BY <1>3, <1>6
  <2>2. \A j \in 1..n : WritesTo(r.plan, j, p) => j \in own
    BY <1>1 DEF WritesTo
  <2>3. WritesTo(r.plan, i, p)
    BY <1>3 DEF WritesTo
  <2> HIDE DEF own, i
  <2> QED
    BY <1>1, <1>6, <2>1, <2>2, <2>3 DEF LastDone
<1>9. r.checked[p] = r.plan[i].content
  <2>1. p \in Mine(r) /\ i \in 1..(r.next - 1) /\ k \in 1..(r.next - 1) /\ IsCheck(r.plan[k])
    BY <1>1, <1>2, <1>6, <1>7 DEF Mine
  <2> HIDE DEF i
  <2> QED
    BY <1>7, <1>8, <2>1 DEF RunOK, ChecksStand
<1> QED
  BY <1>9 DEF FinalWrite
-----------------------------------------------------------------------------
(* What is invariant of everything but the run, when there is none.          *)
LEMMA IdleKept ==
  ASSUME WorkspaceInv, run' = Nothing, workspace' \in [AllFiles -> Content], round' \in 0..MaxRounds,
         PreviewOK', DigestOK', ChangesAreWhole'
  PROVE  WorkspaceInv'
BY DEF WorkspaceInv, FromPacket

(* A packet that stays is as good as it was, unless it is still being shown    *)
(* and a file changes.                                                       *)
LEMMA PacketStays ==
  ASSUME WorkspaceInv, UNCHANGED packet,
         packet.status = "inspected" => run' = Nothing /\ UNCHANGED workspace
  PROVE  PreviewOK' /\ DigestOK'
<1>1. PreviewOK'
  BY DEF WorkspaceInv, PreviewOK
<1>2. DigestOK'
  BY DEF WorkspaceInv, DigestOK, Digested, Readable
<1> QED
  BY <1>1, <1>2

LEMMA BeginsKept ==
  ASSUME WorkspaceInv, NEW plan \in Plans, NEW from \in {"packet", "run", "round"}, review_plan(plan),
         Start(plan, from), UNCHANGED <<workspace, packet>>, round' \in 0..MaxRounds, ChangesAreWhole',
         packet.status # "inspected",
         from = "packet" => packet.status = "saved" /\ workspace_digest(workspace) = packet.digest
  PROVE  WorkspaceInv'
<1>1. run' # Nothing /\ RunOK(run', workspace') /\ run'.from = from /\ run'.before = workspace
  BY StartOK DEF WorkspaceInv
<1>2. PreviewOK' /\ DigestOK'
  BY PacketStays
<1>3. FromPacket'
  BY <1>1 DEF FromPacket
<1> QED
  BY <1>1, <1>2, <1>3 DEF WorkspaceInv

LEMMA InspectKept ==
  ASSUME WorkspaceInv, NEW plan \in Plans, inspect_review(plan)
  PROVE  WorkspaceInv'
<1>1. /\ packet' = [status |-> "inspected", plan |-> plan, seen |-> workspace, edited |-> {}]
      /\ run' = Nothing /\ UNCHANGED <<workspace, receipt, round>>
  BY DEF inspect_review
<1>2. packet'.status = "inspected" /\ packet'.plan = plan /\ packet'.seen = workspace
  BY <1>1
<1>3. PreviewOK' /\ DigestOK'
  <2>1. packet' \in Previewed
    BY <1>1 DEF WorkspaceInv, Previewed
  <2> QED
    BY <1>1, <1>2, <2>1 DEF PreviewOK, DigestOK
<1>4. ChangesAreWhole'
  BY <1>1 DEF WorkspaceInv, ChangesAreWhole
<1> QED
  BY <1>1, <1>3, <1>4, IdleKept DEF WorkspaceInv

(* A file nobody edited in between is digested as it was shown.               *)
LEMMA SaveKept ==
  ASSUME WorkspaceInv, prepare_review_packet
  PROVE  WorkspaceInv'
<1>1. /\ packet.status = "inspected" /\ UNCHANGED <<workspace, run, receipt, round>>
      /\ packet' = [status |-> "saved", plan |-> packet.plan, seen |-> packet.seen, edited |-> packet.edited,
                    digest |-> workspace_digest(workspace),
                    whole |-> Visible(workspace) = {p \in AllFiles : Readable(workspace, p)}]
  BY DEF prepare_review_packet
<1>2. /\ run = Nothing /\ packet.plan \in Plans
      /\ \A p \in AllFiles \ packet.edited : workspace[p] = packet.seen[p]
  BY <1>1 DEF WorkspaceInv, PreviewOK, Previewed
<1>3. /\ packet'.status = "saved" /\ packet'.plan = packet.plan /\ packet'.seen = packet.seen
      /\ packet'.edited = packet.edited /\ packet'.digest = workspace_digest(workspace)
      /\ packet'.whole = (Visible(workspace) = {p \in AllFiles : Readable(workspace, p)})
  BY <1>1
<1>4. ASSUME packet'.whole, NEW p \in AllFiles \ packet.edited, Readable(packet.seen, p)
      PROVE  p \in DOMAIN packet'.digest /\ packet'.digest[p] = packet.seen[p]
  <2>1. Readable(workspace, p)
    BY <1>2, <1>4 DEF Readable
  <2>2. p \in Visible(workspace)
    BY <1>3, <1>4, <2>1
  <2> QED
    BY <1>2, <1>3, <2>2 DEF workspace_digest
<1>5. DigestOK'
  BY <1>2, <1>3, <1>4 DEF DigestOK, Digested
<1>6. PreviewOK' /\ ChangesAreWhole'
  BY <1>1, <1>3 DEF PreviewOK, WorkspaceInv, ChangesAreWhole
<1> QED
  BY <1>1, <1>2, <1>5, <1>6, IdleKept DEF WorkspaceInv

LEMMA ApplyPacketKept ==
  ASSUME WorkspaceInv, apply_review_packet
  PROVE  WorkspaceInv'
<1>1. /\ packet.status = "saved" /\ workspace_digest(workspace) = packet.digest /\ review_plan(packet.plan)
      /\ Start(packet.plan, "packet") /\ UNCHANGED <<workspace, packet, receipt, round>>
  BY DEF apply_review_packet, inspect_plan
<1>2. packet.plan \in Plans
  BY <1>1 DEF WorkspaceInv, DigestOK
<1>3. ChangesAreWhole' /\ round' \in 0..MaxRounds
  BY <1>1 DEF WorkspaceInv, ChangesAreWhole
<1> QED
  BY <1>1, <1>2, <1>3, BeginsKept

LEMMA ApplyPlanKept ==
  ASSUME WorkspaceInv, NEW plan \in Plans, apply_plan(plan)
  PROVE  WorkspaceInv'
<1>1. /\ run = Nothing /\ packet.status # "inspected"
      /\ UNCHANGED <<workspace, packet, round>> /\ round' \in 0..MaxRounds
  BY DEF apply_plan, WorkspaceInv, Nothing
<1>2. CASE review_plan(plan)
  <2>1. Start(plan, "run") /\ ChangesAreWhole'
    BY <1>2 DEF apply_plan, WorkspaceInv, ChangesAreWhole
  <2> QED
    BY <1>1, <1>2, <2>1, BeginsKept
<1>3. CASE ~review_plan(plan)
  <2>1. receipt' = [status |-> "rejected"] /\ run' = Nothing
    BY <1>1, <1>3 DEF apply_plan
  <2>2. ChangesAreWhole'
    BY <2>1 DEF ChangesAreWhole
  <2> QED
    BY <1>1, <2>1, <2>2, PacketStays, IdleKept DEF WorkspaceInv
<1> QED
  BY <1>2, <1>3

(* Consensus is a plan some provider proposed, or none.                      *)
LEMMA ConsensusIsAProposal ==
  ASSUME NEW candidates \in [DOMAIN Providers -> Plans \cup {<<>>}]
  PROVE  select_consensus(candidates) \in Plans \cup {<<>>}
<1> DEFINE ready == {i \in DOMAIN candidates : IsReady(candidates[i])}
           group(i) == {j \in ready : Signature(candidates[j]) = Signature(candidates[i])}
           best == {i \in ready : \A j \in ready : Cardinality(group(j)) <= Cardinality(group(i))}
<1>1. best \subseteq DOMAIN candidates /\ DOMAIN candidates \subseteq Nat
  BY WorkspaceAssumption
<1>2. select_consensus(candidates) \in {<<>>, candidates[Min(best)]} /\
      (best = {} => select_consensus(candidates) = <<>>)
  BY DEF select_consensus
<1>3. best # {} => Min(best) \in DOMAIN candidates
  <2> HIDE DEF best
  <2>1. SUFFICES ASSUME best # {} PROVE Min(best) \in best
    BY <1>1
  <2>2. PICK m \in best : \A k \in best : m <= k
    BY <1>1, <2>1, HasLeast
  <2> QED
    BY <2>2 DEF Min
<1> HIDE DEF best
<1> QED
  BY <1>2, <1>3

LEMMA RoundKept ==
  ASSUME WorkspaceInv, NEW plan \in Plans \cup {<<>>}, Round(plan)
  PROVE  WorkspaceInv'
<1>1. /\ run = Nothing /\ packet.status # "inspected"
      /\ UNCHANGED <<workspace, packet>> /\ round' \in 0..MaxRounds
  <2>1. round' = round + 1 /\ round < MaxRounds /\ round \in 0..MaxRounds /\ MaxRounds \in Nat
    BY WorkspaceAssumption DEF Round, WorkspaceInv
  <2> QED
    BY <2>1 DEF Round, Nothing
<1>2. PreviewOK' /\ DigestOK'
  BY <1>1, PacketStays
<1>3. CASE plan = <<>>
  <2>1. run' = Nothing /\ ChangesAreWhole'
    BY <1>1, <1>3 DEF Round, ChangesAreWhole, WorkspaceInv
  <2> QED
    BY <1>1, <1>2, <2>1, IdleKept DEF WorkspaceInv
<1>4. CASE plan # <<>> /\ review_plan(plan)
  <2>1. Start(plan, "round") /\ receipt' = Nothing
    BY <1>4 DEF Round
  <2>2. ChangesAreWhole'
    BY <2>1 DEF ChangesAreWhole, Nothing
  <2> QED
    BY <1>1, <1>4, <2>1, <2>2, BeginsKept
<1>5. CASE plan # <<>> /\ ~review_plan(plan)
  <2>1. receipt' = [status |-> "rejected"] /\ run' = Nothing
    BY <1>1, <1>5 DEF Round
  <2>2. ChangesAreWhole'
    BY <2>1 DEF ChangesAreWhole
  <2> QED
    BY <1>1, <1>2, <2>1, <2>2, IdleKept DEF WorkspaceInv
<1> QED
  BY <1>3, <1>4, <1>5
-----------------------------------------------------------------------------
(* What every action of a run under way leaves alone.                        *)
LEMMA GoesOnKept ==
  ASSUME WorkspaceInv, run # Nothing, run' \in RunRecord, RunOK(run', workspace'),
         workspace' \in [AllFiles -> Content], UNCHANGED <<packet, receipt, round>>,
         run'.from = run.from, run'.before = run.before
  PROVE  WorkspaceInv'
<1>1. PreviewOK' /\ DigestOK'
  BY PacketStays DEF WorkspaceInv, PreviewOK
<1>2. ChangesAreWhole' /\ FromPacket'
  BY DEF WorkspaceInv, ChangesAreWhole, FromPacket
<1> QED
  BY <1>1, <1>2 DEF WorkspaceInv

LEMMA ReadKept ==
  ASSUME WorkspaceInv, run # Nothing, run.next <= Len(run.plan), read_file
  PROVE  WorkspaceInv'
<1>1. /\ run' = [run EXCEPT !.next = @ + 1] /\ UNCHANGED <<workspace, packet, receipt, round>>
      /\ ~IsWrite(Action) /\ ~IsCheck(Action)
  BY DEF read_file, Advance, IsWrite, IsCheck
<1>2. run \in RunRecord /\ RunOK(run, workspace) /\ workspace \in [AllFiles -> Content]
  BY DEF WorkspaceInv, RunOK
<1>3. /\ run' \in RunRecord /\ run'.next = run.next + 1 /\ run'.plan = run.plan
      /\ run'.backups = run.backups /\ run'.before = run.before /\ run'.others = run.others
      /\ run'.checked = run.checked /\ run'.from = run.from
  BY <1>1, <1>2 DEF RunRecord
<1>4. RunOK(run', workspace)
  BY <1>1, <1>2, <1>3, AdvanceOK DEF Action
<1> QED
  BY <1>1, <1>2, <1>3, <1>4, GoesOnKept

LEMMA CheckKept ==
  ASSUME WorkspaceInv, run # Nothing, run.next <= Len(run.plan), run_check
  PROVE  WorkspaceInv'
<1>1. /\ run' = [[run EXCEPT !.checked = workspace] EXCEPT !.next = @ + 1]
      /\ UNCHANGED <<workspace, packet, receipt, round>> /\ ~IsWrite(Action) /\ IsCheck(Action)
  BY DEF run_check, Advance, IsWrite, IsCheck
<1>2. run \in RunRecord /\ RunOK(run, workspace) /\ workspace \in [AllFiles -> Content]
  BY DEF WorkspaceInv, RunOK
<1>3. /\ run' \in RunRecord /\ run'.next = run.next + 1 /\ run'.plan = run.plan
      /\ run'.backups = run.backups /\ run'.before = run.before /\ run'.others = run.others
      /\ run'.checked = workspace /\ run'.from = run.from
  <2> DEFINE s == [run EXCEPT !.checked = workspace]
  <2>1. /\ s \in RunRecord /\ s.next = run.next /\ s.plan = run.plan /\ s.backups = run.backups
        /\ s.before = run.before /\ s.others = run.others /\ s.checked = workspace /\ s.from = run.from
    BY <1>2 DEF RunRecord
  <2>2. run' = [s EXCEPT !.next = @ + 1]
    BY <1>1
  <2> HIDE DEF s
  <2> QED
    BY <2>1, <2>2 DEF RunRecord
<1>4. RunOK(run', workspace)
  BY <1>1, <1>2, <1>3, AdvanceOK DEF Action
<1> QED
  BY <1>1, <1>2, <1>3, <1>4, GoesOnKept

LEMMA BackedTypes ==
  ASSUME WorkspaceInv, run # Nothing, run.next <= Len(run.plan), IsWrite(Action)
  PROVE  /\ Backed \in UNION {[P -> Content] : P \in SUBSET AllFiles}
         /\ Action.path \in AllFiles /\ Action.content \in Texts
<1>1. run \in RunRecord /\ RunOK(run, workspace) /\ workspace \in [AllFiles -> Content]
  BY DEF WorkspaceInv, RunOK
<1>2. Action.path \in AllFiles /\ Action.content \in Texts
  BY <1>1, PlanTypes DEF Action, RunOK, RunRecord
<1>3. PICK P \in SUBSET AllFiles : run.backups \in [P -> Content]
  BY <1>1 DEF RunRecord
<1>4. Backed \in [P \cup {Action.path} -> Content]
  BY <1>1, <1>2, <1>3 DEF Backed
<1> QED
  BY <1>2, <1>4

LEMMA WriteKept ==
  ASSUME WorkspaceInv, run # Nothing, run.next <= Len(run.plan), write_file
  PROVE  WorkspaceInv'
<1>1. /\ run' = [[run EXCEPT !.backups = Backed] EXCEPT !.next = @ + 1]
      /\ workspace' = [workspace EXCEPT ![Action.path] = Action.content]
      /\ UNCHANGED <<packet, receipt, round>> /\ IsWrite(Action)
  BY DEF write_file, Advance
<1>2. run \in RunRecord /\ RunOK(run, workspace) /\ workspace \in [AllFiles -> Content]
  BY DEF WorkspaceInv, RunOK
<1>3. /\ Backed \in UNION {[P -> Content] : P \in SUBSET AllFiles}
      /\ Action.path \in AllFiles /\ Action.content \in Texts
  BY <1>1, BackedTypes
<1>4. /\ run' \in RunRecord /\ run'.next = run.next + 1 /\ run'.plan = run.plan
      /\ run'.backups = Backed /\ run'.before = run.before /\ run'.others = run.others
      /\ run'.checked = run.checked /\ run'.from = run.from
  <2> DEFINE s == [run EXCEPT !.backups = Backed]
  <2>1. /\ s \in RunRecord /\ s.next = run.next /\ s.plan = run.plan /\ s.backups = Backed
        /\ s.before = run.before /\ s.others = run.others /\ s.checked = run.checked /\ s.from = run.from
    BY <1>2, <1>3 DEF RunRecord
  <2>2. run' = [s EXCEPT !.next = @ + 1]
    BY <1>1
  <2> HIDE DEF s
  <2> QED
    BY <2>1, <2>2 DEF RunRecord
<1>5. RunOK(run', workspace')
  <2>1. /\ Action = run.plan[run.next]
        /\ run'.backups = [p \in DOMAIN run.backups \cup {Action.path} |->
                             IF p \in DOMAIN run.backups THEN run.backups[p] ELSE workspace[p]]
    BY <1>4 DEF Action, Backed
  <2> DEFINE r == run
             s == run'
             fs == workspace
             a == Action
  <2>2. /\ r \in RunRecord /\ s \in RunRecord /\ fs \in [AllFiles -> Content] /\ RunOK(r, fs)
        /\ r.next <= Len(r.plan) /\ a = r.plan[r.next] /\ IsWrite(a)
        /\ s.plan = r.plan /\ s.next = r.next + 1 /\ s.before = r.before /\ s.others = r.others
        /\ s.checked = r.checked
        /\ s.backups = [p \in DOMAIN r.backups \cup {a.path} |->
                          IF p \in DOMAIN r.backups THEN r.backups[p] ELSE fs[p]]
    BY <1>1, <1>2, <1>4, <2>1
  <2>3. workspace' = [fs EXCEPT ![a.path] = a.content]
    BY <1>1
  <2> HIDE DEF r, s, fs, a
  <2>4. RunOK(s, [fs EXCEPT ![a.path] = a.content])
    BY <2>2, WriteOK
  <2> QED
    BY <2>3, <2>4 DEF s
<1>6. workspace' \in [AllFiles -> Content]
  BY <1>1, <1>2, <1>3 DEF Content
<1> QED
  BY <1>1, <1>4, <1>5, <1>6, GoesOnKept

LEMMA RaiseKept ==
  ASSUME WorkspaceInv, run # Nothing, run.next <= Len(run.plan), Raise
  PROVE  WorkspaceInv'
<1> DEFINE backups == IF IsWrite(Action) THEN Backed ELSE run.backups
<1>1. PICK lost \in SUBSET DOMAIN backups :
        /\ workspace' = _rollback(backups, lost)
        /\ receipt' = [status |-> "rolled_back",
                       wrong |-> {p \in AllFiles \ (run.others \cup lost) : workspace'[p] # run.before[p]}]
  BY DEF Raise
<1>2. run' = Nothing /\ UNCHANGED <<packet, round>>
  BY DEF Raise
<1>3. run \in RunRecord /\ RunOK(run, workspace) /\ workspace \in [AllFiles -> Content]
  BY DEF WorkspaceInv, RunOK
<1>4. PICK P \in SUBSET AllFiles : backups \in [P -> Content]
  BY <1>3, BackedTypes DEF RunRecord
<1>5. \A p \in Mine(run) :
        IF p \in DOMAIN backups THEN backups[p] = run.before[p] ELSE workspace[p] = run.before[p]
  <2> SUFFICES ASSUME NEW p \in Mine(run)
               PROVE  IF p \in DOMAIN backups THEN backups[p] = run.before[p]
                      ELSE workspace[p] = run.before[p]
    OBVIOUS
  <2>1. IF p \in DOMAIN run.backups THEN run.backups[p] = run.before[p] ELSE workspace[p] = run.before[p]
    BY <1>3 DEF RunOK, BackupsTrue
  <2>2. CASE IsWrite(Action)
    <3>1. backups = Backed
      BY <2>2
    <3> QED
      BY <2>1, <3>1 DEF Backed
  <2>3. CASE ~IsWrite(Action)
    BY <2>1, <2>3
  <2> QED
    BY <2>2, <2>3
<1> HIDE DEF backups
<1>6. workspace' \in [AllFiles -> Content]
  BY <1>1, <1>3, <1>4 DEF _rollback
<1>7. \A p \in AllFiles \ (run.others \cup lost) : workspace'[p] = run.before[p]
  BY <1>1, <1>5 DEF _rollback, Mine
<1>8. receipt'.wrong = {}
  BY <1>1, <1>7
<1>9. ChangesAreWhole' /\ round' \in 0..MaxRounds
  BY <1>2, <1>8 DEF ChangesAreWhole, WorkspaceInv
<1>10. PreviewOK' /\ DigestOK'
  BY <1>2, PacketStays DEF WorkspaceInv, PreviewOK
<1> QED
  BY <1>2, <1>6, <1>9, <1>10, IdleKept

LEMMA AppliedKept ==
  ASSUME WorkspaceInv, run # Nothing, Applied
  PROVE  WorkspaceInv'
<1>1. /\ run' = Nothing /\ UNCHANGED <<workspace, packet, round>> /\ run.next > Len(run.plan)
      /\ receipt' = [status |-> "applied",
           wrong |-> {p \in Written(run.plan) \ run.others : run.checked[p] # FinalWrite(run.plan, p)}]
  BY DEF Applied
<1>2. run \in RunRecord /\ RunOK(run, workspace) /\ workspace \in [AllFiles -> Content]
  BY DEF WorkspaceInv, RunOK
<1>3. receipt'.wrong = {}
  BY <1>1, <1>2, DoneAsChecked
<1>4. ChangesAreWhole' /\ round' \in 0..MaxRounds
  BY <1>1, <1>3 DEF ChangesAreWhole, WorkspaceInv
<1> QED
  BY <1>1, <1>2, <1>4, PacketStays, IdleKept

LEMMA CrashKept ==
  ASSUME WorkspaceInv, Crash
  PROVE  WorkspaceInv'
<1>1. run' = Nothing /\ UNCHANGED <<workspace, packet, round>> /\ receipt' = [status |-> "died"]
  BY DEF Crash
<1>2. ChangesAreWhole'
  BY <1>1 DEF ChangesAreWhole
<1> QED
  BY <1>1, <1>2, PacketStays, IdleKept DEF WorkspaceInv

LEMMA EditKept ==
  ASSUME WorkspaceInv, NEW p \in AllFiles, NEW c \in Content, Edit(p, c)
  PROVE  WorkspaceInv'
<1>1. workspace' = [workspace EXCEPT ![p] = c] /\ UNCHANGED <<receipt, round>>
  BY DEF Edit
<1>2. /\ workspace' \in [AllFiles -> Content] /\ ChangesAreWhole' /\ round' \in 0..MaxRounds
      /\ \A q \in AllFiles \ {p} : workspace'[q] = workspace[q]
  BY <1>1 DEF WorkspaceInv, ChangesAreWhole
<1>3. CASE run = Nothing /\ packet.status = "saved" /\ UNCHANGED <<run, packet>>
  BY <1>2, <1>3, PacketStays, IdleKept
<1>4. CASE /\ packet.status = "inspected" /\ UNCHANGED run
           /\ packet' = [packet EXCEPT !.edited = @ \cup {p}]
  <2>1. /\ run = Nothing /\ packet \in Previewed
        /\ \A q \in AllFiles \ packet.edited : workspace[q] = packet.seen[q]
    BY <1>4 DEF WorkspaceInv, PreviewOK
  <2>2. /\ packet' \in Previewed /\ packet'.status = "inspected" /\ packet'.seen = packet.seen
        /\ \A q \in AllFiles \ packet'.edited : q \in AllFiles \ packet.edited /\ q # p
    BY <1>4, <2>1 DEF Previewed
  <2>3. PreviewOK'
    BY <1>2, <1>4, <2>1, <2>2 DEF PreviewOK
  <2>4. DigestOK'
    BY <1>4, <2>2 DEF DigestOK
  <2> QED
    BY <1>2, <1>4, <2>1, <2>3, <2>4, IdleKept
<1>5. CASE run # Nothing /\ run' = [run EXCEPT !.others = @ \cup {p}] /\ UNCHANGED packet
  <2>1. run' = [run EXCEPT !.others = @ \cup {p}]
    BY <1>5
  <2>2. run \in RunRecord /\ RunOK(run, workspace) /\ workspace \in [AllFiles -> Content]
    BY <1>5 DEF WorkspaceInv, RunOK
  <2>3. RunOK(run', workspace')
    BY <1>1, <2>1, <2>2, OthersOK
  <2>4. run' \in RunRecord /\ run'.from = run.from /\ run'.before = run.before
    BY <2>1, <2>2 DEF RunRecord
  <2> QED
    BY <1>1, <1>2, <1>5, <2>3, <2>4, GoesOnKept
<1> QED
  BY <1>3, <1>4, <1>5 DEF Edit
-----------------------------------------------------------------------------
LEMMA WorkspaceKept ==
  ASSUME WorkspaceInv, [WorkspaceNext]_workspace_vars
  PROVE  WorkspaceInv'
<1>1. ASSUME NEW plan \in Plans, inspect_review(plan) \/ apply_plan(plan) \/ improve(plan)
      PROVE  WorkspaceInv'
  BY <1>1, InspectKept, ApplyPlanKept, RoundKept DEF improve
<1>2. ASSUME NEW candidates \in [DOMAIN Providers -> Plans \cup {<<>>}], CampaignRound(candidates)
      PROVE  WorkspaceInv'
  BY <1>2, ConsensusIsAProposal, RoundKept DEF CampaignRound
<1>3. CASE Act
  BY <1>3, ReadKept, WriteKept, CheckKept, RaiseKept, AppliedKept DEF Act
<1>4. ASSUME NEW p \in AllFiles, NEW c \in Texts \cup {NoFile}, Edit(p, c)
      PROVE  WorkspaceInv'
  BY <1>4, EditKept DEF Content
<1>5. CASE UNCHANGED workspace_vars
  BY <1>5 DEF workspace_vars, WorkspaceInv, PreviewOK, DigestOK, Digested, Readable, FromPacket, ChangesAreWhole
<1> QED
  BY <1>1, <1>2, <1>3, <1>4, <1>5, SaveKept, ApplyPacketKept, CrashKept DEF WorkspaceNext

(* The inductive invariant of runs, packets and receipts holds from the start. *)
THEOREM WorkspaceInvariance == WorkspaceSpec => []WorkspaceInv
<1>1. WorkspaceInit => WorkspaceInv
  <2> SUFFICES ASSUME WorkspaceInit PROVE WorkspaceInv
    OBVIOUS
  <2>1. workspace \in [AllFiles -> Content] /\ round \in 0..MaxRounds
    BY WorkspaceAssumption DEF WorkspaceInit, Content
  <2>2. run = Nothing /\ packet = Nothing /\ receipt = Nothing
    BY DEF WorkspaceInit
  <2>3. ChangesAreWhole
    BY <2>2 DEF ChangesAreWhole, Nothing
  <2> QED
    BY <2>1, <2>2, <2>3 DEF WorkspaceInv, PreviewOK, DigestOK, FromPacket, Nothing
<1> QED
  BY <1>1, WorkspaceKept, PTL DEF WorkspaceSpec

(* A plan that counts as applied leaves what its last check saw, and one that  *)
(* was rolled back every file as it was, for any plans, any files and any     *)
(* number of rounds; save what others wrote or the disk refused.             *)
THEOREM PlansAreWhole == WorkspaceSpec => []ChangesAreWhole
BY WorkspaceInvariance, PTL DEF WorkspaceInv

(* A reviewed plan begins on the files its reviewer saw, whenever the digest   *)
(* reached them all; save those changed before the digest was taken.         *)
THEOREM ReviewsHold == WorkspaceSpec => []ReviewHolds
<1>1. WorkspaceInv => ReviewHolds
  <2> SUFFICES ASSUME WorkspaceInv, packet.status = "saved", packet.whole, NEW p \in AllFiles \ packet.edited,
                      run # Nothing, run.from = "packet", Readable(packet.seen, p)
               PROVE  run.before[p] = packet.seen[p]
    BY DEF ReviewHolds, Reviewed
  <2>1. workspace_digest(run.before) = packet.digest
    BY DEF WorkspaceInv, FromPacket
  <2>2. p \in DOMAIN packet.digest /\ packet.digest[p] = packet.seen[p]
    BY DEF WorkspaceInv, DigestOK, Digested
  <2>3. p \in Visible(run.before) => workspace_digest(run.before)[p] = run.before[p]
    BY DEF workspace_digest
  <2>4. DOMAIN workspace_digest(run.before) = Visible(run.before)
    BY DEF workspace_digest
  <2> QED
    BY <2>1, <2>2, <2>3, <2>4
<1> QED
  BY <1>1, WorkspaceInvariance, PTL

(* Changes are reviewed: a plan counts as applied, rolled back or begun only as  *)
(* ChangesReviewed says, whatever dies, raises or is edited meanwhile.           *)
THEOREM ChangesStayReviewed == WorkspaceSpec => []ChangesReviewed
<1>1. WorkspaceInv => WorkspaceTypeOK
  BY DEF WorkspaceInv, WorkspaceTypeOK, RunOK, RunRecord, Content
<1> QED
  BY <1>1, WorkspaceInvariance, PlansAreWhole, ReviewsHold, PTL DEF ChangesReviewed
-----------------------------------------------------------------------------
Stages == {"validate", "hit", "link", "copy", "copying", "hash"}
File == Digests \cup {Absent, Torn}
UnderWay == [at : Stages, digest : Digests, path : Outputs]
Finished == [at : {"done"}, digest : Digests, left : File]
BuildTypes == /\ builds \in [Builders -> {Idle} \cup UnderWay \cup Finished]
              /\ native \in [Digests -> File] /\ sha256 \in [Digests -> File]
              /\ output \in [Outputs -> File] /\ overlapped \subseteq Digests

(* Of a digest whose builds have met no other, one is under way, to a path of   *)
(* its own; its executable is whole, torn or not there, and its hash is right   *)
(* or not there.                                                             *)
Alone(d) == \A b, c \in Builders :
  Building(b) /\ Building(c) /\ b # c /\ builds[b].digest = d =>
    builds[c].digest # d /\ builds[c].path # builds[b].path
FilesOK(d) == native[d] \in {Absent, Torn, d} /\ sha256[d] \in {Absent, d}

(* What a build has made so far.                                             *)
MadeOK(b) ==
  LET d == builds[b].digest
  IN  CASE builds[b].at = "hit" -> native[d] = d
        [] builds[b].at \in {"copy", "copying"} -> output[builds[b].path] = d
        [] builds[b].at = "hash" -> output[builds[b].path] = d /\ native[d] \in {Absent, d}
        [] builds[b].at = "done" -> builds[b].left = d
        [] OTHER -> TRUE

BuildInv == /\ BuildTypes
            /\ \A d \in Digests \ overlapped : Alone(d) /\ FilesOK(d)
            /\ \A b \in Builders :
                 builds[b] # Idle /\ builds[b].digest \notin overlapped => MadeOK(b)
-----------------------------------------------------------------------------
LEMMA StageTypes ==
  ASSUME BuildTypes, NEW b \in Builders
  PROVE  /\ builds[b] # Idle <=> builds[b].at # "idle"
         /\ Building(b) <=> builds[b] \in UnderWay
         /\ builds[b] # Idle /\ ~Building(b) => builds[b] \in Finished
<1>1. builds[b] \in {Idle} \cup UnderWay \cup Finished
  BY DEF BuildTypes
<1>2. CASE builds[b] = Idle
  BY <1>2 DEF Idle, Building, UnderWay, Stages
<1>3. CASE builds[b] \in UnderWay
  BY <1>3 DEF Idle, Building, UnderWay, Stages
<1>4. CASE builds[b] \in Finished
  BY <1>4 DEF Idle, Building, UnderWay, Stages, Finished
<1> QED
  BY <1>1, <1>2, <1>3, <1>4

(* What is known of a build under way.                                       *)
LEMMA UnderWayFacts ==
  ASSUME BuildInv, NEW b \in Builders, Building(b)
  PROVE  /\ BuildTypes /\ builds[b] \in UnderWay
         /\ builds[b].digest \in Digests /\ builds[b].path \in Outputs
         /\ builds[b].digest \notin overlapped => FilesOK(builds[b].digest) /\ MadeOK(b)
<1>1. BuildTypes /\ builds[b] \in UnderWay /\ builds[b] # Idle
  BY StageTypes DEF BuildInv, Building, Idle
<1>2. builds[b].digest \in Digests /\ builds[b].path \in Outputs
  BY <1>1 DEF UnderWay
<1> QED
  BY <1>1, <1>2 DEF BuildInv

(* What builds[b] may become in a step of its own.                            *)
Goes(b, d, p) == \/ builds'[b] = Idle
                 \/ builds'[b] \in Finished /\ builds'[b].digest = d
                 \/ builds'[b] \in UnderWay /\ builds'[b].digest = d /\ builds'[b].path = p

(* A step of a build touches its own files, its own path and its own stage.   *)
LEMMA OwnStepKept ==
  ASSUME BuildInv, NEW b \in Builders, Building(b), NEW d, d = builds[b].digest, NEW p, p = builds[b].path,
         BuildTypes', overlapped' = overlapped, Goes(b, d, p),
         \A e \in Digests \ {d} : native'[e] = native[e] /\ sha256'[e] = sha256[e],
         \A c \in Builders \ {b} : builds'[c] = builds[c],
         \A q \in Outputs \ {p} : output'[q] = output[q],
         d \notin overlapped => FilesOK(d)' /\ (builds'[b] # Idle => MadeOK(b)')
  PROVE  BuildInv'
<1>1. \A c \in Builders :
        Building(c)' => Building(c) /\ builds'[c].digest = builds[c].digest /\ builds'[c].path = builds[c].path
  <2> SUFFICES ASSUME NEW c \in Builders, Building(c)'
               PROVE  Building(c) /\ builds'[c].digest = builds[c].digest /\ builds'[c].path = builds[c].path
    OBVIOUS
  <2>1. CASE c = b
    <3>1. builds'[b] # Idle /\ builds'[b] \notin Finished
      BY <2>1 DEF Building, Idle, Finished
    <3> QED
      BY <2>1, <3>1 DEF Goes
  <2>2. CASE c # b
    BY <2>2 DEF Building
  <2> QED
    BY <2>1, <2>2
<1>2. ASSUME NEW e \in Digests \ overlapped PROVE Alone(e)' /\ FilesOK(e)'
  <2>1. Alone(e) /\ FilesOK(e)
    BY <1>2 DEF BuildInv
  <2>2. Alone(e)'
    BY <1>1, <2>1 DEF Alone
  <2>3. FilesOK(e)'
    BY <1>2, <2>1 DEF FilesOK
  <2> QED
    BY <2>2, <2>3
<1>3. ASSUME NEW c \in Builders, builds'[c] # Idle, builds'[c].digest \notin overlapped
      PROVE  MadeOK(c)'
  <2>1. CASE c = b
    BY <1>3, <2>1 DEF Goes
  <2>2. CASE c # b
    <3>1. MadeOK(c) /\ builds'[c] = builds[c] /\ builds[c] # Idle
      BY <1>3, <2>2 DEF BuildInv
    <3>2. CASE ~Building(c)
      <4>1. builds[c].at = "done"
        BY <3>1, <3>2, StageTypes DEF BuildInv, Finished
      <4> QED
        BY <3>1, <4>1 DEF MadeOK
    <3>3. CASE Building(c)
      <4>1. builds[c].digest \in Digests /\ builds[c].path \in Outputs
        BY <3>3, UnderWayFacts
      <4>2. builds[c].digest # d /\ builds[c].path # p
        <5>1. Alone(builds[c].digest)
          BY <1>3, <3>1, <4>1 DEF BuildInv
        <5> QED
          BY <2>2, <3>3, <5>1 DEF Alone
      <4>3. native'[builds[c].digest] = native[builds[c].digest] /\ output'[builds[c].path] = output[builds[c].path]
        BY <4>1, <4>2
      <4> QED
        BY <3>1, <3>3, <4>3 DEF MadeOK, Building
    <3> QED
      BY <3>2, <3>3
  <2> QED
    BY <2>1, <2>2
<1> QED
  BY <1>2, <1>3 DEF BuildInv
-----------------------------------------------------------------------------
(* One lemma for each step of a build.                                       *)
LEMMA ValidateKept ==
  ASSUME BuildConstants, BuildInv, NEW b \in Builders, Building(b), NEW d, d = builds[b].digest, Validate(b, d)
  PROVE  BuildInv'
<1> PICK p : p = builds[b].path
  OBVIOUS
<1>1. /\ builds[b] \in UnderWay /\ d \in Digests /\ p \in Outputs /\ BuildTypes
      /\ d \notin overlapped => FilesOK(d) /\ MadeOK(b)
  BY UnderWayFacts
<1>2. PICK at \in {"hit", "link"} :
        /\ builds' = [builds EXCEPT ![b].at = at] /\ overlapped' = overlapped /\ output' = output
        /\ IF artifact_valid(d) THEN at = "hit" /\ UNCHANGED <<native, sha256>>
           ELSE /\ at = "link" /\ native' = [native EXCEPT ![d] = Absent]
                /\ sha256' = [sha256 EXCEPT ![d] = Absent]
  BY DEF Validate, Go
<1>3. /\ builds'[b].at = at /\ builds'[b].digest = d /\ builds'[b].path = p /\ builds'[b] \in UnderWay
      /\ \A c \in Builders \ {b} : builds'[c] = builds[c]
      /\ builds' \in [Builders -> {Idle} \cup UnderWay \cup Finished]
  BY <1>1, <1>2 DEF BuildTypes, UnderWay, Stages
<1>4. /\ BuildTypes' /\ Goes(b, d, p)
      /\ \A q \in Outputs \ {p} : output'[q] = output[q]
  BY <1>1, <1>2, <1>3 DEF BuildTypes, File, Goes
<1>5. /\ d \notin overlapped => FilesOK(d)' /\ MadeOK(b)'
      /\ \A e \in Digests \ {d} : native'[e] = native[e] /\ sha256'[e] = sha256[e]
  <2>1. CASE artifact_valid(d)
    <3>1. d \notin overlapped => native[d] = d
      BY <1>1, <2>1 DEF artifact_valid, FilesOK, BuildConstants
    <3> QED
      BY <1>1, <1>2, <1>3, <2>1, <3>1 DEF FilesOK, MadeOK
  <2>2. CASE ~artifact_valid(d)
    <3>1. native'[d] = Absent /\ sha256'[d] = Absent
      BY <1>1, <1>2, <2>2 DEF BuildTypes
    <3> QED
      BY <1>1, <1>2, <1>3, <2>2, <3>1 DEF FilesOK, MadeOK, BuildTypes
  <2> QED
    BY <2>1, <2>2
<1> QED
  BY <1>1, <1>2, <1>3, <1>4, <1>5, OwnStepKept

LEMMA CopyHitKept ==
  ASSUME BuildConstants, BuildInv, NEW b \in Builders, Building(b), NEW d, d = builds[b].digest, CopyHit(b, d)
  PROVE  BuildInv'
<1> PICK p : p = builds[b].path
  OBVIOUS
<1>1. /\ builds[b] \in UnderWay /\ d \in Digests /\ p \in Outputs /\ BuildTypes
      /\ d \notin overlapped => FilesOK(d) /\ MadeOK(b)
  BY UnderWayFacts
<1>2. /\ builds' = [builds EXCEPT ![b] = [at |-> "done", digest |-> d, left |-> native[d]]]
      /\ overlapped' = overlapped
      /\ output' = [output EXCEPT ![p] = native[d]] /\ UNCHANGED <<native, sha256>> /\ builds[b].at = "hit"
  BY DEF CopyHit, Done
<1>3. /\ builds'[b].at = "done" /\ builds'[b].digest = d /\ builds'[b].left = native[d] /\ builds'[b] \in Finished
      /\ \A c \in Builders \ {b} : builds'[c] = builds[c]
      /\ builds' \in [Builders -> {Idle} \cup UnderWay \cup Finished]
  BY <1>1, <1>2 DEF BuildTypes, Finished
<1>4. /\ BuildTypes' /\ Goes(b, d, p)
      /\ \A q \in Outputs \ {p} : output'[q] = output[q]
  BY <1>1, <1>2, <1>3 DEF BuildTypes, File, Goes
<1>5. /\ d \notin overlapped => FilesOK(d)' /\ MadeOK(b)'
      /\ \A e \in Digests \ {d} : native'[e] = native[e] /\ sha256'[e] = sha256[e]
  BY <1>1, <1>2, <1>3 DEF FilesOK, MadeOK, BuildTypes
<1> QED
  BY <1>1, <1>2, <1>3, <1>4, <1>5, OwnStepKept

LEMMA LinkKept ==
  ASSUME BuildConstants, BuildInv, NEW b \in Builders, Building(b), NEW d, d = builds[b].digest, Link(b, d)
  PROVE  BuildInv'
<1> PICK p : p = builds[b].path
  OBVIOUS
<1>1. /\ builds[b] \in UnderWay /\ d \in Digests /\ p \in Outputs /\ BuildTypes
      /\ d \notin overlapped => FilesOK(d) /\ MadeOK(b)
  BY UnderWayFacts
<1>2. /\ builds' = [builds EXCEPT ![b].at = "copy"] /\ overlapped' = overlapped
      /\ output' = [output EXCEPT ![p] = d] /\ UNCHANGED <<native, sha256>>
  BY DEF Link, Go
<1>3. /\ builds'[b].at = "copy" /\ builds'[b].digest = d /\ builds'[b].path = p /\ builds'[b] \in UnderWay
      /\ \A c \in Builders \ {b} : builds'[c] = builds[c]
      /\ builds' \in [Builders -> {Idle} \cup UnderWay \cup Finished]
  BY <1>1, <1>2 DEF BuildTypes, UnderWay, Stages
<1>4. /\ BuildTypes' /\ Goes(b, d, p)
      /\ \A q \in Outputs \ {p} : output'[q] = output[q]
  BY <1>1, <1>2, <1>3 DEF BuildTypes, File, Goes
<1>5. /\ d \notin overlapped => FilesOK(d)' /\ MadeOK(b)'
      /\ \A e \in Digests \ {d} : native'[e] = native[e] /\ sha256'[e] = sha256[e]
  BY <1>1, <1>2, <1>3 DEF FilesOK, MadeOK, BuildTypes
<1> QED
  BY <1>1, <1>2, <1>3, <1>4, <1>5, OwnStepKept

LEMMA CopyBeginKept ==
  ASSUME BuildConstants, BuildInv, NEW b \in Builders, Building(b), NEW d, d = builds[b].digest, CopyBegin(b, d)
  PROVE  BuildInv'
<1> PICK p : p = builds[b].path
  OBVIOUS
<1>1. /\ builds[b] \in UnderWay /\ d \in Digests /\ p \in Outputs /\ BuildTypes
      /\ d \notin overlapped => FilesOK(d) /\ MadeOK(b)
  BY UnderWayFacts
<1>2. /\ builds' = [builds EXCEPT ![b].at = "copying"] /\ overlapped' = overlapped
      /\ native' = [native EXCEPT ![d] = Torn] /\ UNCHANGED <<output, sha256>> /\ builds[b].at = "copy"
  BY DEF CopyBegin, Go
<1>3. /\ builds'[b].at = "copying" /\ builds'[b].digest = d /\ builds'[b].path = p /\ builds'[b] \in UnderWay
      /\ \A c \in Builders \ {b} : builds'[c] = builds[c]
      /\ builds' \in [Builders -> {Idle} \cup UnderWay \cup Finished]
  BY <1>1, <1>2 DEF BuildTypes, UnderWay, Stages
<1>4. /\ BuildTypes' /\ Goes(b, d, p)
      /\ \A q \in Outputs \ {p} : output'[q] = output[q]
  BY <1>1, <1>2, <1>3 DEF BuildTypes, File, Goes
<1>5. /\ d \notin overlapped => FilesOK(d)' /\ MadeOK(b)'
      /\ \A e \in Digests \ {d} : native'[e] = native[e] /\ sha256'[e] = sha256[e]
  BY <1>1, <1>2, <1>3 DEF FilesOK, MadeOK, BuildTypes
<1> QED
  BY <1>1, <1>2, <1>3, <1>4, <1>5, OwnStepKept

LEMMA CopyEndKept ==
  ASSUME BuildConstants, BuildInv, NEW b \in Builders, Building(b), NEW d, d = builds[b].digest, CopyEnd(b, d)
  PROVE  BuildInv'
<1> PICK p : p = builds[b].path
  OBVIOUS
<1>1. /\ builds[b] \in UnderWay /\ d \in Digests /\ p \in Outputs /\ BuildTypes
      /\ d \notin overlapped => FilesOK(d) /\ MadeOK(b)
  BY UnderWayFacts
<1>2. /\ builds' = [builds EXCEPT ![b].at = "hash"] /\ overlapped' = overlapped
      /\ native' = [native EXCEPT ![d] = IF @ = Absent THEN @ ELSE output[p]] /\ UNCHANGED <<output, sha256>>
      /\ builds[b].at = "copying"
  BY DEF CopyEnd, Go
<1>3. /\ builds'[b].at = "hash" /\ builds'[b].digest = d /\ builds'[b].path = p /\ builds'[b] \in UnderWay
      /\ \A c \in Builders \ {b} : builds'[c] = builds[c]
      /\ builds' \in [Builders -> {Idle} \cup UnderWay \cup Finished]
  BY <1>1, <1>2 DEF BuildTypes, UnderWay, Stages
<1>4. /\ BuildTypes' /\ Goes(b, d, p)
      /\ \A q \in Outputs \ {p} : output'[q] = output[q]
  BY <1>1, <1>2, <1>3 DEF BuildTypes, File, Goes
<1>5. /\ d \notin overlapped => FilesOK(d)' /\ MadeOK(b)'
      /\ \A e \in Digests \ {d} : native'[e] = native[e] /\ sha256'[e] = sha256[e]
  BY <1>1, <1>2, <1>3 DEF FilesOK, MadeOK, BuildTypes
<1> QED
  BY <1>1, <1>2, <1>3, <1>4, <1>5, OwnStepKept

LEMMA HashKept ==
  ASSUME BuildConstants, BuildInv, NEW b \in Builders, Building(b), NEW d, d = builds[b].digest, Hash(b, d)
  PROVE  BuildInv'
<1> PICK p : p = builds[b].path
  OBVIOUS
<1>1. /\ builds[b] \in UnderWay /\ d \in Digests /\ p \in Outputs /\ BuildTypes
      /\ d \notin overlapped => FilesOK(d) /\ MadeOK(b)
  BY UnderWayFacts
<1>2. /\ builds' = [builds EXCEPT ![b] = [at |-> "done", digest |-> d, left |-> output[p]]]
      /\ overlapped' = overlapped
      /\ sha256' = [sha256 EXCEPT ![d] = native[d]] /\ UNCHANGED <<output, native>>
      /\ builds[b].at = "hash" /\ native[d] # Absent
  BY DEF Hash, Done
<1>3. /\ builds'[b].at = "done" /\ builds'[b].digest = d /\ builds'[b].left = output[p] /\ builds'[b] \in Finished
      /\ \A c \in Builders \ {b} : builds'[c] = builds[c]
      /\ builds' \in [Builders -> {Idle} \cup UnderWay \cup Finished]
  BY <1>1, <1>2 DEF BuildTypes, Finished
<1>4. /\ BuildTypes' /\ Goes(b, d, p)
      /\ \A q \in Outputs \ {p} : output'[q] = output[q]
  BY <1>1, <1>2, <1>3 DEF BuildTypes, File, Goes
<1>5. /\ d \notin overlapped => FilesOK(d)' /\ MadeOK(b)'
      /\ \A e \in Digests \ {d} : native'[e] = native[e] /\ sha256'[e] = sha256[e]
  BY <1>1, <1>2, <1>3 DEF FilesOK, MadeOK, BuildTypes
<1> QED
  BY <1>1, <1>2, <1>3, <1>4, <1>5, OwnStepKept

LEMMA EndsKept ==
  ASSUME BuildInv, NEW b \in Builders, Building(b), builds' = [builds EXCEPT ![b] = Idle],
         UNCHANGED <<native, sha256, overlapped>>, NEW x \in File,
         output' = [output EXCEPT ![builds[b].path] = x]
  PROVE  BuildInv'
<1> PICK d, p : d = builds[b].digest /\ p = builds[b].path
  OBVIOUS
<1>1. /\ d \in Digests /\ p \in Outputs /\ BuildTypes
      /\ d \notin overlapped => FilesOK(d)
  BY UnderWayFacts
<1>2. /\ builds'[b] = Idle /\ \A c \in Builders \ {b} : builds'[c] = builds[c]
      /\ \A q \in Outputs \ {p} : output'[q] = output[q]
      /\ BuildTypes' /\ Goes(b, d, p)
  BY <1>1 DEF BuildTypes, Goes
<1>3. d \notin overlapped => FilesOK(d)'
  BY <1>1 DEF FilesOK
<1> QED
  BY <1>1, <1>2, <1>3, OwnStepKept

LEMMA FailsKept ==
  ASSUME BuildInv, NEW b \in Builders, Building(b), NEW d, Fails(b, d)
  PROVE  BuildInv'
<1>1. /\ builds' = [builds EXCEPT ![b] = Idle] /\ UNCHANGED <<native, sha256, output, overlapped>>
  BY DEF Fails
<1>2. output[builds[b].path] \in File /\ output' = [output EXCEPT ![builds[b].path] = output[builds[b].path]]
  BY <1>1, UnderWayFacts DEF BuildTypes
<1> QED
  BY <1>1, <1>2, EndsKept

LEMMA KillKept ==
  ASSUME BuildInv, NEW b \in Builders, Kill(b)
  PROVE  BuildInv'
<1> DEFINE x == IF builds[b].at \in {"hit", "link"} THEN Torn ELSE output[builds[b].path]
<1>1. /\ builds' = [builds EXCEPT ![b] = Idle] /\ UNCHANGED <<native, sha256, overlapped>>
      /\ Building(b)
  BY DEF Kill
<1>2. x \in File /\ output' = [output EXCEPT ![builds[b].path] = x]
  <2>1. BuildTypes /\ builds[b].path \in Outputs
    BY <1>1, UnderWayFacts
  <2> QED
    BY <2>1 DEF Kill, BuildTypes, File
<1> HIDE DEF x
<1> QED
  BY <1>1, <1>2, EndsKept

(* A build that begins: if another one of its digest or its path is under way,   *)
(* nothing is claimed of the two from now on.                                *)
LEMMA BeginKept ==
  ASSUME BuildInv, NEW b \in Builders, NEW d \in Digests, NEW p \in Outputs, compile_native_file(b, d, p)
  PROVE  BuildInv'
<1>1. /\ ~Building(b) /\ UNCHANGED <<native, sha256, output>>
      /\ builds' = [builds EXCEPT ![b] = [at |-> "validate", digest |-> d, path |-> p]]
      /\ overlapped' = overlapped \cup UNION {{d, builds[c].digest} : c \in Beside(b, d, p)}
  BY DEF compile_native_file
<1>2. BuildTypes
  BY DEF BuildInv
<1>3. /\ builds'[b] = [at |-> "validate", digest |-> d, path |-> p]
      /\ \A c \in Builders \ {b} : builds'[c] = builds[c]
      /\ builds' \in [Builders -> {Idle} \cup UnderWay \cup Finished]
  BY <1>1, <1>2 DEF BuildTypes, UnderWay, Stages
<1>4. overlapped \subseteq overlapped' /\
      \A c \in Builders \ {b} : Building(c) /\ (builds[c].digest = d \/ builds[c].path = p) =>
        d \in overlapped' /\ builds[c].digest \in overlapped'
  BY <1>1 DEF Beside
<1>5. BuildTypes'
  <2>1. \A c \in Beside(b, d, p) : builds[c].digest \in Digests
    BY UnderWayFacts DEF Beside
  <2>2. overlapped' \subseteq Digests
    BY <1>1, <1>2, <2>1 DEF BuildTypes
  <2> QED
    BY <1>1, <1>2, <1>3, <2>2 DEF BuildTypes
<1>6. ASSUME NEW e \in Digests \ overlapped' PROVE Alone(e)' /\ FilesOK(e)'
  <2>1. e \notin overlapped /\ Alone(e) /\ FilesOK(e)
    BY <1>4, <1>6 DEF BuildInv
  <2>2. FilesOK(e)'
    BY <1>1, <2>1 DEF FilesOK
  <2>3. \A c \in Builders \ {b} : Building(c)' => Building(c) /\ builds'[c] = builds[c]
    BY <1>3 DEF Building
  <2>4. ASSUME NEW c \in Builders, NEW f \in Builders, Building(c)', Building(f)', c # f, builds'[c].digest = e
        PROVE  builds'[f].digest # e /\ builds'[f].path # builds'[c].path
    <3>1. CASE c = b
      BY <1>3, <1>4, <1>6, <2>3, <2>4, <3>1
    <3>2. CASE f = b
      BY <1>3, <1>4, <1>6, <2>3, <2>4, <3>2
    <3>3. CASE c # b /\ f # b
      BY <2>1, <2>3, <2>4, <3>3 DEF Alone
    <3> QED
      BY <3>1, <3>2, <3>3
  <2> QED
    BY <2>2, <2>4 DEF Alone
<1>7. ASSUME NEW c \in Builders, builds'[c] # Idle, builds'[c].digest \notin overlapped' PROVE MadeOK(c)'
  <2>1. CASE c = b
    BY <1>3, <2>1 DEF MadeOK
  <2>2. CASE c # b
    <3>1. MadeOK(c) /\ builds'[c] = builds[c]
      BY <1>3, <1>4, <1>7, <2>2 DEF BuildInv
    <3> QED
      BY <1>1, <3>1 DEF MadeOK
  <2> QED
    BY <2>1, <2>2
<1> QED
  BY <1>5, <1>6, <1>7 DEF BuildInv

LEMMA DamageKept ==
  ASSUME BuildInv, NEW d \in Digests, Damage(d)
  PROVE  BuildInv'
<1>1. /\ UNCHANGED <<builds, output, overlapped>> /\ \A b \in Builders : ~Building(b)
      /\ \/ UNCHANGED <<native, sha256>>
         \/ native' = [native EXCEPT ![d] = Torn] /\ UNCHANGED sha256
         \/ sha256' = [sha256 EXCEPT ![d] = Absent] /\ UNCHANGED native
  BY DEF Damage
<1>2. BuildTypes /\ BuildTypes'
  BY <1>1 DEF BuildInv, BuildTypes, File
<1>3. ASSUME NEW e \in Digests \ overlapped' PROVE Alone(e)' /\ FilesOK(e)'
  <2>1. Alone(e) /\ FilesOK(e)
    BY <1>1, <1>3 DEF BuildInv
  <2> QED
    BY <1>1, <1>2, <2>1 DEF Alone, FilesOK, Building, BuildTypes
<1>4. ASSUME NEW c \in Builders, builds'[c] # Idle, builds'[c].digest \notin overlapped' PROVE MadeOK(c)'
  <2>1. MadeOK(c) /\ builds[c] # Idle /\ ~Building(c)
    BY <1>1, <1>4 DEF BuildInv
  <2>2. builds[c].at = "done"
    BY <1>2, <2>1, StageTypes DEF Finished
  <2> QED
    BY <1>1, <2>1, <2>2 DEF MadeOK
<1> QED
  BY <1>2, <1>3, <1>4 DEF BuildInv

LEMMA BuildKept ==
  ASSUME BuildConstants, BuildInv, [BuildNext]_build_vars
  PROVE  BuildInv'
<1>1. ASSUME NEW b \in Builders, Building(b), BuildStep(b, builds[b].digest)
      PROVE  BuildInv'
  BY <1>1, ValidateKept, CopyHitKept, LinkKept, CopyBeginKept, CopyEndKept, HashKept, FailsKept DEF BuildStep
<1>2. CASE UNCHANGED build_vars
  BY <1>2 DEF build_vars, BuildInv, BuildTypes, Alone, FilesOK, MadeOK, Building
<1> QED
  BY <1>1, <1>2, BeginKept, KillKept, DamageKept DEF BuildNext

(* What is known of the files of a digest, and of each build under way, holds  *)
(* from the start.                                                           *)
THEOREM BuildInvariance ==
  ASSUME BuildConstants
  PROVE  BuildSpec => []BuildInv
<1>1. BuildInit => BuildInv
  BY DEF BuildInit, BuildInv, BuildTypes, File, Alone, FilesOK, MadeOK, Building, Idle
<1>2. BuildInv /\ [BuildNext]_build_vars => BuildInv'
  BY BuildKept
<1> QED
  BY <1>1, <1>2, PTL DEF BuildSpec

(* A build that reports success leaves the executable of its own digest, for   *)
(* any builders, killed anywhere, any digests and any output paths, unless a    *)
(* build of the digest has met another one of that digest or of that path.    *)
THEOREM BuildsStayOwn ==
  ASSUME BuildConstants
  PROVE  BuildSpec => []BuildsOwnSource
<1>1. BuildInv => BuildsOwnSource
  <2> SUFFICES ASSUME BuildInv, NEW b \in Builders, builds[b].at = "done", builds[b].digest \notin overlapped
               PROVE  builds[b].left = builds[b].digest
    BY DEF BuildsOwnSource
  <2>1. builds[b] # Idle
    BY DEF Idle
  <2>2. MadeOK(b)
    BY <2>1 DEF BuildInv
  <2> QED
    BY <2>2 DEF MadeOK
<1> QED
  BY <1>1, BuildInvariance, PTL
-----------------------------------------------------------------------------
(* The telemetry log.  A part of a line.                                     *)
Part == Events \X {"body", "end"}

(* What the loop over the lines of s has shown at each place.                 *)
Reads(f, s, n) ==
  f = [i \in 0..n |-> IF i = 0 THEN <<>>
                      ELSE IF Decodes(s, i) THEN Append(f[i - 1], s[i][1]) ELSE f[i - 1]]

LEMMA ReadsExists ==
  ASSUME NEW s, NEW n \in Nat
  PROVE  \E f : Reads(f, s, n)
<1> DEFINE Bad == {k \in Nat : ~\E f : Reads(f, s, k)}
<1>1. SUFFICES ASSUME Bad # {} PROVE FALSE
  OBVIOUS
<1>2. PICK m \in Bad : \A k \in Bad : m <= k
  <2>1. Bad \subseteq Nat
    OBVIOUS
  <2> HIDE DEF Bad
  <2> QED
    BY <1>1, <2>1, HasLeast
<1>3. m # 0
  <2>1. Reads([i \in 0..0 |-> <<>>], s, 0)
    BY DEF Reads
  <2> QED
    BY <1>2, <2>1
<1>4. m - 1 \in Nat /\ m - 1 \notin Bad
  BY <1>2, <1>3
<1>5. PICK g : Reads(g, s, m - 1)
  BY <1>4
<1> DEFINE f == [i \in 0..m |-> IF i = m THEN IF Decodes(s, m) THEN Append(g[m - 1], s[m][1]) ELSE g[m - 1]
                                ELSE g[i]]
<1>6. Reads(f, s, m)
  <2>1. DOMAIN g = 0..(m - 1) /\ g[0] = <<>> /\ f[0] = g[0]
    BY <1>3, <1>4, <1>5 DEF Reads
  <2>2. ASSUME NEW i \in 1..(m - 1)
        PROVE  /\ g[i] = IF Decodes(s, i) THEN Append(g[i - 1], s[i][1]) ELSE g[i - 1]
               /\ f[i] = g[i] /\ f[i - 1] = g[i - 1]
    <3>1. i \in 0..(m - 1) /\ i # 0 /\ i # m /\ i - 1 # m /\ i \in 0..m /\ i - 1 \in 0..m
      BY <1>4
    <3>2. g[i] = IF Decodes(s, i) THEN Append(g[i - 1], s[i][1]) ELSE g[i - 1]
      BY <1>5, <3>1, Zenon DEF Reads
    <3>3. f[i] = g[i] /\ f[i - 1] = g[i - 1]
      BY <3>1
    <3> QED
      BY <3>2, <3>3
  <2>3. f[m] = (IF Decodes(s, m) THEN Append(f[m - 1], s[m][1]) ELSE f[m - 1])
    BY <1>3, <1>4
  <2>4. \A i \in 0..m : f[i] = IF i = 0 THEN <<>>
                               ELSE IF Decodes(s, i) THEN Append(f[i - 1], s[i][1]) ELSE f[i - 1]
    <3>1. \A i \in 0..m : i = 0 \/ i \in 1..(m - 1) \/ i = m
      BY <1>2
    <3> HIDE DEF f
    <3> QED
      BY <1>3, <2>1, <2>2, <2>3, <3>1
  <2>5. DOMAIN f = 0..m /\ f = [i \in 0..m |-> f[i]]
    OBVIOUS
  <2> HIDE DEF f
  <2> QED
    BY <2>4, <2>5 DEF Reads
<1> QED
  BY <1>2, <1>6

(* The events of s are what the loop has shown at its end.                    *)
LEMMA DecodedIsRead ==
  ASSUME NEW s, Len(s) \in Nat
  PROVE  \E f : /\ DOMAIN f = 0..Len(s) /\ f[0] = <<>> /\ Decoded(s) = f[Len(s)]
                /\ \A i \in 1..Len(s) : f[i] = IF Decodes(s, i) THEN Append(f[i - 1], s[i][1]) ELSE f[i - 1]
<1> DEFINE n == Len(s)
           f == CHOOSE f : f = [i \in 0..n |->
                  IF i = 0 THEN <<>> ELSE IF Decodes(s, i) THEN Append(f[i - 1], s[i][1]) ELSE f[i - 1]]
<1>1. \E g : g = [i \in 0..n |->
                  IF i = 0 THEN <<>> ELSE IF Decodes(s, i) THEN Append(g[i - 1], s[i][1]) ELSE g[i - 1]]
  BY ReadsExists DEF Reads
<1>2. f = [i \in 0..n |->
                  IF i = 0 THEN <<>> ELSE IF Decodes(s, i) THEN Append(f[i - 1], s[i][1]) ELSE f[i - 1]]
  BY <1>1, Zenon
<1>3. Decoded(s) = f[n]
  BY DEF Decoded
<1> HIDE DEF f
<1>4. DOMAIN f = 0..n /\ f[0] = <<>>
  BY <1>2
<1>5. ASSUME NEW i \in 1..n PROVE f[i] = IF Decodes(s, i) THEN Append(f[i - 1], s[i][1]) ELSE f[i - 1]
  <2>1. i \in 0..n /\ i # 0
    OBVIOUS
  <2> HIDE DEF n
  <2> QED
    BY <1>2, <2>1, Zenon
<1> QED
  BY <1>3, <1>4, <1>5

(* Events are shown one after the other, so those of two texts, of which the   *)
(* first ends with a line, are shown after each other.                        *)
LEMMA DecodedSplits ==
  ASSUME NEW s \in Seq(Part), NEW t \in Seq(Part), Len(s) = 0 \/ EndsLine(s[Len(s)])
  PROVE  /\ Decoded(s) \in Seq(Events) /\ Decoded(t) \in Seq(Events)
         /\ Decoded(s \o t) = Decoded(s) \o Decoded(t)
<1> DEFINE n == Len(s)
           m == Len(t)
           u == s \o t
<1>1. /\ n \in Nat /\ m \in Nat /\ u \in Seq(Part) /\ Len(u) = n + m
      /\ \A i \in 1..n : u[i] = s[i] /\ s[i] \in Part
      /\ \A i \in 1..m : u[n + i] = t[i] /\ t[i] \in Part
  OBVIOUS
<1>2. \A x \in Part : x[1] \in Events /\ x = <<x[1], x[2]>>
  BY DEF Part
<1>3. PICK f : /\ f[0] = <<>> /\ Decoded(s) = f[n]
               /\ \A i \in 1..n : f[i] = IF Decodes(s, i) THEN Append(f[i - 1], s[i][1]) ELSE f[i - 1]
  BY <1>1, DecodedIsRead
<1>4. PICK g : /\ g[0] = <<>> /\ Decoded(t) = g[m]
               /\ \A i \in 1..m : g[i] = IF Decodes(t, i) THEN Append(g[i - 1], t[i][1]) ELSE g[i - 1]
  BY <1>1, DecodedIsRead
<1>5. PICK h : /\ h[0] = <<>> /\ Decoded(u) = h[n + m]
               /\ \A i \in 1..(n + m) : h[i] = IF Decodes(u, i) THEN Append(h[i - 1], u[i][1]) ELSE h[i - 1]
  BY <1>1, DecodedIsRead
<1>6. ASSUME NEW i \in 1..n PROVE Decodes(u, i) <=> Decodes(s, i)
  <2>1. i - 1 \in 1..n \/ i = 1
    BY <1>1
  <2>2. i - 2 \in 1..n \/ i \in {1, 2}
    BY <1>1
  <2> QED
    BY <1>1, <2>1, <2>2 DEF Decodes
<1>7. ASSUME NEW i \in 1..m PROVE Decodes(u, n + i) <=> Decodes(t, i)
  <2>1. u[n + i] = t[i]
    BY <1>1
  <2>2. CASE i > 2
    <3>1. u[n + i - 1] = t[i - 1] /\ u[n + i - 2] = t[i - 2]
      <4>1. i - 1 \in 1..m /\ i - 2 \in 1..m /\ n + (i - 1) = n + i - 1 /\ n + (i - 2) = n + i - 2
        BY <1>1, <2>2
      <4> HIDE DEF u, n, m
      <4> QED
        BY <1>1, <4>1
    <3> QED
      BY <1>1, <2>1, <2>2, <3>1 DEF Decodes
  <2>3. CASE i = 2
    <3>1. u[n + i - 1] = t[i - 1]
      <4>1. i - 1 \in 1..m /\ n + (i - 1) = n + i - 1
        BY <1>1, <2>3
      <4> HIDE DEF u, n, m
      <4> QED
        BY <1>1, <4>1
    <3>2. n + i = 2 \/ EndsLine(u[n + i - 2])
      BY <1>1, <2>3
    <3> QED
      BY <1>1, <2>1, <2>3, <3>1, <3>2 DEF Decodes
  <2>4. CASE i = 1
    <3>1. n = 0 \/ u[n + i - 1] # BodyOf(u[n + i][1])
      BY <1>1, <2>4 DEF EndsLine, BodyOf
    <3> QED
      BY <1>1, <2>4, <3>1 DEF Decodes
  <2> QED
    BY <1>1, <2>2, <2>3, <2>4
<1> HIDE DEF u, n, m
<1> DEFINE Bad1 == {i \in 0..n : ~(f[i] \in Seq(Events) /\ h[i] = f[i])}
<1>8. Bad1 = {}
  <2>1. SUFFICES ASSUME Bad1 # {} PROVE FALSE
    OBVIOUS
  <2>2. PICK i \in Bad1 : \A j \in Bad1 : i <= j
    <3>1. Bad1 \subseteq Nat
      OBVIOUS
    <3> HIDE DEF Bad1
    <3> QED
      BY <2>1, <3>1, HasLeast
  <2>0. i \in 0..n /\ ~(f[i] \in Seq(Events) /\ h[i] = f[i])
    BY <2>2
  <2>3. i # 0
    <3>1. <<>> \in Seq(Events)
      OBVIOUS
    <3> QED
      BY <1>3, <1>5, <2>0, <3>1
  <2>4. i \in 1..n /\ i - 1 \in 0..n /\ i - 1 \notin Bad1 /\ i \in 1..(n + m)
    BY <1>1, <2>2, <2>3
  <2>5. f[i - 1] \in Seq(Events) /\ h[i - 1] = f[i - 1]
    BY <2>4
  <2>6. s[i][1] \in Events /\ u[i] = s[i]
    BY <1>1, <1>2, <2>4
  <2> HIDE DEF Bad1
  <2>7. /\ f[i] = IF Decodes(s, i) THEN Append(f[i - 1], s[i][1]) ELSE f[i - 1]
        /\ h[i] = IF Decodes(s, i) THEN Append(h[i - 1], s[i][1]) ELSE h[i - 1]
    BY <1>3, <1>5, <1>6, <2>4, <2>6
  <2>8. Append(f[i - 1], s[i][1]) \in Seq(Events)
    BY <2>5, <2>6
  <2> QED
    BY <2>0, <2>5, <2>7, <2>8
<1> DEFINE Bad2 == {i \in 0..m : ~(g[i] \in Seq(Events) /\ h[n + i] = f[n] \o g[i])}
<1>9. Bad2 = {}
  <2>1. SUFFICES ASSUME Bad2 # {} PROVE FALSE
    OBVIOUS
  <2>2. PICK i \in Bad2 : \A j \in Bad2 : i <= j
    <3>1. Bad2 \subseteq Nat
      <4>1. \A j \in 0..m : j \in Nat
        BY <1>1
      <4> QED
        BY <4>1, Zenon
    <3> HIDE DEF Bad2
    <3> QED
      BY <2>1, <3>1, HasLeast
  <2>0. f[n] \in Seq(Events) /\ h[n] = f[n]
    <3>1. n \in 0..n /\ n \notin Bad1
      BY <1>1, <1>8
    <3> QED
      BY <3>1
  <2>00. i \in 0..m /\ ~(g[i] \in Seq(Events) /\ h[n + i] = f[n] \o g[i])
    BY <2>2
  <2>3. i # 0
    <3>1. <<>> \in Seq(Events) /\ f[n] \o <<>> = f[n] /\ n + 0 = n
      BY <1>1, <2>0
    <3> QED
      BY <1>4, <2>0, <2>00, <3>1
  <2>4. i \in 1..m /\ i - 1 \in 0..m /\ ~(i <= i - 1) /\ n + i \in 1..(n + m) /\ n + i - 1 = n + (i - 1)
    BY <1>1, <2>00, <2>3
  <2>5. g[i - 1] \in Seq(Events) /\ h[n + i - 1] = f[n] \o g[i - 1]
    <3>1. i - 1 \notin Bad2
      BY <2>2, <2>4
    <3> QED
      BY <2>4, <3>1
  <2> HIDE DEF Bad2
  <2>6. t[i][1] \in Events /\ u[n + i] = t[i]
    BY <1>1, <1>2, <2>4
  <2>7. /\ Append(f[n] \o g[i - 1], t[i][1]) = f[n] \o Append(g[i - 1], t[i][1])
        /\ Append(g[i - 1], t[i][1]) \in Seq(Events)
    <3> DEFINE a == f[n]
               b == g[i - 1]
               e == t[i][1]
    <3>1. a \in Seq(Events) /\ b \in Seq(Events) /\ e \in Events
      BY <2>0, <2>5, <2>6
    <3> HIDE DEF a, b, e
    <3>2. a \o b \in Seq(Events) /\ <<e>> \in Seq(Events) /\ Append(b, e) \in Seq(Events)
      BY <3>1
    <3>3. Append(a \o b, e) = (a \o b) \o <<e>> /\ Append(b, e) = b \o <<e>>
      BY <3>1, <3>2, AppendIsConcat
    <3>4. (a \o b) \o <<e>> = a \o (b \o <<e>>)
      BY <3>1, <3>2, ConcatAssociative
    <3> QED
      BY <3>2, <3>3, <3>4 DEF a, b, e
  <2>8. /\ g[i] = IF Decodes(t, i) THEN Append(g[i - 1], t[i][1]) ELSE g[i - 1]
        /\ h[n + i] = IF Decodes(t, i) THEN Append(h[n + i - 1], t[i][1]) ELSE h[n + i - 1]
    <3>1. h[n + i] = IF Decodes(u, n + i) THEN Append(h[n + i - 1], u[n + i][1]) ELSE h[n + i - 1]
      <4>0. PICK j : j = n + i
        OBVIOUS
      <4>1. j \in 1..(n + m)
        BY <2>4, <4>0
      <4>2. h[j] = IF Decodes(u, j) THEN Append(h[j - 1], u[j][1]) ELSE h[j - 1]
        BY <1>5, <4>1, Zenon
      <4> QED
        BY <1>1, <2>4, <4>0, <4>2
    <3> QED
      BY <1>4, <1>7, <2>4, <2>6, <3>1
  <2> QED
    BY <2>00, <2>5, <2>7, <2>8
<1>10. f[n] \in Seq(Events) /\ g[m] \in Seq(Events) /\ h[n + m] = f[n] \o g[m]
  <2>1. n \in 0..n /\ m \in 0..m
    BY <1>1
  <2>2. n \notin Bad1 /\ m \notin Bad2
    BY <1>8, <1>9
  <2> QED
    BY <2>1, <2>2
<1> QED
  BY <1>3, <1>4, <1>5, <1>10 DEF u
-----------------------------------------------------------------------------
(* The last n of a sequence leave out as many as there are before them.       *)
Before(length, n) == IF length <= n THEN 0 ELSE length - n

LEMMA LastNIs ==
  ASSUME NEW E, NEW s \in Seq(E), NEW n \in Nat \ {0}
  PROVE  /\ LastN(s, n) \in Seq(E) /\ Len(LastN(s, n)) = Len(s) - Before(Len(s), n)
         /\ Before(Len(s), n) \in Nat /\ Before(Len(s), n) <= Len(s) /\ Len(LastN(s, n)) <= n
         /\ \A i \in 1..(Len(s) - Before(Len(s), n)) : LastN(s, n)[i] = s[Before(Len(s), n) + i]
<1> DEFINE d == Before(Len(s), n)
           x == Len(s) - n + 1
<1>1. Len(s) \in Nat /\ x \in Int
  OBVIOUS
<1>2. Max({1, x}) = d + 1
  <2>1. \A y \in {1, x} : (\A z \in {1, x} : y >= z) => y = d + 1
    BY <1>1 DEF Before
  <2>2. d + 1 \in {1, x} /\ \A z \in {1, x} : d + 1 >= z
    BY <1>1 DEF Before
  <2> QED
    BY <2>1, <2>2 DEF Max
<1>3. LastN(s, n) = SubSeq(s, d + 1, Len(s))
  BY <1>2 DEF LastN
<1>4. d \in Nat /\ d <= Len(s) /\ Len(s) - d <= n
  BY <1>1 DEF Before
<1> HIDE DEF d
<1>5. /\ SubSeq(s, d + 1, Len(s)) \in Seq(E) /\ Len(SubSeq(s, d + 1, Len(s))) = Len(s) - d
      /\ \A i \in 1..(Len(s) - d) : SubSeq(s, d + 1, Len(s))[i] = s[d + i]
  BY <1>1, <1>4
<1> QED
  BY <1>3, <1>4, <1>5 DEF d

LEMMA LastNTwice ==
  ASSUME NEW E, NEW a \in Seq(E), NEW b \in Seq(E), NEW n \in Nat \ {0}
  PROVE  LastN(LastN(a, n) \o b, n) = LastN(a \o b, n)
<1> DEFINE c == LastN(a, n)
           u == c \o b
           v == a \o b
           p == LastN(u, n)
           q == LastN(v, n)
           A == Len(a)
           B == Len(b)
           d == Before(A, n)
           e == Before(A - d + B, n)
           g == Before(A + B, n)
<1>1. /\ A \in Nat /\ B \in Nat /\ v \in Seq(E) /\ Len(v) = A + B
      /\ \A i \in 1..(A + B) : v[i] = IF i <= A THEN a[i] ELSE b[i - A]
  OBVIOUS
<1>2. /\ c \in Seq(E) /\ Len(c) = A - d /\ d \in Nat /\ d <= A
      /\ \A i \in 1..(A - d) : c[i] = a[d + i]
  BY LastNIs
<1> HIDE DEF c
<1>3. /\ u \in Seq(E) /\ Len(u) = A - d + B
      /\ \A i \in 1..(A - d + B) : u[i] = IF i <= A - d THEN c[i] ELSE b[i - (A - d)]
  <2>1. u \in Seq(E) /\ Len(u) = Len(c) + B
    BY <1>2, ConcatProperties
  <2>2. \A i \in 1..(Len(c) + B) : u[i] = IF i <= Len(c) THEN c[i] ELSE b[i - Len(c)]
    BY <1>2, ConcatProperties
  <2> QED
    BY <1>2, <2>1, <2>2
<1> HIDE DEF u, v, A, B, d
<1>4. /\ p \in Seq(E) /\ Len(p) = A - d + B - e /\ e \in Nat
      /\ \A i \in 1..(A - d + B - e) : p[i] = u[e + i]
  <2>1. u \in Seq(E) /\ Len(u) = A - d + B /\ Before(Len(u), n) = e
    BY <1>3
  <2>2. /\ p \in Seq(E) /\ Len(p) = Len(u) - Before(Len(u), n) /\ Before(Len(u), n) \in Nat
        /\ \A i \in 1..(Len(u) - Before(Len(u), n)) : p[i] = u[Before(Len(u), n) + i]
    BY <2>1, LastNIs
  <2> HIDE DEF p, e
  <2>3. Len(u) - Before(Len(u), n) = A - d + B - e
    BY <1>1, <1>2, <2>1, <2>2
  <2> QED
    BY <2>1, <2>2, <2>3
<1>5. /\ q \in Seq(E) /\ Len(q) = A + B - g /\ g \in Nat
      /\ \A i \in 1..(A + B - g) : q[i] = v[g + i]
  <2>1. v \in Seq(E) /\ Len(v) = A + B /\ Before(Len(v), n) = g
    BY <1>1
  <2>2. /\ q \in Seq(E) /\ Len(q) = Len(v) - Before(Len(v), n) /\ Before(Len(v), n) \in Nat
        /\ \A i \in 1..(Len(v) - Before(Len(v), n)) : q[i] = v[Before(Len(v), n) + i]
    BY <2>1, LastNIs
  <2> HIDE DEF q, g
  <2>3. Len(v) - Before(Len(v), n) = A + B - g
    BY <1>1, <1>2, <2>1, <2>2
  <2> QED
    BY <2>1, <2>2, <2>3
<1>6. d + e = g
  BY <1>1, <1>2 DEF Before, d
<1> HIDE DEF p, q, e, g
<1>7. Len(p) = Len(q)
  <2>1. A \in Nat /\ B \in Nat /\ d \in Nat /\ e \in Nat /\ g \in Nat /\ d + e = g
        /\ Len(p) = A - d + B - e /\ Len(q) = A + B - g
    BY <1>1, <1>2, <1>4, <1>5, <1>6
  <2> QED
    BY ONLY <2>1
<1>8. ASSUME NEW i \in 1..Len(p) PROVE p[i] = q[i]
  <2>1. /\ p[i] = u[e + i] /\ q[i] = v[g + i] /\ i \in Nat
        /\ e + i \in 1..(A - d + B) /\ g + i \in 1..(A + B)
    <3>1. A \in Nat /\ B \in Nat /\ d \in Nat /\ d <= A /\ e \in Nat /\ g \in Nat
      BY <1>1, <1>2, <1>4, <1>5
    <3>2. i \in 1..(A - d + B - e) /\ i \in 1..(A + B - g)
      BY <1>4, <1>5, <1>7
    <3>3. p[i] = u[e + i] /\ q[i] = v[g + i]
      BY <1>4, <1>5, <3>2
    <3>4. i \in Nat /\ e + i \in 1..(A - d + B) /\ g + i \in 1..(A + B)
      BY ONLY <3>1, <3>2
    <3> QED
      BY <3>3, <3>4
  <2>2. CASE e + i <= A - d
    <3>1. e + i \in 1..(A - d) /\ g + i <= A /\ d + (e + i) = g + i
      BY <1>1, <1>2, <1>4, <1>5, <1>6, <2>1, <2>2
    <3> QED
      BY <1>1, <1>2, <1>3, <2>1, <2>2, <3>1
  <2>3. CASE ~(e + i <= A - d)
    <3>1. ~(g + i <= A) /\ e + i - (A - d) = g + i - A
      BY <1>1, <1>2, <1>4, <1>5, <1>6, <2>1, <2>3
    <3>2. v[g + i] = b[g + i - A]
      <4>1. PICK k : k = g + i
        OBVIOUS
      <4>2. k \in 1..(A + B) /\ ~(k <= A)
        BY <2>1, <3>1, <4>1
      <4>3. v[k] = b[k - A]
        BY <1>1, <4>2
      <4>4. g \in Nat /\ i \in Nat /\ A \in Nat
        BY <1>1, <1>5, <2>1
      <4> QED
        BY <4>1, <4>3, <4>4
    <3>3. u[e + i] = b[e + i - (A - d)]
      <4>1. PICK k : k = e + i
        OBVIOUS
      <4>2. k \in 1..(A - d + B) /\ ~(k <= A - d)
        BY <2>1, <2>3, <4>1
      <4>3. u[k] = b[k - (A - d)]
        BY <1>3, <4>2
      <4>4. e \in Nat /\ i \in Nat /\ A \in Nat /\ d \in Nat
        BY <1>1, <1>2, <1>4, <2>1
      <4> QED
        BY <4>1, <4>3, <4>4
    <3> QED
      BY <2>1, <3>1, <3>2, <3>3
  <2> QED
    BY <2>2, <2>3
<1>9. p = q
  BY <1>4, <1>5, <1>7, <1>8, SeqEqual
<1> QED
  BY <1>9 DEF p, q, u, v, c
-----------------------------------------------------------------------------
(* The last newline of a text, and that it is the only place like it.         *)
LEMMA NewlineIsLast ==
  ASSUME NEW s \in Seq(Part)
  PROVE  /\ LastNewline(s) \in 0..Len(s)
         /\ LastNewline(s) > 0 => EndsLine(s[LastNewline(s)])
         /\ \A i \in (LastNewline(s) + 1)..Len(s) : ~EndsLine(s[i])
<1> DEFINE S == {0} \cup Newlines(s)
<1>1. Len(s) \in Nat /\ S \in SUBSET (0..Len(s)) /\ S # {}
  BY DEF Newlines
<1>2. Max(S) \in S /\ \A j \in S : Max(S) >= j
  <2> HIDE DEF S
  <2> QED
    BY <1>1, MaxIsGreatest
<1>3. LastNewline(s) = Max(S)
  BY DEF LastNewline
<1>4. \A i \in 1..Len(s) : EndsLine(s[i]) <=> i \in Newlines(s)
  BY DEF Newlines
<1>5. \A j \in S : LastNewline(s) >= j
  BY <1>2, <1>3
<1>6. \A i \in (LastNewline(s) + 1)..Len(s) : ~EndsLine(s[i])
  <2>1. ASSUME NEW i \in (LastNewline(s) + 1)..Len(s) PROVE ~EndsLine(s[i])
    <3>1. LastNewline(s) \in 0..Len(s)
      BY <1>1, <1>2, <1>3
    <3>2. i \in 1..Len(s) /\ ~(LastNewline(s) >= i)
      BY <1>1, <3>1
    <3> QED
      BY <1>4, <1>5, <3>2
  <2> QED
    BY <2>1
<1> QED
  BY <1>1, <1>2, <1>3, <1>6 DEF Newlines

LEMMA NewlineUnique ==
  ASSUME NEW s \in Seq(Part), NEW n \in 0..Len(s), n > 0 => EndsLine(s[n]),
         \A i \in (n + 1)..Len(s) : ~EndsLine(s[i])
  PROVE  LastNewline(s) = n
<1>1. Len(s) \in Nat
  OBVIOUS
<1> DEFINE k == LastNewline(s)
<1>2. k \in 0..Len(s) /\ (k > 0 => EndsLine(s[k])) /\ \A i \in (k + 1)..Len(s) : ~EndsLine(s[i])
  BY NewlineIsLast
<1> HIDE DEF k
<1>3. ~(k < n)
  <2>1. SUFFICES ASSUME k < n PROVE FALSE
    OBVIOUS
  <2>2. n > 0 /\ n \in (k + 1)..Len(s)
    BY <1>1, <1>2, <2>1
  <2> QED
    BY <1>2, <2>2
<1>4. ~(n < k)
  <2>1. SUFFICES ASSUME n < k PROVE FALSE
    OBVIOUS
  <2>2. k > 0 /\ k \in (n + 1)..Len(s)
    BY <1>1, <1>2, <2>1
  <2> QED
    BY <1>2, <2>2
<1>5. k = n
  BY <1>1, <1>2, <1>3, <1>4
<1> QED
  BY <1>5 DEF k
-----------------------------------------------------------------------------
(* No part of a line is written twice.                                        *)
Once == \A i, j \in 1..Len(log) : log[i] = log[j] => i = j

(* What the cursor keeps, of the log and of itself.                          *)
CursorInv ==
  /\ log \in Seq(Part) /\ partial \in Seq(Part) /\ events \in Seq(Events) /\ Len(events) <= EventLimit
  /\ sized \in BOOLEAN /\ seen \in BOOLEAN /\ offset \in 0..(2 * Cardinality(Events))
  /\ Once /\ ShowsLog

(* A log has no more parts than there are events to write.                    *)
LEMMA LogIsShort ==
  ASSUME NEW s \in Seq(Part), \A i, j \in 1..Len(s) : s[i] = s[j] => i = j
  PROVE  Len(s) <= 2 * Cardinality(Events) /\ Cardinality(Events) \in Nat
<1>1. IsFiniteSet(Events) /\ Cardinality(Events) \in Nat
  BY CursorAssumption, FS_CardinalityType
<1>2. IsFiniteSet({"body", "end"}) /\ Cardinality({"body", "end"}) = 2
  <2>1. IsFiniteSet({"end"}) /\ Cardinality({"end"}) = 1
    BY FS_Singleton
  <2>2. {"body", "end"} = {"end"} \cup {"body"} /\ "body" \notin {"end"}
    OBVIOUS
  <2> QED
    <3>1. /\ IsFiniteSet({"end"} \cup {"body"})
          /\ Cardinality({"end"} \cup {"body"}) = IF "body" \in {"end"} THEN 1 ELSE 1 + 1
      BY <2>1, FS_AddElement
    <3> QED
      BY <2>2, <3>1
<1>3. IsFiniteSet(Part) /\ Cardinality(Part) = Cardinality(Events) * 2
  BY <1>1, <1>2, FS_Product DEF Part
<1>4. s \in Injection(1..Len(s), Part)
  <2>1. s \in [1..Len(s) -> Part]
    OBVIOUS
  <2> QED
    BY <2>1 DEF Injection, IsInjective
<1>5. Cardinality(1..Len(s)) <= Cardinality(Part)
  BY <1>3, <1>4, FS_Injection
<1>6. Len(s) \in Nat /\ Cardinality(1..Len(s)) = Len(s)
  BY FS_Interval
<1> QED
  BY <1>1, <1>3, <1>5, <1>6

(* Of a text and of what precedes a place in it.                             *)
LEMMA PrefixFacts ==
  ASSUME NEW s \in Seq(Part), NEW k \in 0..Len(s), NEW n \in 0..k
  PROVE  /\ SubSeq(s, 1, k) \in Seq(Part) /\ Len(SubSeq(s, 1, k)) = k
         /\ SubSeq(SubSeq(s, 1, k), 1, n) = SubSeq(s, 1, n)
         /\ SubSeq(SubSeq(s, 1, k), n + 1, k) = SubSeq(s, n + 1, k)
         /\ \A i \in 1..k : SubSeq(s, 1, k)[i] = s[i]
<1> DEFINE r == SubSeq(s, 1, k)
<1>1. /\ r \in Seq(Part) /\ Len(r) = k /\ k \in Nat /\ n \in Nat /\ Len(s) \in Nat
      /\ \A i \in 1..k : r[i] = s[i]
  OBVIOUS
<1> HIDE DEF r
<1>2. SubSeq(r, 1, n) = SubSeq(s, 1, n)
  <2>1. /\ SubSeq(r, 1, n) \in Seq(Part) /\ Len(SubSeq(r, 1, n)) = n
        /\ \A i \in 1..n : SubSeq(r, 1, n)[i] = r[i]
    BY <1>1
  <2>2. /\ SubSeq(s, 1, n) \in Seq(Part) /\ Len(SubSeq(s, 1, n)) = n
        /\ \A i \in 1..n : SubSeq(s, 1, n)[i] = s[i]
    BY <1>1
  <2>3. \A i \in 1..n : SubSeq(r, 1, n)[i] = SubSeq(s, 1, n)[i]
    BY <1>1, <2>1, <2>2
  <2> QED
    BY <2>1, <2>2, <2>3, SeqEqual
<1>3. SubSeq(r, n + 1, k) = SubSeq(s, n + 1, k)
  <2>1. /\ SubSeq(r, n + 1, k) \in Seq(Part) /\ Len(SubSeq(r, n + 1, k)) = k - n
        /\ \A i \in 1..(k - n) : SubSeq(r, n + 1, k)[i] = r[n + i]
    BY <1>1
  <2>2. /\ SubSeq(s, n + 1, k) \in Seq(Part) /\ Len(SubSeq(s, n + 1, k)) = k - n
        /\ \A i \in 1..(k - n) : SubSeq(s, n + 1, k)[i] = s[n + i]
    BY <1>1
  <2>3. \A i \in 1..(k - n) : n + i \in 1..k
    BY <1>1
  <2>4. \A i \in 1..(k - n) : SubSeq(r, n + 1, k)[i] = SubSeq(s, n + 1, k)[i]
    BY <1>1, <2>1, <2>2, <2>3
  <2> QED
    BY <2>1, <2>2, <2>4, SeqEqual
<1> QED
  BY <1>1, <1>2, <1>3 DEF r

(* What x and y show of a text that has been read up to a place.              *)
Showing(s, k, x, y) ==
  LET n == LastNewline(SubSeq(s, 1, k))
  IN  /\ k <= Len(s)
      /\ x = LastN(Decoded(SubSeq(s, 1, n)), EventLimit)
      /\ y = SubSeq(s, n + 1, k)

LEMMA ShowingIs ==
  ASSUME NEW s \in Seq(Part), NEW k \in Nat, NEW x, NEW y
  PROVE  Showing(s, k, x, y) <=>
           LET read == SubSeq(s, 1, k)
               n == LastNewline(read)
           IN  /\ k <= Len(s)
               /\ x = LastN(Decoded(SubSeq(read, 1, n)), EventLimit)
               /\ y = SubSeq(read, n + 1, k)
<1> DEFINE read == SubSeq(s, 1, k)
           n == LastNewline(read)
<1>1. CASE ~(k <= Len(s))
  BY <1>1 DEF Showing
<1>2. CASE k <= Len(s)
  <2>1. k \in 0..Len(s) /\ Len(s) \in Nat
    BY <1>2
  <2>2. read \in Seq(Part) /\ Len(read) = k
    <3>1. 0 \in 0..k
      BY <2>1
    <3> QED
      BY <2>1, <3>1, PrefixFacts
  <2>3. n \in 0..k
    BY <2>2, NewlineIsLast
  <2>4. SubSeq(read, 1, n) = SubSeq(s, 1, n) /\ SubSeq(read, n + 1, k) = SubSeq(s, n + 1, k)
    <3> HIDE DEF n
    <3> QED
      BY <2>1, <2>3, PrefixFacts
  <2>5. Showing(s, k, x, y) <=>
          /\ k <= Len(s) /\ x = LastN(Decoded(SubSeq(s, 1, n)), EventLimit) /\ y = SubSeq(s, n + 1, k)
    BY DEF Showing
  <2> HIDE DEF n, read
  <2>6. Showing(s, k, x, y) <=>
          /\ k <= Len(s) /\ x = LastN(Decoded(SubSeq(read, 1, n)), EventLimit) /\ y = SubSeq(read, n + 1, k)
    BY <2>4, <2>5, Zenon
  <2> QED
    BY <2>6 DEF n, read
<1> QED
  BY <1>1, <1>2

LEMMA DecodedTyped ==
  ASSUME NEW t \in Seq(Part)
  PROVE  Decoded(t) \in Seq(Events)
<1>1. <<>> \in Seq(Part) /\ Len(<<>>) = 0
  OBVIOUS
<1> QED
  BY <1>1, DecodedSplits

(* A piece of a text.                                                         *)
LEMMA CutIs ==
  ASSUME NEW E, NEW s \in Seq(E), NEW a \in Nat, NEW b \in Nat, a <= b, b <= Len(s)
  PROVE  /\ SubSeq(s, a + 1, b) \in Seq(E) /\ Len(SubSeq(s, a + 1, b)) = b - a
         /\ \A i \in 1..(b - a) : SubSeq(s, a + 1, b)[i] = s[a + i]
  OBVIOUS

(* Reading on from a place shows the rest, beside what was shown.             *)
LEMMA ReadsOn ==
  ASSUME NEW s \in Seq(Part), NEW k \in Nat, NEW x, NEW y, Showing(s, k, x, y),
         NEW chunk, chunk = y \o SubSeq(s, k + 1, Len(s))
  PROVE  Showing(s, Len(s), IF LastNewline(chunk) = 0 THEN x
                            ELSE LastN(x \o Decoded(SubSeq(chunk, 1, LastNewline(chunk))), EventLimit),
                 LastLine(chunk))
<1> DEFINE L == Len(s)
           read == SubSeq(s, 1, k)
           n == LastNewline(read)
           rest == SubSeq(s, k + 1, L)
           m == LastNewline(chunk)
           N == IF m = 0 THEN n ELSE n + m
           z == IF m = 0 THEN x ELSE LastN(x \o Decoded(SubSeq(chunk, 1, m)), EventLimit)
<1>1. /\ L \in Nat /\ k \in 0..L
      /\ x = LastN(Decoded(SubSeq(s, 1, n)), EventLimit) /\ y = SubSeq(s, n + 1, k)
  BY DEF Showing
<1>2. read \in Seq(Part) /\ Len(read) = k /\ \A i \in 1..k : read[i] = s[i]
  <2>1. 0 \in 0..k
    OBVIOUS
  <2> QED
    BY <1>1, <2>1, PrefixFacts
<1>3. n \in 0..k /\ (n > 0 => EndsLine(s[n]))
  <2>1. n \in 0..k /\ (n > 0 => EndsLine(read[n]))
    BY <1>2, NewlineIsLast
  <2>2. n > 0 => n \in 1..k
    BY <2>1
  <2> QED
    BY <1>2, <2>1, <2>2
<1> HIDE DEF n, read, L
<1>4. /\ chunk \in Seq(Part) /\ Len(chunk) = L - n
      /\ \A i \in 1..(L - n) : chunk[i] = s[n + i]
  <2>1. /\ y \in Seq(Part) /\ Len(y) = k - n /\ \A i \in 1..(k - n) : y[i] = s[n + i]
    <3>1. n \in Nat /\ k \in Nat /\ n <= k /\ k <= Len(s)
      BY <1>1, <1>3 DEF L
    <3> QED
      BY <1>1, <3>1, CutIs
  <2>2. /\ rest \in Seq(Part) /\ Len(rest) = L - k /\ \A i \in 1..(L - k) : rest[i] = s[k + i]
    BY <1>1 DEF L
  <2>3. chunk = y \o rest
    BY DEF L
  <2> HIDE DEF rest
  <2>4. /\ chunk \in Seq(Part) /\ Len(chunk) = Len(y) + Len(rest)
        /\ \A i \in 1..(Len(y) + Len(rest)) : chunk[i] = IF i <= Len(y) THEN y[i] ELSE rest[i - Len(y)]
    <3>1. y \in Seq(Part) /\ rest \in Seq(Part)
      BY <2>1, <2>2
    <3> QED
      BY ONLY <2>3, <3>1, ConcatProperties
  <2>0. n \in Nat /\ k \in Nat /\ L \in Nat /\ n <= k /\ k <= L
    BY <1>1, <1>3
  <2>00. Len(y) = k - n /\ Len(rest) = L - k
    BY <2>1, <2>2
  <2>5. Len(chunk) = L - n
    <3>1. Len(chunk) = Len(y) + Len(rest)
      BY <2>4
    <3> QED
      BY ONLY <2>0, <2>00, <3>1
  <2>6. ASSUME NEW i \in 1..(L - n) PROVE chunk[i] = s[n + i]
    <3>1. chunk[i] = IF i <= k - n THEN y[i] ELSE rest[i - (k - n)]
      <4>1. i \in 1..(Len(y) + Len(rest))
        BY ONLY <2>0, <2>00
      <4> QED
        BY <2>00, <2>4, <4>1
    <3>2. CASE i <= k - n
      <4>1. i \in 1..(k - n)
        BY <1>1, <1>3, <3>2
      <4> QED
        BY <2>1, <3>1, <3>2, <4>1
    <3>3. CASE ~(i <= k - n)
      <4>1. PICK j : j = i - (k - n)
        OBVIOUS
      <4>2. j \in 1..(L - k) /\ k + j = n + i
        BY <1>1, <1>3, <3>3, <4>1
      <4>3. rest[j] = s[k + j]
        BY <2>2, <4>2
      <4>4. chunk[i] = rest[j]
        BY <3>1, <3>3, <4>1
      <4> QED
        BY <4>2, <4>3, <4>4
    <3> QED
      BY <3>2, <3>3
  <2> QED
    BY <2>4, <2>5, <2>6
<1>5. m \in 0..(L - n) /\ (m > 0 => EndsLine(chunk[m])) /\ \A i \in (m + 1)..(L - n) : ~EndsLine(chunk[i])
  BY <1>4, NewlineIsLast
<1> HIDE DEF m
<1>50. L \in Nat /\ n \in Nat /\ n <= L /\ k \in Nat
  BY <1>1, <1>3
<1>51. L - n \in Nat /\ m \in Nat /\ m <= L - n
  BY ONLY <1>5, <1>50
<1>52. chunk \in Seq(Part) /\ Len(chunk) = L - n
  BY <1>4
<1>6. N \in 0..L
  BY <1>1, <1>3, <1>5
<1>7. LastNewline(s) = N
  <2>1. N > 0 => EndsLine(s[N])
    <3>1. m > 0 => m \in 1..(L - n)
      BY <1>5
    <3> QED
      BY <1>3, <1>4, <1>5, <3>1
  <2>2. ASSUME NEW i \in (N + 1)..L PROVE ~EndsLine(s[i])
    <3>1. PICK j : j = i - n
      OBVIOUS
    <3>2. j \in 1..(L - n) /\ j \in (m + 1)..(L - n) /\ n + j = i
      BY <1>1, <1>3, <1>5, <1>6, <3>1
    <3> QED
      BY <1>4, <1>5, <3>2
  <2> HIDE DEF N
  <2> QED
    BY <1>6, <2>1, <2>2, NewlineUnique DEF L
<1>8. SubSeq(s, 1, L) = s
  BY SubSeqFull DEF L
<1>9. LastLine(chunk) = SubSeq(s, N + 1, L)
  <2>1. LastLine(chunk) = SubSeq(chunk, m + 1, L - n)
    BY <1>4 DEF LastLine, m
  <2>2. /\ SubSeq(chunk, m + 1, L - n) \in Seq(Part) /\ Len(SubSeq(chunk, m + 1, L - n)) = L - n - m
        /\ \A i \in 1..(L - n - m) : SubSeq(chunk, m + 1, L - n)[i] = chunk[m + i]
    BY ONLY <1>51, <1>52, CutIs
  <2>3. N = n + m
    BY <1>3, <1>5
  <2>4. /\ SubSeq(s, N + 1, L) \in Seq(Part) /\ Len(SubSeq(s, N + 1, L)) = L - N
        /\ \A i \in 1..(L - N) : SubSeq(s, N + 1, L)[i] = s[N + i]
    <3> HIDE DEF N
    <3> QED
      BY <1>1, <1>6 DEF L
  <2>5. ASSUME NEW i \in 1..(L - N) PROVE chunk[m + i] = s[N + i]
    <3>1. PICK j : j = m + i
      OBVIOUS
    <3>2. j \in 1..(L - n) /\ n + j = N + i
      BY <1>1, <1>3, <1>5, <2>3, <3>1
    <3>3. chunk[j] = s[n + j]
      BY <1>4, <3>2
    <3> QED
      BY <3>1, <3>2, <3>3
  <2>6. L - n - m = L - N
    BY <1>1, <1>3, <1>5, <2>3
  <2> HIDE DEF N
  <2>7. \A i \in 1..(L - N) : SubSeq(chunk, m + 1, L - n)[i] = SubSeq(s, N + 1, L)[i]
    BY <2>2, <2>4, <2>5, <2>6
  <2>8. SubSeq(chunk, m + 1, L - n) = SubSeq(s, N + 1, L)
    BY <2>2, <2>4, <2>6, <2>7, SeqEqual
  <2> QED
    BY <2>1, <2>8
<1>10. z = LastN(Decoded(SubSeq(s, 1, N)), EventLimit)
  <2>1. CASE m = 0
    BY <1>1, <2>1
  <2>2. CASE m # 0
    <3> DEFINE a == SubSeq(s, 1, n)
               b == SubSeq(chunk, 1, m)
    <3>1. N = n + m /\ m \in 1..(L - n)
      BY <1>5, <2>2
    <3>2. a \in Seq(Part) /\ Len(a) = n /\ \A i \in 1..n : a[i] = s[i]
      BY <1>1, <1>3 DEF L
    <3>3. b \in Seq(Part) /\ Len(b) = m /\ \A i \in 1..m : b[i] = s[n + i]
      <4>1. /\ b \in Seq(Part) /\ Len(b) = m /\ \A i \in 1..m : b[i] = chunk[i]
        <5>1. m \in Nat /\ 0 \in Nat /\ 0 <= m /\ m <= Len(chunk) /\ chunk \in Seq(Part) /\ m - 0 = m
          BY ONLY <1>51, <1>52
        <5>2. /\ SubSeq(chunk, 0 + 1, m) \in Seq(Part) /\ Len(SubSeq(chunk, 0 + 1, m)) = m - 0
              /\ \A i \in 1..(m - 0) : SubSeq(chunk, 0 + 1, m)[i] = chunk[0 + i]
          BY ONLY <5>1, CutIs
        <5> QED
          BY <5>1, <5>2
      <4>2. \A i \in 1..m : i \in 1..(L - n)
        BY <1>1, <1>3, <1>5
      <4> QED
        BY <1>4, <4>1, <4>2
    <3>4. SubSeq(s, 1, N) \in Seq(Part) /\ Len(SubSeq(s, 1, N)) = N /\ \A i \in 1..N : SubSeq(s, 1, N)[i] = s[i]
      <4> HIDE DEF N
      <4> QED
        BY <1>1, <1>6 DEF L
    <3> HIDE DEF a, b
    <3>5. /\ a \o b \in Seq(Part) /\ Len(a \o b) = Len(a) + Len(b)
          /\ \A i \in 1..(Len(a) + Len(b)) : (a \o b)[i] = IF i <= Len(a) THEN a[i] ELSE b[i - Len(a)]
      BY <3>2, <3>3, ConcatProperties
    <3>6. ASSUME NEW i \in 1..N PROVE (a \o b)[i] = s[i]
      <4>1. (a \o b)[i] = IF i <= n THEN a[i] ELSE b[i - n]
        BY <1>3, <1>5, <3>1, <3>2, <3>3, <3>5
      <4>2. CASE i <= n
        <5>1. i \in 1..n
          BY <1>3, <1>6, <4>2
        <5> QED
          BY <3>2, <4>1, <4>2, <5>1
      <4>3. CASE ~(i <= n)
        <5>1. PICK j : j = i - n
          OBVIOUS
        <5>2. j \in 1..m /\ n + j = i
          BY <1>3, <1>5, <1>6, <3>1, <4>3, <5>1
        <5>3. (a \o b)[i] = b[j]
          BY <4>1, <4>3, <5>1
        <5> QED
          BY <3>3, <5>2, <5>3
      <4> QED
        BY <4>2, <4>3
    <3>7. a \o b = SubSeq(s, 1, N)
      <4>1. Len(a \o b) = N
        BY <3>1, <3>2, <3>3, <3>5
      <4>2. \A i \in 1..N : (a \o b)[i] = SubSeq(s, 1, N)[i]
        BY <3>4, <3>6
      <4> HIDE DEF N
      <4> QED
        BY <3>4, <3>5, <4>1, <4>2, SeqEqual
    <3>8. n = 0 \/ EndsLine(a[n])
      <4>1. n # 0 => n \in 1..n /\ n > 0
        BY <1>3
      <4> QED
        BY <1>3, <3>2, <4>1
    <3>9. /\ Decoded(a) \in Seq(Events) /\ Decoded(b) \in Seq(Events)
          /\ Decoded(a \o b) = Decoded(a) \o Decoded(b)
      BY <3>2, <3>3, <3>8, DecodedSplits
    <3>10. z = LastN(LastN(Decoded(a), EventLimit) \o Decoded(b), EventLimit)
      BY <1>1, <2>2 DEF a, b
    <3>11. z = LastN(Decoded(a) \o Decoded(b), EventLimit)
      BY <3>9, <3>10, LastNTwice, CursorAssumption
    <3> QED
      BY <3>7, <3>9, <3>11
  <2> QED
    BY <2>1, <2>2
<1> HIDE DEF N, z
<1>11. Showing(s, L, z, LastLine(chunk))
  <2>1. LastNewline(SubSeq(s, 1, L)) = N
    BY <1>7, <1>8
  <2>2. L <= Len(s)
    BY <1>1 DEF L
  <2> QED
    BY <1>9, <1>10, <2>1, <2>2, Zenon DEF Showing
<1> QED
  BY <1>11 DEF z, m, L
-----------------------------------------------------------------------------
(* Texts that begin alike show alike.                                        *)
LEMMA SameBeginning ==
  ASSUME NEW s \in Seq(Part), NEW t \in Seq(Part), NEW k \in Nat, k <= Len(s), k <= Len(t),
         \A i \in 1..k : s[i] = t[i]
  PROVE  SubSeq(s, 1, k) = SubSeq(t, 1, k)
<1>1. k \in 0..Len(s) /\ k \in 0..Len(t) /\ 0 \in 0..k
  OBVIOUS
<1>2. /\ SubSeq(s, 1, k) \in Seq(Part) /\ Len(SubSeq(s, 1, k)) = k
      /\ \A i \in 1..k : SubSeq(s, 1, k)[i] = s[i]
  BY <1>1, PrefixFacts
<1>3. /\ SubSeq(t, 1, k) \in Seq(Part) /\ Len(SubSeq(t, 1, k)) = k
      /\ \A i \in 1..k : SubSeq(t, 1, k)[i] = t[i]
  BY <1>1, PrefixFacts
<1>4. \A i \in 1..k : SubSeq(s, 1, k)[i] = SubSeq(t, 1, k)[i]
  BY <1>2, <1>3
<1> QED
  BY ONLY <1>2, <1>3, <1>4, SeqEqual

(* Nothing has been shown of a text before its beginning.                    *)
LEMMA ShowsNothing ==
  ASSUME NEW s \in Seq(Part)
  PROVE  Showing(s, 0, <<>>, <<>>)
<1>1. Len(s) \in Nat /\ SubSeq(s, 1, 0) = <<>> /\ <<>> \in Seq(Part) /\ Len(<<>>) = 0
  OBVIOUS
<1>2. LastNewline(<<>>) = 0
  <2>1. LastNewline(<<>>) \in 0..0
    BY <1>1, NewlineIsLast
  <2> QED
    BY <2>1
<1>3. Decoded(<<>>) = <<>>
  <2>1. PICK f : f[0] = <<>> /\ Decoded(<<>>) = f[Len(<<>>)]
    BY <1>1, DecodedIsRead
  <2> QED
    BY <1>1, <2>1
<1>4. LastN(<<>>, EventLimit) = <<>>
  <2>1. <<>> \in Seq(Events) /\ EventLimit \in Nat \ {0}
    BY CursorAssumption
  <2>2. LastN(<<>>, EventLimit) \in Seq(Events) /\ Len(LastN(<<>>, EventLimit)) = Len(<<>>) - Before(Len(<<>>), EventLimit)
    BY <2>1, LastNIs
  <2>3. Before(0, EventLimit) = 0
    BY <2>1 DEF Before
  <2> QED
    BY <1>1, <2>2, <2>3
<1>5. 0 + 1 = 1 /\ 0 <= Len(s)
  BY <1>1
<1> QED
  BY <1>1, <1>2, <1>3, <1>4, <1>5, Zenon DEF Showing

(* What the invariant says is shown, now and after a step.                   *)
LEMMA ShowsIsShowing ==
  ASSUME log \in Seq(Part), offset \in Nat
  PROVE  ShowsLog <=> (seen => Showing(log, offset, events, partial))
<1>1. Showing(log, offset, events, partial) <=>
        LET read == SubSeq(log, 1, offset)
            n == LastNewline(read)
        IN  /\ offset <= Len(log)
            /\ events = LastN(Decoded(SubSeq(read, 1, n)), EventLimit)
            /\ partial = SubSeq(read, n + 1, offset)
  BY ShowingIs
<1> QED
  BY <1>1 DEF ShowsLog

LEMMA ShowsIsShowingNext ==
  ASSUME log' \in Seq(Part), offset' \in Nat
  PROVE  ShowsLog' <=> (seen' => Showing(log', offset', events', partial'))
<1>1. Showing(log', offset', events', partial') <=>
        LET read == SubSeq(log', 1, offset')
            n == LastNewline(read)
        IN  /\ offset' <= Len(log')
            /\ events' = LastN(Decoded(SubSeq(read, 1, n)), EventLimit)
            /\ partial' = SubSeq(read, n + 1, offset')
  BY ShowingIs
<1> QED
  BY <1>1 DEF ShowsLog

(* What begins alike up to the offset is shown as before.                    *)
LEMMA StillShowing ==
  ASSUME NEW s \in Seq(Part), NEW t \in Seq(Part), NEW k \in Nat, NEW x, NEW y,
         Showing(s, k, x, y), k <= Len(t), \A i \in 1..k : s[i] = t[i]
  PROVE  Showing(t, k, x, y)
<1>1. k <= Len(s)
  BY DEF Showing
<1>2. SubSeq(s, 1, k) = SubSeq(t, 1, k)
  BY <1>1, SameBeginning
<1>3. Showing(s, k, x, y) <=>
           LET read == SubSeq(s, 1, k)
               n == LastNewline(read)
           IN  /\ k <= Len(s)
               /\ x = LastN(Decoded(SubSeq(read, 1, n)), EventLimit)
               /\ y = SubSeq(read, n + 1, k)
  BY ShowingIs
<1>4. Showing(t, k, x, y) <=>
           LET read == SubSeq(t, 1, k)
               n == LastNewline(read)
           IN  /\ k <= Len(t)
               /\ x = LastN(Decoded(SubSeq(read, 1, n)), EventLimit)
               /\ y = SubSeq(read, n + 1, k)
  BY ShowingIs
<1> QED
  BY <1>2, <1>3, <1>4, Zenon

(* record_event writes after what the log holds.                             *)
LEMMA WritesKeep ==
  ASSUME CursorInv, NEW t \in Seq(Part), log' = log \o t, UNCHANGED <<cursor, sized, seen>>,
         \A i, j \in 1..Len(t) : t[i] = t[j] => i = j,
         \A i \in 1..Len(t) : ~Logged(t[i])
  PROVE  CursorInv'
<1> DEFINE L == Len(log)
           T == Len(t)
<1>1. log \in Seq(Part) /\ L \in Nat /\ T \in Nat /\ DOMAIN log = 1..L /\ offset \in Nat
  BY DEF CursorInv
<1>2. /\ log' \in Seq(Part) /\ Len(log') = L + T
      /\ \A i \in 1..(L + T) : log'[i] = IF i <= L THEN log[i] ELSE t[i - L]
  BY <1>1, ConcatProperties
<1>3. \A i \in 1..L : log'[i] = log[i]
  <2>1. ASSUME NEW i \in 1..L PROVE log'[i] = log[i]
    <3>1. i \in 1..(L + T) /\ i <= L
      BY <1>1
    <3> QED
      BY <1>2, <3>1
  <2> QED
    BY <2>1
<1>4. Once'
  <2>1. SUFFICES ASSUME NEW i \in 1..(L + T), NEW j \in 1..(L + T), log'[i] = log'[j] PROVE i = j
    BY <1>2 DEF Once
  <2>2. \A n \in 1..(L + T) : \/ n \in 1..L /\ log'[n] = log[n]
                              \/ n - L \in 1..T /\ ~(n <= L) /\ log'[n] = t[n - L]
    <3>1. ASSUME NEW n \in 1..(L + T)
          PROVE \/ n \in 1..L /\ log'[n] = log[n]
                \/ n - L \in 1..T /\ ~(n <= L) /\ log'[n] = t[n - L]
      <4>1. log'[n] = IF n <= L THEN log[n] ELSE t[n - L]
        BY <1>2
      <4>2. n <= L => n \in 1..L
        BY <1>1
      <4>3. ~(n <= L) => n - L \in 1..T
        BY <1>1
      <4> QED
        BY <4>1, <4>2, <4>3
    <3> QED
      BY <3>1
  <2>3. ASSUME NEW m \in 1..L, NEW n \in 1..T PROVE log[m] # t[n]
    BY <1>1 DEF Logged
  <2>4. CASE i \in 1..L /\ j \in 1..L
    BY <1>3, <2>1, <2>4 DEF CursorInv, Once
  <2>5. CASE i - L \in 1..T /\ j - L \in 1..T /\ log'[i] = t[i - L] /\ log'[j] = t[j - L]
    <3>1. i - L = j - L
      BY <2>1, <2>5
    <3> QED
      BY <1>1, <3>1
  <2>6. ~(i \in 1..L /\ j - L \in 1..T /\ log'[i] = log[i] /\ log'[j] = t[j - L])
    BY <2>1, <2>3
  <2>7. ~(j \in 1..L /\ i - L \in 1..T /\ log'[j] = log[j] /\ log'[i] = t[i - L])
    BY <2>1, <2>3
  <2>8. \/ i \in 1..L /\ log'[i] = log[i]
        \/ i - L \in 1..T /\ log'[i] = t[i - L]
    BY <2>2
  <2>9. \/ j \in 1..L /\ log'[j] = log[j]
        \/ j - L \in 1..T /\ log'[j] = t[j - L]
    BY <2>2
  <2> HIDE DEF L, T
  <2> QED
    BY <2>4, <2>5, <2>6, <2>7, <2>8, <2>9, Zenon
<1>5. ShowsLog'
  <2>1. offset' = offset /\ events' = events /\ partial' = partial /\ seen' = seen
    BY DEF cursor
  <2>2. SUFFICES ASSUME seen PROVE Showing(log', offset, events, partial)
    <3>1. log' \in Seq(Part) /\ offset' \in Nat
      BY <1>1, <1>2, <2>1
    <3>2. ShowsLog' <=> (seen' => Showing(log', offset', events', partial'))
      BY <3>1, ShowsIsShowingNext
    <3> QED
      BY <2>1, <3>2
  <2>3. Showing(log, offset, events, partial)
    BY <1>1, <2>2, ShowsIsShowing DEF CursorInv
  <2>4. offset <= L
    BY <2>3 DEF Showing
  <2>5. offset <= Len(log') /\ \A i \in 1..offset : log[i] = log'[i]
    <3>1. offset <= L + T
      BY <1>1, <2>4
    <3>2. \A i \in 1..offset : i \in 1..L
      BY <1>1, <2>4
    <3> QED
      BY <1>2, <1>3, <3>1, <3>2
  <2> QED
    BY <1>1, <1>2, <2>3, <2>5, StillShowing
<1> QED
  BY <1>2, <1>4, <1>5 DEF CursorInv, cursor

LEMMA RecordKeeps ==
  ASSUME CursorInv, NEW e \in Events, Record(e)
  PROVE  CursorInv'
<1> DEFINE b == BodyOf(e)
           d == EndOf(e)
<1>1. b \in Part /\ d \in Part /\ b # d
  BY DEF Part, BodyOf, EndOf
<1>2. log \in Seq(Part) /\ UNCHANGED <<cursor, sized, seen>>
  BY DEF CursorInv, Record
<1> HIDE DEF b, d
<1>3. CASE AppendLine(e)
  <2>1. ~Logged(b) /\ ~Logged(d) /\ log' = log \o <<b, d>>
    BY <1>3 DEF AppendLine, b, d
  <2>2. <<b, d>> \in Seq(Part) /\ \A i, j \in 1..Len(<<b, d>>) : <<b, d>>[i] = <<b, d>>[j] => i = j
    BY <1>1
  <2>3. \A i \in 1..Len(<<b, d>>) : ~Logged(<<b, d>>[i])
    <3>1. \A i \in 1..Len(<<b, d>>) : <<b, d>>[i] = b \/ <<b, d>>[i] = d
      OBVIOUS
    <3> QED
      BY <2>1, <3>1, Zenon
  <2> QED
    BY <1>2, <2>1, <2>2, <2>3, WritesKeep
<1>4. ASSUME NEW p \in {b, d}, ~Logged(p), log' = Append(log, p) PROVE CursorInv'
  <2>1. p \in Part
    BY <1>1
  <2>2. log' = log \o <<p>>
    BY <1>2, <1>4, <2>1, AppendIsConcat
  <2>3. <<p>> \in Seq(Part) /\ \A i, j \in 1..Len(<<p>>) : <<p>>[i] = <<p>>[j] => i = j
    BY <2>1
  <2>4. \A i \in 1..Len(<<p>>) : ~Logged(<<p>>[i])
    <3>1. \A i \in 1..Len(<<p>>) : <<p>>[i] = p
      OBVIOUS
    <3> QED
      BY <1>4, <3>1, Zenon
  <2> QED
    BY <1>2, <2>2, <2>3, <2>4, WritesKeep
<1>5. CASE AppendBody(e)
  BY <1>4, <1>5 DEF AppendBody, b
<1>6. CASE AppendEnd(e)
  BY <1>4, <1>6 DEF AppendEnd, d
<1> QED
  BY <1>3, <1>5, <1>6 DEF Record

LEMMA TruncateKeeps ==
  ASSUME CursorInv, NEW n \in Nat, Truncate(n)
  PROVE  CursorInv'
<1>1. /\ log \in Seq(Part) /\ Len(log) \in Nat /\ n < Len(log) /\ log' = SubSeq(log, 1, n)
      /\ offset' = offset /\ events' = events /\ partial' = partial /\ sized' = sized
      /\ seen' = (seen /\ n >= offset) /\ offset \in Nat
  BY DEF CursorInv, Truncate, cursor
<1>2. log' \in Seq(Part) /\ Len(log') = n /\ \A i \in 1..n : log'[i] = log[i]
  <2>1. n \in 0..Len(log) /\ 0 \in 0..n
    BY <1>1
  <2> QED
    BY <1>1, <2>1, PrefixFacts
<1>3. Once'
  <2>1. SUFFICES ASSUME NEW i \in 1..n, NEW j \in 1..n, log'[i] = log'[j] PROVE i = j
    BY <1>2 DEF Once
  <2>2. i \in 1..Len(log) /\ j \in 1..Len(log)
    BY <1>1
  <2>3. log[i] = log[j]
    BY <1>2, <2>1
  <2> QED
    BY <2>2, <2>3 DEF CursorInv, Once
<1>4. ShowsLog'
  <2>1. ShowsLog' <=> (seen' => Showing(log', offset', events', partial'))
    BY <1>1, <1>2, ShowsIsShowingNext
  <2>2. SUFFICES ASSUME seen, n >= offset PROVE Showing(log', offset, events, partial)
    BY <1>1, <2>1
  <2>3. Showing(log, offset, events, partial)
    BY <1>1, <2>2, ShowsIsShowing DEF CursorInv
  <2>4. offset <= Len(log') /\ \A i \in 1..offset : log[i] = log'[i]
    BY <1>1, <1>2, <2>2
  <2> QED
    BY <1>1, <1>2, <2>3, <2>4, StillShowing
<1>5. seen' \in BOOLEAN
  BY <1>1
<1> QED
  BY <1>1, <1>2, <1>3, <1>4, <1>5 DEF CursorInv

LEMMA StatKeeps ==
  ASSUME CursorInv, Stat
  PROVE  CursorInv'
<1>1. log \in Seq(Part) /\ log' = log /\ sized' = TRUE
  BY DEF CursorInv, Stat
<1>2. Once'
  BY <1>1 DEF CursorInv, Once
<1>3. CASE Len(log) < offset
  <2>1. offset' = 0 /\ partial' = <<>> /\ events' = <<>> /\ seen' = TRUE
    BY <1>3 DEF Stat
  <2>2. ShowsLog'
    <3>1. log' \in Seq(Part) /\ offset' \in Nat
      BY <1>1, <2>1
    <3>2. Showing(log, 0, <<>>, <<>>)
      BY <1>1, ShowsNothing
    <3> QED
      BY <1>1, <2>1, <3>1, <3>2, ShowsIsShowingNext
  <2>3. /\ <<>> \in Seq(Part) /\ <<>> \in Seq(Events) /\ Len(<<>>) <= EventLimit
        /\ 0 \in 0..(2 * Cardinality(Events))
    BY CursorAssumption, FS_CardinalityType
  <2> QED
    BY <1>1, <1>2, <2>1, <2>2, <2>3 DEF CursorInv
<1>4. CASE ~(Len(log) < offset)
  <2>1. offset' = offset /\ partial' = partial /\ events' = events /\ seen' = seen
    BY <1>4 DEF Stat, cursor
  <2>2. ShowsLog'
    BY <1>1, <2>1 DEF CursorInv, ShowsLog
  <2> QED
    BY <1>1, <1>2, <2>1, <2>2 DEF CursorInv
<1> QED
  BY <1>3, <1>4

LEMMA ReadRestKeeps ==
  ASSUME CursorInv, ReadRest
  PROVE  CursorInv'
<1> DEFINE L == Len(log)
           chunk == Chunk
           n == LastNewline(chunk)
           top == Max({offset, L})
<1>1. /\ log \in Seq(Part) /\ L \in Nat /\ offset \in Nat /\ partial \in Seq(Part)
      /\ events \in Seq(Events) /\ Len(events) <= EventLimit /\ offset \in 0..(2 * Cardinality(Events))
  BY DEF CursorInv
<1>2. /\ log' = log /\ seen' = seen /\ sized' = FALSE /\ partial' = LastLine(chunk)
      /\ events' = Shown(chunk) /\ offset' = top
  BY DEF ReadRest
<1>3. chunk \in Seq(Part)
  <2>1. \A i \in (offset + 1)..L : log[i] \in Part
    BY <1>1
  <2>2. SubSeq(log, offset + 1, L) \in Seq(Part)
    BY <1>1, <2>1, SubSeqProperties
  <2> QED
    BY <1>1, <2>2, ConcatProperties DEF Chunk
<1>4. top \in {offset, L} /\ top >= offset /\ top >= L
  <2>1. \E y \in {offset, L} : \A z \in {offset, L} : y >= z
    BY <1>1
  <2> QED
    BY <2>1 DEF Max
<1>5. L <= 2 * Cardinality(Events) /\ Cardinality(Events) \in Nat
  BY <1>1, LogIsShort DEF CursorInv, Once
<1>6. top \in 0..(2 * Cardinality(Events))
  BY <1>1, <1>4, <1>5
<1>7. n \in 0..Len(chunk) /\ Len(chunk) \in Nat
  BY <1>3, NewlineIsLast
<1> HIDE DEF chunk, n, top
<1>8. LastLine(chunk) \in Seq(Part)
  <2>1. LastLine(chunk) = SubSeq(chunk, n + 1, Len(chunk))
    BY DEF LastLine, n
  <2> QED
    BY <1>3, <1>7, <2>1, CutIs
<1>9. Shown(chunk) = IF n = 0 THEN events ELSE LastN(events \o Decoded(SubSeq(chunk, 1, n)), EventLimit)
  BY DEF Shown, n
<1>10. Shown(chunk) \in Seq(Events) /\ Len(Shown(chunk)) <= EventLimit
  <2>1. SubSeq(chunk, 1, n) \in Seq(Part)
    <3>1. 0 \in 0..n
      BY <1>7
    <3> QED
      BY <1>3, <1>7, <3>1, PrefixFacts
  <2>2. Decoded(SubSeq(chunk, 1, n)) \in Seq(Events)
    BY <2>1, DecodedTyped
  <2>3. events \o Decoded(SubSeq(chunk, 1, n)) \in Seq(Events)
    BY <1>1, <2>2, ConcatProperties
  <2>4. /\ LastN(events \o Decoded(SubSeq(chunk, 1, n)), EventLimit) \in Seq(Events)
        /\ Len(LastN(events \o Decoded(SubSeq(chunk, 1, n)), EventLimit)) <= EventLimit
    BY <2>3, LastNIs, CursorAssumption
  <2> QED
    BY <1>1, <1>9, <2>4
<1>11. ShowsLog'
  <2>1. log' \in Seq(Part) /\ offset' \in Nat
    BY <1>1, <1>2, <1>6
  <2>2. SUFFICES ASSUME seen PROVE Showing(log, top, Shown(chunk), LastLine(chunk))
    BY <1>2, <2>1, ShowsIsShowingNext
  <2>3. Showing(log, offset, events, partial)
    BY <1>1, <2>2, ShowsIsShowing DEF CursorInv
  <2>4. top = L
    BY <1>1, <1>4, <2>3 DEF Showing
  <2>5. chunk = partial \o SubSeq(log, offset + 1, Len(log))
    BY DEF chunk, Chunk
  <2>6. Showing(log, Len(log), IF LastNewline(chunk) = 0 THEN events
                               ELSE LastN(events \o Decoded(SubSeq(chunk, 1, LastNewline(chunk))), EventLimit),
                LastLine(chunk))
    BY <1>1, <2>3, <2>5, ReadsOn
  <2> QED
    BY <1>9, <2>4, <2>6 DEF n
<1>12. Once' /\ seen' \in BOOLEAN /\ sized' \in BOOLEAN
  BY <1>2 DEF CursorInv, Once
<1> QED
  BY <1>1, <1>2, <1>6, <1>8, <1>10, <1>11, <1>12 DEF CursorInv

(* What the cursor keeps is in its invariant, of which no write, truncation  *)
(* or half of a read takes it out.                                           *)
THEOREM CursorInvariance == CursorSpec => []CursorInv
<1>1. CursorInit => CursorInv
  <2>1. SUFFICES ASSUME CursorInit PROVE CursorInv
    OBVIOUS
  <2>2. log = <<>> /\ offset = 0 /\ partial = <<>> /\ events = <<>> /\ sized = FALSE /\ seen = TRUE
    BY <2>1, Zenon DEF CursorInit
  <2>3. /\ <<>> \in Seq(Part) /\ <<>> \in Seq(Events) /\ Len(<<>>) = 0 /\ Len(<<>>) <= EventLimit
        /\ 0 \in 0..(2 * Cardinality(Events))
    BY CursorAssumption, FS_CardinalityType
  <2>4. Showing(<<>>, 0, <<>>, <<>>)
    BY <2>3, ShowsNothing
  <2>5. ShowsLog
    BY <2>2, <2>3, <2>4, ShowsIsShowing
  <2>6. Once
    BY <2>2, <2>3 DEF Once
  <2> QED
    BY <2>2, <2>3, <2>5, <2>6 DEF CursorInv
<1>2. CursorInv /\ [CursorNext]_cursor_vars => CursorInv'
  <2>1. SUFFICES ASSUME CursorInv, [CursorNext]_cursor_vars PROVE CursorInv'
    OBVIOUS
  <2>2. CASE CursorNext
    <3>1. ASSUME NEW n \in 0..(2 * Cardinality(Events)), Truncate(n) PROVE CursorInv'
      <4>1. n \in Nat
        OBVIOUS
      <4> QED
        BY <2>1, <3>1, <4>1, TruncateKeeps
    <3> QED
      BY <2>1, <2>2, <3>1, RecordKeeps, StatKeeps, ReadRestKeeps DEF CursorNext
  <2>3. CASE UNCHANGED cursor_vars
    BY <2>1, <2>3 DEF cursor_vars, cursor, CursorInv, Once, ShowsLog
  <2> QED
    BY <2>1, <2>2, <2>3
<1> QED
  BY <1>1, <1>2, PTL DEF CursorSpec

(* A dashboard that has not lost the place of its cursor shows the last of   *)
(* the events whose lines the log completed before it, once each and in      *)
(* order, however its lines were written and wherever a read was cut.        *)
THEOREM LogIsShown == CursorSpec => []CursorFaithful
<1>1. CursorInv => CursorFaithful
  BY DEF CursorInv, CursorFaithful, CursorTypeOK, Part
<1> QED
  BY <1>1, CursorInvariance, PTL
=============================================================================
