---------------------------- MODULE ProviderClient ----------------------------
(***************************************************************************)
(* The clients of AI providers (holyfitra_ai_api.py): AIClient picks a provider, *)
(* which posts what it is asked in its own form and reads the answers; a source  *)
(* that is asked for is validated and written.                               *)
(*   Clients run in threads or processes of their own, over an environment that  *)
(* changes and servers that answer, answer in part or in another order, send    *)
(* the request elsewhere, or do not answer at all.  The vector of a text is the  *)
(* text.                                                                     *)
(***************************************************************************)
EXTENDS Integers, SequencesExt, FiniteSetsExt, TLC

CONSTANTS
  Clients,
  Registry,           \* the providers in order: name, kind, whether it needs a credential, its endpoint
  Environments,       \* the keys that are set, HOLYFITRA_AI_PROVIDER, whether plain HTTP is allowed
  Requests,           \* what, of which provider ("" for any), tools, messages or texts
  Sources, Accepted,  \* what an answer may hold; those the validator accepts
  MaxCalls, MaxEdits

VARIABLES
  environ,
  call,        \* of each client: where it is, and what it has
  sent,        \* history: the posts, and what became of those that were redirected
  inodes, temporary, output,   \* the files written, and which of them has which name; 0 for none
  alone,       \* history: no two have been writing at once
  calls, edits \* bounds

vars == <<environ, call, sent, inodes, temporary, output, alone, calls, edits>>
Idle == [at |-> "idle"]

Init ==
  /\ environ \in Environments /\ call = [c \in Clients |-> Idle] /\ sent = {}
  /\ inodes = <<>> /\ temporary = 0 /\ output = 0 /\ alone = TRUE /\ calls = 0 /\ edits = 0
-----------------------------------------------------------------------------
Files == UNCHANGED <<inodes, temporary, output, alone>>
At(c, step) == call[c].at = step
Becomes(c, new) == call' = [call EXCEPT ![c] = new]
Raise(c) == Becomes(c, Idle)

(* ProviderRegistry.select: the one that was named, here or in the environment,   *)
(* or the first that is configured.                                          *)
Named(name) == {i \in DOMAIN Registry : Registry[i].name = name}
Configured == {i \in DOMAIN Registry : Registry[i].needs => Registry[i].name \in environ.keys}
select(name) ==
  LET requested == IF name # "" THEN name ELSE environ.provider
      found == IF requested # "" THEN Named(requested) ELSE Configured
  IN  IF found = {} THEN 0 ELSE Min(found)

(* What is refused before anything is sent: OpenAI and Cohere look at all texts,  *)
(* Gemini at each in its turn; Cohere has no tools and Anthropic no embeddings.   *)
Refused(kind, request) ==
  IF request.what # "embed" THEN kind = "cohere" /\ request.tools
  ELSE kind = "anthropic" \/ (kind # "gemini" /\ (request.texts = <<>> \/ "" \in Range(request.texts)))

Selects(c, request) ==
  /\ At(c, "idle") /\ calls < MaxCalls /\ calls' = calls + 1 /\ Files /\ UNCHANGED <<environ, sent, edits>>
  /\ LET i == select(request.provider)
     IN  IF i = 0 THEN Raise(c)
         ELSE IF Refused(Registry[i].kind, request) THEN Raise(c)
         ELSE Becomes(c, [at |-> "key", provider |-> Registry[i], request |-> request, environ |-> environ])

(* _credential: read before the first post.                                   *)
_credential(c) ==
  /\ At(c, "key") /\ Files /\ UNCHANGED <<environ, sent, calls, edits>>
  /\ LET p == call[c].provider
     IN  IF p.needs /\ p.name \notin environ.keys THEN Raise(c)
         ELSE Becomes(c, [call[c] EXCEPT !.at = "post"] @@
                         [key |-> IF p.needs THEN p.name ELSE "", vectors |-> <<>>, moved |-> FALSE])

(* What a provider makes of the messages.                                     *)
Systems(messages) == SelectSeq(messages, LAMBDA m : m.role = "system")
Others(messages) == SelectSeq(messages, LAMBDA m : m.role # "system")
Payload(kind, messages) ==
  IF kind = "gemini"
  THEN [system |-> Systems(messages),
        messages |-> [i \in DOMAIN Others(messages) |->
                        [Others(messages)[i] EXCEPT !.role = IF @ = "assistant" THEN "model" ELSE "user"]]]
  ELSE IF kind = "anthropic" THEN [system |-> Systems(messages), messages |-> Others(messages)]
  ELSE [system |-> <<>>, messages |-> messages]

_validate_url(endpoint) == endpoint = "https" \/ endpoint = "loopback" \/ (endpoint = "http" /\ environ.allow_http)

(* post_json: Gemini embeds one text at a time.                                *)
Embeds(c) == call[c].request.what = "embed"
ByText(c) == Embeds(c) /\ call[c].provider.kind = "gemini"
Due(c) == Len(call[c].vectors) + 1
Returned(c, result) == Becomes(c, [at |-> "returned", provider |-> call[c].provider, request |-> call[c].request,
                                   environ |-> call[c].environ, result |-> result, moved |-> call[c].moved])
post_json(c) ==
  /\ At(c, "post") /\ Files /\ UNCHANGED <<environ, calls, edits>>
  /\ LET p == call[c].provider  request == call[c].request
         what == IF ByText(c) THEN [texts |-> <<request.texts[Due(c)]>>]
                 ELSE IF Embeds(c) THEN [texts |-> request.texts] ELSE Payload(p.kind, request.messages)
     IN  IF ByText(c) /\ Due(c) > Len(request.texts) THEN Returned(c, call[c].vectors) /\ UNCHANGED sent
         ELSE IF (ByText(c) /\ what.texts = <<"">>) \/ ~_validate_url(p.endpoint) THEN Raise(c) /\ UNCHANGED sent
         ELSE /\ sent' = sent \cup {[to |-> p, key |-> call[c].key, what |-> what, allowed |-> environ.allow_http,
                                    moved |-> FALSE]}
              /\ Becomes(c, [call[c] EXCEPT !.at = "answer"])

(* External, urlopen: a redirect is followed wherever it points, in the clear or   *)
(* not, with the headers of the post and without its payload; nothing is           *)
(* validated again.  Once in a call.                                         *)
Redirected(c) ==
  /\ At(c, "answer") /\ ~call[c].moved /\ Files /\ UNCHANGED <<environ, calls, edits>>
  /\ sent' = sent \cup {[to |-> call[c].provider, key |-> call[c].key, what |-> [texts |-> <<>>], allowed |-> FALSE,
                          moved |-> TRUE]}
  /\ Becomes(c, [call[c] EXCEPT !.moved = TRUE])

(* An error, a timeout, something too large or of another form: the call raises,  *)
(* and is not tried again.                                                    *)
Fails(c) == At(c, "answer") /\ Raise(c) /\ Files /\ UNCHANGED <<environ, sent, calls, edits>>

(* External: servers say which text a vector is of, or keep the order, and may    *)
(* leave some out.                                                           *)
Indices(texts) == UNION {{s \in [1..n -> DOMAIN texts] : IsInjective(s)} : n \in 0..Len(texts)}
InOrder(s) == \A i, j \in DOMAIN s : i < j => s[i] < s[j]
Data(kind, texts) ==
  {[i \in DOMAIN s |-> [index |-> s[i], embedding |-> texts[s[i]]]] :
     s \in {s \in Indices(texts) : kind = "openai" \/ InOrder(s)}}

(* Variant with a fault: OpenAI's vectors are taken as they come.               *)
AsTheyCome(kind, data) == data

Ordered(kind, data) == IF kind = "openai" THEN SortSeq(data, LAMBDA a, b : a.index < b.index) ELSE data
Vectors(kind, data) == LET ordered == Ordered(kind, data) IN [i \in DOMAIN ordered |-> ordered[i].embedding]

(* Elsewhere the texts are not known, and a vector is of none of them.           *)
embed(c) ==
  /\ At(c, "answer") /\ Embeds(c) /\ Files /\ UNCHANGED <<environ, sent, calls, edits>>
  /\ IF ByText(c)
     THEN LET vector == IF call[c].moved THEN "" ELSE call[c].request.texts[Due(c)]
          IN  Becomes(c, [call[c] EXCEPT !.at = "post", !.vectors = Append(@, vector)])
     ELSE IF call[c].moved THEN Returned(c, [i \in DOMAIN call[c].request.texts |-> ""])
     ELSE \E data \in Data(call[c].provider.kind, call[c].request.texts) :
            Returned(c, Vectors(call[c].provider.kind, data))

chat(c) ==
  /\ At(c, "answer") /\ ~Embeds(c) /\ Files /\ UNCHANGED <<environ, sent, calls, edits>>
  /\ \E text \in [fenced : {<<>>} \cup {<<s, t>> : s, t \in Sources}, rest : Sources \cup {""}] : Returned(c, text)
-----------------------------------------------------------------------------
(* extract_fitra_source: the first block that is fenced, or all of it.           *)
extract_fitra_source(text) == IF text.fenced # <<>> THEN text.fenced[1] ELSE text.rest

Partial == "partial"
Shared(c) == \E d \in Clients \ {c} : At(d, "write") /\ call[d].handle = call[c].handle

(* write_validated_fitra, of an answer to generate_fitra: opening empties the     *)
(* temporary file, whoever else is writing it.                                *)
write_validated_fitra(c) ==
  /\ At(c, "returned") /\ call[c].request.what = "generate" /\ UNCHANGED <<environ, sent, output, calls, edits>>
  /\ LET source == extract_fitra_source(call[c].result)
         handle == IF temporary = 0 THEN Len(inodes) + 1 ELSE temporary
     IN  IF source \notin Accepted THEN Raise(c) /\ UNCHANGED <<inodes, temporary, alone>>
         ELSE /\ Becomes(c, [at |-> "write", source |-> source, handle |-> handle]) /\ temporary' = handle
              /\ inodes' = IF temporary = 0 THEN Append(inodes, Partial) ELSE [inodes EXCEPT ![handle] = Partial]
              /\ alone' = (alone /\ \A d \in Clients : call[d].at \notin {"write", "replace"})

(* Over what another has written, any of it may be left.                       *)
Write(c) ==
  /\ At(c, "write") /\ Becomes(c, [at |-> "replace"]) /\ UNCHANGED <<environ, sent, temporary, output, alone, calls, edits>>
  /\ \E content \in {call[c].source} \cup (IF Shared(c) \/ inodes[call[c].handle] # Partial THEN {Partial} ELSE {}) :
       inodes' = [inodes EXCEPT ![call[c].handle] = content]

Replace(c) ==
  /\ At(c, "replace") /\ Raise(c) /\ UNCHANGED <<environ, sent, inodes, alone, calls, edits>>
  /\ IF temporary = 0 THEN UNCHANGED <<temporary, output>> ELSE output' = temporary /\ temporary' = 0

Taken(c) == At(c, "returned") /\ Raise(c) /\ Files /\ UNCHANGED <<environ, sent, calls, edits>>

Edit == /\ edits < MaxEdits /\ edits' = edits + 1 /\ \E e \in Environments \ {environ} : environ' = e
        /\ Files /\ UNCHANGED <<call, sent, calls>>
Die(c) == /\ edits < MaxEdits /\ edits' = edits + 1 /\ ~At(c, "idle") /\ Raise(c)
          /\ Files /\ UNCHANGED <<environ, sent, calls>>

Next ==
  \/ Edit
  \/ \E c \in Clients :
       \/ \E request \in Requests : Selects(c, request)
       \/ _credential(c) \/ post_json(c) \/ Redirected(c) \/ Fails(c) \/ embed(c) \/ chat(c)
       \/ write_validated_fitra(c) \/ Write(c) \/ Replace(c) \/ Taken(c) \/ Die(c)

Spec == Init /\ [][Next]_vars
-----------------------------------------------------------------------------
(* A call is answered by the provider that was named or by the first that was      *)
(* configured as it began; vectors, when there are as many as texts, are those of  *)
(* the texts in order, unless the provider sent the call elsewhere.             *)
AnswersHold ==
  \A c \in Clients : At(c, "returned") =>
    LET r == call[c]  name == IF r.request.provider # "" THEN r.request.provider ELSE r.environ.provider
        Usable(p) == p.needs => p.name \in r.environ.keys
        before == {i \in DOMAIN Registry : \A j \in 1..i : Registry[j] # r.provider}
    IN  /\ IF name # "" THEN r.provider.name = name
           ELSE Usable(r.provider) /\ \A i \in before : ~Usable(Registry[i])
        /\ Embeds(c) /\ ~r.moved /\ Len(r.result) = Len(r.request.texts) => r.result = r.request.texts

(* A post goes to a provider with that provider's key and no other, and in the    *)
(* clear only while that is allowed.  Where the provider sends it on to, it goes   *)
(* with the same key, and in the clear if it is told so.                       *)
PostsHold ==
  \A post \in sent : /\ post.key = IF post.to.needs THEN post.to.name ELSE ""
                     /\ post.to.endpoint = "http" /\ ~post.moved => post.allowed

(* A provider is sent each message once, those of the system apart or in place,     *)
(* and the others in order.                                                   *)
Contents(messages) == [i \in DOMAIN messages |-> messages[i].content]
PayloadsHold ==
  \A request \in {r \in Requests : r.what # "embed"}, kind \in {Registry[i].kind : i \in DOMAIN Registry} :
    LET p == Payload(kind, request.messages)
    IN  /\ Contents(p.system \o Systems(p.messages)) = Contents(Systems(request.messages))
        /\ Contents(Others(p.messages)) = Contents(Others(request.messages))

(* The output is a source that was accepted, as long as one writes at a time.      *)
OutputHolds == alone /\ output # 0 => inodes[output] \in Accepted

ClientsHold == AnswersHold /\ PostsHold /\ PayloadsHold /\ OutputHolds
=============================================================================
