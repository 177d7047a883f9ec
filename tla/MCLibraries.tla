------------------------------ MODULE MCLibraries ------------------------------
(***************************************************************************)
(* Small instances of the components that share no state with another: the    *)
(* tensor pool, the speculative decoders, the telemetry cursor, the prefill  *)
(* pages, the files with their receipts, the governed memory, and the tools  *)
(* around the runtime (the coding agent, the passes of the compiler and its  *)
(* caches, what programs run on, the agent's evidence, models, plans, notes). *)
(* A behaviour is one of one of them, in the pool's own variables or in those *)
(* below, which stand for the variables of that component.                   *)
(***************************************************************************)
EXTENDS SharedTensorPool, SpeculativeDecoding, TelemetryCursor, PrefillPages, ConsentedActions, WorkspaceChange

CONSTANTS x, y, z, w,  \* tensors, events, requests, paths or keys
          NaN          \* a gradient that is not finite

VARIABLES tool, v1, v2, v3, v4, v5, v6, v7, v8, v9

Small == x :> 1 @@ y :> 3

Asked(n, p, d) == [length |-> n, priority |-> p, deadline |-> d]

(* Three short requests in one bucket, and one longer than a batch.          *)
Requested == x :> Asked(2, 1, 0) @@ y :> Asked(1, 1, 1) @@ z :> Asked(2, 2, 0)
               @@ w :> Asked(5, 1, 0)

(* Consents to move, a narrow one and one for everything, the same to        *)
(* remember, and one for something else.                                    *)
Consent(action, scope, expires_at) ==
  [action |-> action, scope |-> scope, expires_at |-> expires_at, audience |-> "*"]
Consents == "narrow move" :> Consent("files.move", "x/", 2) @@ "move" :> Consent("files.move", "*", 1)
              @@ "narrow write" :> Consent("memory.write", "x/", 2)
              @@ "write" :> Consent("memory.write", "*", 1) @@ "other" :> Consent("other", "*", 2)

(* A scope that ends in a slash, and a permit to report what is secret.      *)
Scopes == "x/" :> {x}
ReportPermit == "permit" :> [source |-> "secret", target |-> "private", use |-> "report", expires_at |-> 1]
ASSUME LibraryAssumption == DecoderConstants /\ ConsentConstants
-----------------------------------------------------------------------------
(* Two files, one of three sizes of content each; two or three providers.     *)
WriteFile(p, c) == [kind |-> "write_file", path |-> p, content |-> c]
ReadFile(p) == [kind |-> "read_file", path |-> p]
RunCheck == [kind |-> "run_check"]
Proposals == {<<WriteFile("a", 1), RunCheck, [kind |-> "finish"]>>,
              <<WriteFile("a", 1), WriteFile("b", 1), WriteFile("a", 2), RunCheck>>,
              <<RunCheck, WriteFile("b", 1)>>, <<ReadFile("b"), WriteFile("b", 3), RunCheck>>}

TwoFiles == <<"a", "b">>
OneToThree == <<1, 2, 3>>

Build == INSTANCE BuildCache
           WITH Builders <- {1, 2}, Digests <- {"d1", "d2"}, Outputs <- {"o", "p"}, Absent <- "absent", Torn <- "torn",
                _MEMORY_COMPILE_CACHE_LIMIT <- 1, llvm <- v1, native <- v2, sha256 <- v3,
                memory <- v4, builds <- v5, output <- v6, overlapped <- v7
ASSUME BuildAssumption == Build!BuildConstants
-----------------------------------------------------------------------------
(* Functions of a few statements: every small if, loops with breaks and       *)
(* continues, and conditions with an operator in an operand, in an argument or  *)
(* in what is compared, on the left and on the right.                        *)
CallOn(f, es) == [op |-> "call", name |-> f, arguments |-> es]
Call(f) == CallOn(f, <<>>)
Name(n) == [op |-> "name", name |-> n]
Both(op, l, r) == [op |-> op, left |-> l, right |-> r]
True == [op |-> "const", value |-> TRUE]
Let(e) == [op |-> "let", name |-> "x", value |-> e]
Assign(e) == [op |-> "assign", name |-> "x", value |-> e]
Returning(e) == [op |-> "return", value |-> e]
If(e, a, b) == [op |-> "if", cond |-> e, then |-> a, orelse |-> b]
While(e, b) == [op |-> "while", cond |-> e, body |-> b]
Jumps == {[op |-> "break"], [op |-> "continue"]}
Plain == {Let(Call("g")), Assign(Name("x")), Assign(True), Returning(Call("h")), Returning(Name("x"))}
Arms == {<<>>} \cup {<<t>> : t \in Plain} \cup {<<t, Returning(Name("x"))>> : t \in Plain}
Inside == {<<>>} \cup {<<t>> : t \in Plain \cup Jumps} \cup {<<j, Returning(True)>> : j \in Jumps}
Ifs(e, bs) == {If(e, a, b) : a, b \in bs}
Conditions == {Call("f"), Both("&&", Call("f"), Call("g")),
               Both("||", Both("&&", Call("f"), Name("x")), Call("g"))}
Loops == {While(Call("f"), <<t>>) : t \in Ifs(Call("g"), Inside)}
           \cup {While(Call("f"), <<Let(Call("g")), t, Assign(Call("h"))>>) :
                   t \in Ifs(Name("x"), {<<j>> : j \in Jumps} \cup {<<>>, <<Returning(True)>>})}
Statements == Loops \cup UNION {Ifs(e, Arms) : e \in Conditions}
Logicals == {Both(op, l, r) : op \in {"&&", "||"}, l, r \in {Call("g"), Name("x"), True}}
Within(e) == {CallOn("f", <<e, Call("h")>>), Both("==", e, Call("h")), Both("==", True, e)}
Nested == UNION {{Both("&&", o, Call("f")), Both("||", Call("f"), o), o} : o \in UNION {Within(e) : e \in Logicals}}
            \cup {Both("||", Call("f"), Both("&&", Call("g"), Call("h")))}
Functions == {<<Let(True), t>> : t \in Statements} \cup {<<Let(True), t, Returning(Name("x"))>> : t \in Statements}
               \cup {<<Let(True), Assign(e), Returning(Name("x"))>> : e \in Nested}

Emitter == INSTANCE EmitterBlocks WITH Bodies <- Functions, MaxCalls <- 5, body <- v1, answers <- v2

(* Programs of four files: the entry imports two of them, in every order.     *)
AtMostOne(S) == {<<>>} \cup {<<f>> : f \in S}
Programs == {<<a, b, c, d>> : a \in AtMostOne(2..4) \cup ((2..4) \X (2..4)),
                              b \in AtMostOne({1, 3, 4}) \cup {<<3, 4>>},
                              c \in AtMostOne({2, 4}) \cup {<<4, 4>>}, d \in AtMostOne({2, 4})}

Graphs == INSTANCE ProgramGraphs
            WITH Files <- 1..4, entry <- 1, ImportMaps <- Programs, _MAX_NATIVE_IMPORTS <- 3,
                 Names <- 1..3, AllowedEffects <- {"io", "unsafe"},
                 imports <- v1, modules <- v2, active <- v3, error <- v4, calls <- v5, effects <- v6

IntType(n, u) == [width |-> n, unsigned |-> u]
Numbers == INSTANCE NativeIntegers
             WITH Types <- {IntType(n, u) : n \in {3, 4}, u \in BOOLEAN},
                  Bits <- 6, Minus <- 45, Other <- 46, MaxText <- 4,
                  type <- v1, register <- v2, text <- v3, accumulator <- v4, result <- v5

(* Declarations, with their semicolons and without, and headers of functions   *)
(* that are wrong; the statements of a body.                                   *)
Piece(kind, text, tree) == [kind |-> kind, text |-> text, tree |-> tree]
Header == <<"fn", "f", "(", ")", "->", "i32">>
OneTask == <<"true", "1", "none", "1", "false", "false">>
DeclarationPieces ==
  {Piece("module", <<"module", "m">>, <<"m">>), Piece("import", <<"import", "a.hf">>, <<"import", "a.hf">>),
   Piece("import", <<"import", "a.hf", ";">>, <<"import", "a.hf">>), Piece("faulty", <<"import", "">>, <<"faulty">>),
   Piece("capability", <<"capability", "{", "{", "x", "}", ";", "}">>, <<>>),
   Piece("capability P", <<"capability", "x", "{", "f", ";", "}">>, <<>>),
   Piece("budget", <<"budget", "x">>, <<>>), Piece("budget;", <<"budget", "x", ";">>, <<>>),
   Piece("function", Header \o <<"{", "return", "1", "}">>, <<"f", "owned", "i32", "{", "1", "return e", "}">>),
   Piece("function", <<"fn", "f", "(", "x", ":", "borrow", "i32", ",", "m", ":", "i32", ")", "->", "i32",
                       "effects", "[", "io", "]", "task", "[", "priority", "=", "0", ",", "async", ",",
                       "priority", ",", "cancelable", "=", "x", "]", "{", "}">>,
         <<"f", "x", "borrow", "i32", "m", "owned", "i32", "owned", "i32", "io">> \o OneTask \o <<"{", "}">>),
   Piece("function", <<"hybrid">> \o Header \o <<"using", "[", "x", ",", "m", "]", ";">>,
         <<"f", "owned", "i32", "x", "m", "pipe">>),
   Piece("function", <<"hybrid", "parallel">> \o Header
                       \o <<"using", "[", "x", "]", "reduce", "builtin", "sum", "workers", "=", "1">>,
         <<"f", "owned", "i32", "x", "builtin", "sum", "1", "parallel">>)}
    \cup {Piece("faulty", p, <<"faulty">>) :
            p \in {<<"fn", "f", "(", "x", ":", "i32", ",", ")", "->", "i32", "{", "}">>,
                   Header \o <<"task", "[", "odd", "]", "{", "}">>,
                   Header \o <<"task", "[", "]", "effects", "[", "]", "{", "}">>,
                   <<"hybrid">> \o Header \o <<"{", "}">>,
                   <<"hybrid", "parallel">> \o Header \o <<"using", "[", "]">>}}
BodyPieces ==
  {Piece("statement", <<"break", ";">>, <<"break">>), Piece("statement", <<"continue">>, <<"continue">>),
   Piece("statement", <<"let", "x", "=", "1", ";">>, <<"1", "let", "x">>),
   Piece("statement", <<"var", "x", ":", "i32", "=", "x">>, <<"owned", "i32", "x", "var", "x">>),
   Piece("statement", <<"x", "=", "f", "(", ")">>, <<"call0", "=", "x">>),
   Piece("statement", <<"return", ";">>, <<"return">>), Piece("return", <<"return">>, <<"return">>),
   Piece("statement", <<"return", "x">>, <<"x", "return e">>),
   Piece("while", <<"while", "x", "<", "1", "{">>, <<"x", "1", "<", "{">>),
   Piece("if", <<"if", "x", "{">>, <<"x", "{">>),
   Piece("else", <<"}", "else", "{">>, <<"}", "{">>), Piece("close", <<"}">>, <<"}">>)}
Body == Piece("fn", Header \o <<"{">>, <<"f", "owned", "i32", "{">>)

Frontend == INSTANCE NativeFrontend
              WITH Tokens <- {"1", "x", "-", "<", "(", ")", ","}, MaxTokens <- 6, MAX_AST_DEPTH <- 2,
                   Pieces <- DeclarationPieces \cup BodyPieces, MaxPieces <- 5, _MAX_NATIVE_IMPORTS <- 1, MAX_FUNCTIONS <- 2,
                   Names <- {"a", "b"}, Parameters <- "a" :> [type |-> "i64", mode |-> "borrow_mut"],
                   MaxDepth <- 3, MaxStatements <- 4, IntegerTypes <- {"i32", "i64"},
                   tokens <- v1, pieces <- v2, frames <- v3, declared <- v4, statements <- v5

Tensor(n, a, b) == [name |-> n, shape |-> <<a, b>>]
Opens(o, n, ts) == [op |-> o, name |-> n, params |-> ts]
Language == INSTANCE LanguageCore
              WITH MaxLines <- 5, lines <- v1, parse <- v2,
                   Lines <- {[op |-> o] : o \in {"module", "allow", "budget", "}"}}
                              \cup {Opens("capability", "P", <<>>), Opens("fn", "f", <<Tensor("x", 2, 3)>>),
                                    Opens("fn", "g", <<Tensor("y", 3, 2), Tensor("x", 2, 3)>>),
                                    [op |-> "tensor", name |-> "y", shape |-> <<3, 1>>],
                                    [op |-> "matmul", name |-> "z", left |-> "x", right |-> "y"]}

Operation(o, i, u) == [op |-> o, inputs |-> i, outputs |-> u, attr |-> "c", declares |-> TRUE]
HyperIR == INSTANCE HyperIr
        WITH Request <- "a", Proofs <- {<<1, 0>>, <<1, 1>>}, MaxOperations <- 3, _VERIFY_CACHE_LIMIT <- 1,
             Policies <- {[allow |-> {{"a"}}, deny |-> d] : d \in {{}, {{"a"}}}},
             Values <- {[name |-> "y", kind |-> k] : k \in {"prediction", "fact"}}
                         \cup {[name |-> "g", kind |-> "fact"]},
             Ops <- {Operation(o, {}, {}) : o \in {"cache_begin", "cache_commit", "cache_rollback"}}
                      \cup {Operation("tool_propose", {}, {"y"}), Operation("verify_evidence", {"y"}, {"g"})},
             values <- v1, operations <- v2, policy <- v3, proof <- v4, _VERIFY_CACHE <- v5, verdict <- v6
-----------------------------------------------------------------------------
(* Models whose last group or tile is not full, with buffers that are long       *)
(* enough and too short, up to the greatest int.                              *)
NibbleShapes ==
  {[in_dim |-> i, out_dim |-> o, group_size |-> g, packed |-> p, scales |-> c, bias |-> b] :
     i \in {1, 3, 31}, o \in {1, 3, 5}, g \in {2, 4, 6, 30}, p \in {8, 16, 31}, c \in {4, 16}, b \in {0, 3}}
NibblePlans ==
  {[mode |-> m, scratch |-> n, rank |-> r, down |-> d, up |-> u, adapter_scratch |-> a] :
     m \in {"f32", "static_int8"}, n \in {0, 3}, r \in 0..2, d \in {3, 6}, u \in {5, 6, 10}, a \in 0..2}
Kernels == INSTANCE NibbleFlowBridge
             WITH Threads <- {"s", "t"}, Shapes <- NibbleShapes, Plans <- NibblePlans, MaxRows <- 6,
                  IntMax <- 31, SizeMax <- 63, MaxHandle <- 3,
                  shape <- v1, g_model_registry <- v2, g_next_model_handle <- v3, registry_lock <- v4,
                  refs <- v5, lock <- v6, closing <- v7, call <- v8

(* Paths of up to three segments, and some longer ones.                       *)
SegmentSeqs == UNION {[1..n -> {"", ".", "..", "a"}] : n \in 0..3}
                 \cup {<<"bcd", "a", "bcd">>, <<"a", "bcd", "..", "bcd">>, <<"a", "..", "..", "a">>,
                       <<"a", "a", "a">>, <<"..", "..", ".", "..">>}
SomePaths == {[absolute |-> TRUE, segments |-> s] : s \in SegmentSeqs}
               \cup {[absolute |-> FALSE, segments |-> s] : s \in {r \in SegmentSeqs : r = <<>> \/ r[1] # ""}}
Runtime == INSTANCE BootstrapRuntime
             WITH Addresses <- 1..3, Texts <- {<<1, 2>>, <<3>>}, MaxCapacity <- 2, Paths <- SomePaths,
                  Dirs <- {<<>>, <<"a">>, <<"a", "a">>}, MaxSegments <- 2, MaxPath <- 8,
                  memory <- v1, hf_resources <- v2, disk <- v3, writer <- v4, canonical <- v5

(* Branches on one worker and on more, and hybrids that are refused.            *)
Callable(p, r, b) == [parameters |-> p, returns |-> r, hybrid |-> b]
Hybrid(m, as, steps, n) ==
  [mode |-> m, arities |-> as, max_steps |-> steps, max_workers |-> n, reducer |-> m = "parallel"]
HybridCalls == INSTANCE HybridFunctions
           WITH Hybrids <- {Hybrid("parallel", <<1, 1, 1>>, 3, n) : n \in {1, 2, 33}}
                             \cup {Hybrid("parallel", <<2, n>>, 2, 32) : n \in {1, 2}}
                             \cup {Hybrid("pipe", <<n, 1, n>>, k, 1) : n \in {1, 2}, k \in {2, 3}},
                Types <- {"i32", "bool"}, WorkerCounts <- {1, 33},
                Reducers <- {"", "f2", "g2", "builtin:all", "q"},
                FunctionOf <- "f" :> Callable(<<"i32">>, "i32", FALSE)
                           @@ "g" :> Callable(<<"i32">>, "bool", FALSE)
                           @@ "b" :> Callable(<<"bool">>, "bool", FALSE)
                           @@ "v" :> Callable(<<"i32">>, "void", FALSE)
                           @@ "f2" :> Callable(<<"i32", "i32">>, "i32", FALSE)
                           @@ "g2" :> Callable(<<"i32", "bool">>, "i32", TRUE),
                declaration <- v1, h <- v2, cancel_event <- v3, futures <- v4, caller <- v5, results <- v6,
                ran <- v7
-----------------------------------------------------------------------------
Proofs == INSTANCE ProofGraph WITH EvidenceOf <- <<"g", "h", "g", "h", "">>, nodes <- v1, onValid <- v2

(* A fact and a claim against it; tools that cite the one or the other.       *)
Item(k, d, c) == [kind |-> k, topic |-> "t", denies |-> d, confidence |-> c]
NoClaim == [topic |-> "none"]
Claim(d) == [topic |-> "t", denies |-> d]
UseTool(n, c, e) == [kind |-> "tool", name |-> n, claim |-> c, cited |-> e]
Steps == {[kind |-> "retrieve"], UseTool("a", NoClaim, {}), UseTool("b", Claim(FALSE), {}),
          UseTool("a", Claim(TRUE), {<<0, "n">>}), UseTool("b", Claim(FALSE), {<<0, "m">>})}

Evidence == INSTANCE EvidenceRuntime
              WITH Plans <- UNION {[1..n -> Steps] : n \in 1..3}, max_steps <- 3, require_claims <- FALSE,
                   Documents <- <<0, "m">> :> Item("fact", FALSE, 2) @@ <<0, "n">> :> Item("claim", TRUE, 2),
                   Capability <- "a" :> "x" @@ "b" :> "y", NoClaim <- NoClaim, min_confidence <- 2,
                   Results <- {<<>>, Item("fact", TRUE, 2), Item("fact", FALSE, 1), Item("fact", FALSE, 2)},
                   run <- v1, ledger <- v2, trace <- v3, _cancelled <- v4, effects <- v5

Reconstruction == INSTANCE ReconstructionCache
                    WITH Thresholds <- {2, 4}, Gates <- {0, 1}, bonus <- 1, hysteresis <- 2, MaxCount <- 2,
                         error <- v1, cache <- v2, gate <- v3, burst <- v4, used <- v5

Capsule == INSTANCE ModelCapsule
             WITH Capsules <- {<<<<1>>, <<2, 2>>, <<3>>>>, <<<<1, 2>>, <<2>>, <<3>>>>},
                  Jobs <- {<<1, 2>>, <<2, 3>>, <<1, 2, 3>>, <<1>>}, cache_chunks <- 2, Junk <- 0,
                  file <- v1, capsule <- v2, job <- v3, result <- v4

(* A model that is exact in eighths, one that loses too much at its greatest      *)
(* weight, and one that is within the gate and drifts.                          *)
Exact == <<-8, 3, 1>>
Clipped == <<8, 3>>
Drifting == <<5, 2, -3>>
Pipeline == INSTANCE ModelPipeline
              WITH Pipelines <- {1, 2}, Models <- {Exact, Clipped, Drifting}, Data <- {"d", "e"},
                   ErrorOf <- Exact :> [d |-> 1, e |-> 9] @@ Clipped :> [d |-> 1, e |-> 1]
                                @@ Drifting :> [d |-> 2, e |-> 1],
                   max_mse <- 4, max_abs_error <- 5, BlockColumns <- {0, 2}, MaxCalls <- 2, MaxEdits <- 1,
                   rows <- v1, fingerprint <- v2, model <- v3, call <- v4, file <- v5, capsule <- v6,
                   calls <- v7, edits <- v8

Training == INSTANCE TrainingState
              WITH Parameters <- {1, 2}, Bad <- NaN, MaxSteps <- 3, capacity <- 2, MaxSeen <- 6,
                   samples <- 3, batch_size <- 2, shuffle_buffer <- 2,
                   model <- v1, optimizer <- v2, replay <- v3, streaming <- v4, epoch <- v5,
                   checkpoint <- v6, torn <- v7

(* In the second corpus the longest context says another byte than the next,      *)
(* and its second document starts anew; the third has more contexts than may be. *)
LocalModels == INSTANCE LocalLanguageModel
                 WITH Processes <- {1, 2}, BYTE_VOCAB_SIZE <- 2, order <- 2, max_contexts <- 5,
                   Corpora <- {<<<<0, 1>>>>, <<<<0, 0, 1>>, <<0, 0>>>>, <<<<0, 1, 1, 0>>>>, <<<<0>>, <<>>>>},
                   MaxCalls <- 3, model <- v1, receipt <- v2, call <- v3, inodes <- v4, temporary <- v5,
                   output <- v6, calls <- v7

Provider(name, kind, needs, endpoint) == [name |-> name, kind |-> kind, needs |-> needs, endpoint |-> endpoint]
Message(role, content) == [role |-> role, content |-> content]
Chat(what, provider, tools, messages) ==
  [what |-> what, provider |-> provider, tools |-> tools, messages |-> messages]
Embed(provider, texts) == [what |-> "embed", provider |-> provider, texts |-> texts]
Prompt == <<Message("system", "s"), Message("user", "u")>>
Talk == <<Message("user", "u"), Message("assistant", "a"), Message("system", "s"), Message("user", "v")>>
Clients == INSTANCE ProviderClient
             WITH Clients <- {1, 2},
                  Registry <- <<Provider("openai", "openai", TRUE, "https"), Provider("gemini", "gemini", TRUE, "https"),
                                Provider("anthropic", "anthropic", TRUE, "https"),
                                Provider("cohere", "cohere", TRUE, "http"),
                                Provider("ollama", "openai", FALSE, "loopback")>>,
                  Environments <- {[keys |-> {}, provider |-> "", allow_http |-> FALSE],
                                   [keys |-> {"gemini", "cohere"}, provider |-> "", allow_http |-> FALSE],
                                   [keys |-> {"openai", "cohere"}, provider |-> "cohere", allow_http |-> TRUE]},
                  Requests <- {Chat("chat", "anthropic", FALSE, Talk), Chat("chat", "cohere", TRUE, Prompt),
                               Chat("generate", "", FALSE, Prompt), Embed("", <<"a", "b">>),
                               Embed("gemini", <<"a", "">>), Embed("ollama", <<"b", "a">>), Embed("cohere", <<"a", "b">>)},
                  Sources <- {"a", "bad"}, Accepted <- {"a"}, MaxCalls <- 2, MaxEdits <- 1,
                  environ <- v1, call <- v2, sent <- v3, inodes <- v4, temporary <- v5, output <- v6,
                  alone <- v7, calls <- v8, edits <- v9

(* Two notes of one stem, linked by it.                                      *)
Vault == INSTANCE VaultNotes
           WITH Order <- <<"a", "d/a">>, Stem <- [p \in {"a", "d/a", "A"} |-> "a"], Links <- {"A", "d/a"},
                TooLarge <- "too large", Absent <- "absent",
                disk <- v1, _notes <- v2, _snapshot <- v3, _backlinks <- v4, op <- v5, result <- v6

(* Kernels: one good, one too large, one for big cores, one whose proof fails  *)
(* and one of an old ABI; devices that are cool or hot, with and without time. *)
Kernel(n, p, abi, e, mem, cores, hash) ==
  [name |-> n, precision |-> p, abi |-> abi, mse |-> e, max_mse |-> 1, memory |-> mem, cores |-> cores,
   proof_hash |-> hash]
Suitable == Kernel("a", "int4", 1, 0, 1, {"any"}, "x")
Big == Kernel("b", "int8", 1, 1, 1, {"big_preferred", "big_only"}, "y")
Old == Kernel("d", "int4", 2, 0, 1, {"any"}, "w")
Ranked == <<Kernel("c", "int4", 1, 2, 1, {"any"}, "z"), [Suitable EXCEPT !.memory = 2], Big, Suitable>>
On(thermal, mem, d, fb) ==
  [thermal |-> thermal, priority |-> "interactive", memory_budget |-> mem, max_mse |-> 1, deadline |-> d,
   required_abi |-> 1, allowed_cores |-> {"any", "big_preferred"}, fallback |-> fb]
Ask(l, k) == [candidates |-> l, constraints |-> k]

Planning == INSTANCE PlanEngine
           WITH Threads <- {1, 2}, kernel_abi <- 1, Times <- 0..1,
                Features <- {"prefilter_abi", "proof_index", "resource_filter", "deduplicate_candidates",
                             "plan_cache"},
                Requests <- {Ask(Ranked, On("normal", 2, 0, TRUE)), Ask(Ranked, On("critical", 1, 0, TRUE)),
                             Ask(<<Old, Big, Suitable, Suitable>>, On("normal", 1, 1, TRUE)),
                             Ask(<<Old, Big>>, On("normal", 2, 0, FALSE))},
                features <- v1, cache <- v2, calls <- v3, now <- v4
-----------------------------------------------------------------------------
(* Variables a tool does not use.                                            *)
None9 == v9 = 0
None8 == v8 = 0 /\ None9
None7 == v7 = 0 /\ None8
None6 == v6 = 0 /\ None7
None5 == v5 = 0 /\ None6
None4 == v4 = 0 /\ None5
None3 == v3 = 0 /\ None4
None2 == v2 = 0 /\ None3
None1 == v1 = 0 /\ None2
Same9 == UNCHANGED v9
Same8 == UNCHANGED v8 /\ Same9
Same7 == UNCHANGED v7 /\ Same8
Same6 == UNCHANGED v6 /\ Same7
Same5 == UNCHANGED v5 /\ Same6
Same4 == UNCHANGED v4 /\ Same5
Same3 == UNCHANGED v3 /\ Same4
Same2 == UNCHANGED v2 /\ Same3
Same1 == UNCHANGED v1 /\ Same2

(* Processes of one program are alike: the first of two pipelines is not the one   *)
(* that drifts, the first of two models is of n-grams.  Files and keys begin as    *)
(* some of what others may change them to.                                    *)
ToolsInit ==
  \/ tool = "build" /\ Build!BuildInit /\ None8
  \/ tool = "emitter" /\ Emitter!Init /\ None3
  \/ tool = "modules" /\ Graphs!Init /\ None7
  \/ tool = "effects" /\ Graphs!Init /\ v1 = <<<<>>, <<>>, <<>>, <<>>>> /\ None7
  \/ tool = "arguments" /\ Numbers!Init /\ v1 = IntType(3, TRUE) /\ None6
  \/ tool \in {"parser", "declarations", "scopes"} /\ Frontend!Init /\ None6
  \/ tool = "bodies" /\ v1 = Body.text /\ v2 = <<Body>> /\ None3
  \/ tool = "folding" /\ Numbers!Init /\ v5 = Numbers!Default /\ None6
  \/ tool = "hybrids" /\ HybridCalls!Init /\ v2 = Hybrid("parallel", <<2, 2>>, 2, 32) /\ ~v3 /\ None8
  \/ tool = "ir" /\ HyperIR!Init /\ None7
  \/ tool = "language" /\ Language!Init /\ None3
  \/ tool = "kernels" /\ Kernels!Init /\ None9
  \/ tool = "runtime" /\ Runtime!Init /\ None6
  \/ tool = "calls" /\ HybridCalls!Init /\ None8
  \/ tool = "proofs" /\ Proofs!Init /\ None3
  \/ tool = "evidence" /\ Evidence!Init /\ None6
  \/ tool = "reconstruction" /\ Reconstruction!Init /\ None6
  \/ tool = "capsule" /\ Capsule!Init /\ None5
  \/ tool = "pipeline" /\ Pipeline!Init /\ v3[1] # Drifting /\ None9
  \/ tool = "models" /\ LocalModels!Init /\ v1[1].kind = "ngram" /\ None8
  \/ tool = "clients" /\ Clients!Init /\ v1.keys # {}
  \/ tool = "training" /\ Training!Init /\ None8
  \/ tool = "vault" /\ Vault!Init /\ None7
  \/ tool = "plans" /\ Planning!Init /\ None5

(* A text that closes a parenthesis it did not open is not continued, and none      *)
(* begins with what joins two; the fifth piece of a body ends a block, the fifth    *)
(* line of a module ends one or multiplies.  One of two processes builds one program *)
(* to one path, whose cache alone is damaged, until builds of both have met another. *)
(* Of two clients, the second is idle when a call of the first is sent elsewhere.    *)
(* A hybrid's components are written last, three of them for one worker and one      *)
(* parameter; the calls of functions are written after their effects.               *)
ToolsNext ==
  \/ /\ tool = "build" /\ Build!BuildNext /\ v4'[2] \in {<<>>, <<"d1">>} /\ v7 # {"d1", "d2"} /\ Same8
     /\ v5'[2].at \notin {"idle", "done"} => v5'[2].path = "o"
     /\ v5' = v5 => v1'["d2"] = v1["d2"] /\ v2'["d2"] = v2["d2"] /\ v3'["d2"] = v3["d2"]
  \/ tool = "emitter" /\ Emitter!Next /\ Same3
  \/ tool = "modules" /\ Graphs!Resolve /\ Same5
  \/ /\ tool = "effects" /\ Graphs!Edit /\ UNCHANGED <<v1, v2, v3, v4>> /\ Same7
     /\ v5 = <<{}, {}, {}>> \/ (v6' = v6 /\ \A f \in 1..3 : v5[f] \subseteq v5'[f])
  \/ tool = "arguments" /\ Numbers!Parse /\ Same6
  \/ tool = "parser" /\ Frontend!WriteToken /\ Frontend!Opened(v1, Len(v1)) >= 0 /\ v1'[1] \notin {"<", ","} /\ Same2
  \/ tool = "declarations" /\ Len(v2) < 3 /\ Frontend!WritePiece /\ Same3
  \/ tool = "bodies" /\ Frontend!WritePiece /\ (Len(v2) >= 4 => v2'[5].kind \in {"close", "else"}) /\ Same3
  \/ tool = "folding" /\ Numbers!Compute /\ Same6
  \/ /\ tool = "hybrids" /\ HybridCalls!Declare /\ Same2
     /\ v1.components = <<>> \/ v1'.components # v1.components
     /\ Len(v1'.components) = 3 => v1'.max_workers = 1 /\ Len(v1.parameters) <= 1
  \/ tool = "scopes" /\ Frontend!Validate /\ UNCHANGED <<v1, v2>> /\ Same6
  \/ tool = "ir" /\ HyperIR!Next /\ Same7
  \/ tool = "language" /\ Language!Next /\ (Len(v1) >= 4 => v1'[5].op \in {"}", "matmul"}) /\ Same3
  \/ tool = "kernels" /\ Kernels!Next /\ Same9
  \/ tool = "runtime" /\ Runtime!Next /\ Same6
  \/ tool = "calls" /\ HybridCalls!Call /\ UNCHANGED v1 /\ Same8
  \/ tool = "proofs" /\ Proofs!Next /\ Same3
  \/ tool = "evidence" /\ Evidence!Next /\ Same6
  \/ tool = "reconstruction" /\ Reconstruction!Next /\ Same6
  \/ tool = "capsule" /\ Capsule!Next /\ Same5
  \/ tool = "pipeline" /\ Pipeline!Next /\ Same9
  \/ tool = "models" /\ LocalModels!Next /\ Same8
  \/ tool = "clients" /\ Clients!Next /\ (v2[2].at # "idle" => \A post \in v3' \ v3 : ~post.moved)
  \/ tool = "training" /\ Training!Next /\ Same8
  \/ tool = "vault" /\ Vault!Next /\ Same7
  \/ tool = "plans" /\ Planning!Next /\ Same5

tool_vars == <<v1, v2, v3, v4, v5, v6, v7, v8, v9>>

(* The components that are idle while another one runs.                      *)
DecodingIdle == /\ DecodingInit /\ decoder = [kind |-> "plain", mode |-> "greedy"] /\ draft_k = 1
                /\ draft = [t \in Vocab |-> 0] /\ target = draft /\ prefix = <<>>
ConsentIdle == ConsentInit /\ files = <<>> /\ value = New("public")
WorkspaceIdle == WorkspaceInit /\ workspace = [p \in AllFiles |-> NoFile]
PoolAlone == tool = "pool" /\ DecodingIdle /\ CursorInit /\ PrefillInit /\ ConsentIdle /\ WorkspaceIdle /\ None1

OwnInit ==
  /\ PoolInit /\ CursorInit /\ PrefillInit
  /\ IF tool = "decoding" THEN DecodingInit /\ prefix # <<1>> ELSE DecodingIdle
  /\ CASE tool = "actions" -> ConsentInit /\ value = New("public")
       [] tool = "memory" -> ConsentInit /\ files = <<>>
       [] OTHER -> ConsentIdle
  /\ IF tool = "workspace" THEN WorkspaceInit /\ 2 \notin Range(workspace) ELSE WorkspaceIdle

MCInit ==
  /\ \/ tool \in {"pool", "decoding", "cursor", "prefill", "actions", "memory", "workspace"} /\ None1
     \/ ToolsInit
  /\ OwnInit

own_vars == <<pool_vars, decoding_vars, cursor_vars, prefill_vars, consent_vars, workspace_vars>>

(* Events that occur nowhere do not differ: the first of them is written first.   *)
(* While every event occurs somewhere, no more than one line is half in the log.  *)
Occurs(e) == \/ \E i \in DOMAIN log : log[i][1] = e
             \/ \E i \in DOMAIN partial : partial[i][1] = e
             \/ e \in Range(events)
Halved(e) == Logged(BodyOf(e)) # Logged(EndOf(e))
Fresh == {e \in Events : ~Occurs(e)}
FirstFresh == IF x \in Fresh THEN x ELSE IF y \in Fresh THEN y ELSE z

(* What others write while a plan is shown to its reviewer is the text 2.    *)
MCNext ==
  /\ UNCHANGED tool
  /\ \/ /\ UNCHANGED tool_vars
        /\ \/ /\ tool = "pool" /\ PoolNext
              /\ UNCHANGED <<decoding_vars, cursor_vars, prefill_vars, consent_vars, workspace_vars>>
           \/ /\ tool = "decoding" /\ DecodingNext
              /\ UNCHANGED <<pool_vars, cursor_vars, prefill_vars, consent_vars, workspace_vars>>
           \/ /\ tool = "cursor" /\ CursorNext
              /\ \A e \in Fresh \ {FirstFresh} : ~Occurs(e)'
              /\ (\A e \in Events : Occurs(e)') => Cardinality({e \in Events : Halved(e)'}) < 2
              /\ UNCHANGED <<pool_vars, decoding_vars, prefill_vars, consent_vars, workspace_vars>>
           \/ /\ tool = "prefill" /\ PrefillNext
              /\ UNCHANGED <<pool_vars, decoding_vars, cursor_vars, consent_vars, workspace_vars>>
           \/ /\ \/ tool = "actions" /\ StoreNext
                 \/ tool = "memory" /\ MemoryNext
              /\ UNCHANGED <<pool_vars, decoding_vars, cursor_vars, prefill_vars, workspace_vars>>
           \/ /\ tool = "workspace" /\ WorkspaceNext
              /\ packet.status = "inspected" => \A p \in AllFiles : workspace'[p] \in {workspace[p], 2}
              /\ UNCHANGED <<pool_vars, decoding_vars, cursor_vars, prefill_vars, consent_vars>>
     \/ ToolsNext /\ UNCHANGED own_vars

MCSpec == MCInit /\ [][MCNext]_<<tool, own_vars, tool_vars>>

(* The code generator alone, and the coding agent alone.                     *)
EmitterSpec == tool = "emitter" /\ MCSpec
ReviewSpec == /\ tool = "workspace" /\ PoolInit /\ DecodingIdle /\ CursorInit /\ PrefillInit
              /\ ConsentIdle /\ WorkspaceInit /\ None1
              /\ [][MCNext]_<<tool, own_vars, tool_vars>>

(* The pool alone, where a handle lost is a state of the pool.               *)
LeakSpec == PoolInit /\ PoolAlone
              /\ [][/\ PoolNext
                    /\ UNCHANGED <<tool, decoding_vars, cursor_vars, prefill_vars, consent_vars, workspace_vars, tool_vars>>]_
                   <<tool, own_vars, tool_vars>>
-----------------------------------------------------------------------------

(* Programs are read as they were written; expressions are read as the grammar  *)
(* means them, folded to what the machine computes and compiled to code that    *)
(* does what the source says, and a number given to the program is that number. *)
CodeMeans == /\ tool = "parser" => Frontend!ReadsAsMeant
             /\ tool \in {"declarations", "bodies"} => Frontend!ReadsAsWritten
             /\ tool = "folding" => Numbers!FoldsExactly
             /\ tool = "emitter" => Emitter!SimpleCodeIsMeant
             /\ tool = "arguments" => Numbers!ParsesExactly

(* HOLY_FITRA_V1_RELEASE_SPEC.md:15: "The v1 native language contract covers   *)
(* ... short-circuit logical operators".                                     *)
CodeIsMeant == tool = "emitter" => Emitter!CodeIsMeant

(* A program is accepted when its modules, effects, hybrids, names and blocks are *)
(* as the language wants them, and only then.                                   *)
ProgramsChecked == /\ tool = "modules" => Graphs!ModulesResolve
                   /\ tool = "effects" => Graphs!EffectsDeclared
                   /\ tool = "hybrids" => HybridCalls!HybridsFit
                   /\ tool = "scopes" => Frontend!NamesResolve
                   /\ tool = "language" => Language!ModulesAsWritten

(* What programs run on: int4 kernels agree and read buffers of their own, the    *)
(* linked runtime knows its blocks, files and paths, hybrid calls run whole.      *)
RuntimesHold == /\ tool = "kernels" => Kernels!KernelsReadOwnBuffers
                /\ tool = "runtime" => Runtime!RuntimeHolds
                /\ tool = "calls" => HybridCalls!CallsWhole

(* What a cache or an index gives is what would be made afresh: executables,   *)
(* unless builds of one digest or to one path met, links between notes, plans. *)
CachesAgree == /\ tool = "build" => Build!BuildTypeOK /\ Build!BuildsOwnSource
               /\ tool = "vault" => Vault!IndexAgrees
               /\ tool = "plans" => Planning!PlansAsCompiled

(* Tools run on claims that evidence bears out, a graph that was verified as     *)
(* valid follows its policy, its proofs and its transactions, and valid proofs   *)
(* rest on valid ones.  A provider is asked with its own key, and answers what   *)
(* it was asked unless it sends the call elsewhere.                          *)
EvidenceHolds == /\ tool = "evidence" => Evidence!ToolsAccounted
                 /\ tool = "ir" => HyperIR!ValidMeansLegal
                 /\ tool = "proofs" => Proofs!ProofsRest
                 /\ tool = "clients" => Clients!ClientsHold

(* Evidence is never taken back, and a cancelled run starts no other action.   *)
RunIsOrderly == [][tool = "evidence" => Evidence!RunIsOrderly]_tool_vars

(* A matrix is multiplied with weights within its gate, and a model that was    *)
(* opened with a signature computes with the bytes that were signed.  What the   *)
(* pipeline returned is of the model, the data and the report it names.          *)
WeightsAreRead == /\ tool = "reconstruction" => Reconstruction!ReconstructionSound
                  /\ tool = "capsule" => Capsule!ReadsWhatWasSigned
                  /\ tool = "pipeline" => Pipeline!PipelineHolds

(* Model, optimizer and replay buffer are of one moment of training, through    *)
(* checkpoints that are written, damaged and loaded, and an epoch trains once on *)
(* each row.  A counting model has the counts of one corpus.                    *)
StateAgrees == /\ tool = "training" => Training!StateAgrees
               /\ tool = "models" => LocalModels!LanguageHolds
=============================================================================
