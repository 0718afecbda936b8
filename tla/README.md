# A TLA+ model of idensec

idensec sits between a tool-calling agent and its tools. Everything the agent
reads is recorded with the source it came from (the *read boundary*), every call
the agent makes is decided on where its argument values came from (the *write
boundary*), and every decision goes on a hash-linked audit chain. Around this
library there is an MCP proxy that applies it to the messages between a host and
one server, over pipes or over HTTP.

Paths below are relative to `src/src/idensec/` unless they start with `docs/` or
`tests/`.

## The system

| Component | Source | State | Operations |
| --- | --- | --- | --- |
| Admission monitor | `monitor.py`, `decision.py`, `policy.py` | step counter, denials, halted, confidential-context flag | `observe`, `admit`, `require`, `approve`, `declare_source` |
| Budget ledger | `budget.py` | a total and a set of destinations per budget | `check`, `commit` |
| Operand ledger | `ledger.py` | operands with their origins, handles, observed text, directory records, corpus cache, intake counter | `index`, `seal`, `record_entity`, `resolve`, `all_derivations`, `referenced_entities` |
| Attribution | `monitor.py` 518-898, `labels.py` | none of its own: a function of the ledger and the declared sources | literal, whole, derived, reference-bound and composed attribution; the authority check; principal-directedness |
| Audit chain | `audit.py`, `mcp/proxy.py` 415-426 | the list of records; the file it is copied to and how much was copied | `append`, `verify`, `from_dict`, `_flush_audit`, `close` |
| stdio proxy | `mcp/proxy.py`, `mcp/jsonrpc.py` | one lock, pending calls; two threads, four pipes and a child process | `run`, `handle_outbound`, `handle_inbound`, `send_to_host`, `close`, `_shut_down` |
| HTTP proxy | `mcp/streamable.py` | one thread per request over a shared `Proxy`; answers kept by request id | `do_POST`, `_decide`, `_relay`, `_relay_body`, `_relay_sse` |
| Command line | `mcp/__main__.py` | signal handlers | `main`, `announce` |
| Configuration | `mcp/config.py` | none after loading | parsing and warnings |
| Contracts | `contracts.py`, `mcp/proxy.py` 337-412 | a registry; the drafts of a running proxy and the files they are written to | lookup, `derive_contract`, `_draft`, `_write_drafts` |
| Kinds | `kinds.py` | none | regular expressions and normalisation |
| Linter | `lint.py` | none | a report over the contracts, the source and the policy |
| Grant preview | `preview.py` | none | what each grant would let through |
| Benchmarks, examples, tools | outside `src/src` | none | measurements |

How they interact. The proxy calls `admit` for each `tools/call` of the host
and `observe` for each thing the server sends; both pumps (and every HTTP
thread) share one session under one lock. `admit` asks attribution about each
argument leaf, the budget ledger about the totals, and appends to the audit
chain; the proxy then writes the new records to a file. `approve` is only called
by a program that embeds the library: the proxy treats an escalation as a refusal.
A proxy may also draft contracts from what the server lists; an operator completes
them by hand, and the next start loads the file and reports what the linter finds.

What is hard here:

- **Sequences of legal calls.** The halt, the confidential context, the budgets
  and approvals all make a decision depend on the whole history.
- **Checked, then used.** A budget is checked at `admit` and charged at `approve`.
- **Echoes.** The same value can reach the ledger from the principal and from a
  web page, in either order and in different spellings.
- **Threads.** Two pumps or many HTTP threads, one lock, blocking pipes, a
  dictionary keyed by request ids that clients choose.
- **Failure in the middle.** A file that takes half the records, a server that
  answers with an error page, a second signal while the first is being handled.
- **Words of the server.** Its listing changes from page to page and from session to
  session, and its hints become part of the contract it is held to.

What makes each component correct:

- *Admission monitor*: the verdict is the worst disposition of the findings; the
  halt is exact and final; refusals cannot be used to probe beyond the denial
  budget; no egress after a denial or a confidential read goes unmarked; an
  approval only ever releases what was escalated.
- *Budget ledger*: it charges committed calls, each once, and a limit the policy
  enforces is never exceeded.
- *Operand ledger*: what it knows is exactly what was observed; its caches never
  answer differently from a fresh look; a handle keeps its meaning.
- *Attribution*: an argument passes only on the word of an entitled source; an
  echo can neither grant nor revoke; only what the principal chose counts as
  chosen by the principal.
- *Audit chain*: any change to a record is detected; the file holds each record
  once and in order.
- *stdio proxy*: every call is answered or forwarded; a dying server, a closed
  host or a failing file leaves neither an orphan nor a hang.
- *HTTP proxy*: refusals reach the request they belong to; results keep their
  tool; only what was allowed is sent on; every request is answered.
- *Contracts, linter*: no hint of a server makes a draft check less; the sheet the
  operator gets is what the server listed; a contract that starts without an error
  confines its tool.
- *Kinds, configuration*: pure functions (normalisation is idempotent, a wrong file
  stops the start).

## Modules

| Module | What it is |
| --- | --- |
| `Verdicts` | verdicts, finding codes, policies and their presets |
| `Budgets` | operators for the budget ledger: meters, breaches, charging |
| `Session` | the monitor as a state machine |
| `Gate` | the abstract promise: a call is released, refused or held; refusals are final |
| `SessionProperties` | what the monitor promises, and what the documentation promises beyond that |
| `MCSession` | instances of the monitor for TLC |
| `SessionProofs`, `GateProofs` | theorems about the monitor, and that it implements `Gate` |
| `Provenance` | the operand ledger and the attribution made from it |
| `ProvenanceProperties`, `MCProvenance` | their properties, their instances |
| `ProvenanceProofs` | theorems about both |
| `HttpProxy` | the handlers of the HTTP transport over the shared proxy |
| `HttpProperties`, `MCHttp`, `HttpProofs` | their properties, their instances, their theorems |
| `StdioProxy` | the two threads of the stdio transport, the pipes, the child and the shutdown |
| `StdioProperties`, `MCStdio` | their properties, their instances |
| `AuditChain` | the hash chain as operators: appending, verifying |
| `AuditTrail` | the audit file over sessions that fail, and exported records that somebody alters |
| `AuditProperties` | what the file and the records tell a reader |
| `Contracts` | parameter roles, effects, lookup, and the deriver, as operators |
| `Lint` | the diagnostics of the linter, as operators over `Contracts` |
| `Drafting` | listings, drafts, the two files, the operator and the starts of the proxy |
| `DraftingProperties`, `MCDrafting` | their properties, an instance |
| `StdioProofs`, `AuditProofs`, `DraftingProofs` | theorems about the last three |
| `Iteration` | least and greatest elements of sets of numbers, and that what is built step by step exists: the facts the proofs about recursive functions share |

`Session` uses `Verdicts` and `Budgets`; `Gate` is instantiated in
`SessionProperties` with a mapping from the audit chain. `Lint` extends `Contracts`
and `Verdicts`, and `Drafting` extends `Lint`; `AuditTrail` extends `AuditChain`. `ProvenanceProofs`,
`AuditProofs` and `DraftingProofs` extend `Iteration`.

The state machines meet where one leaves open what another decides. `Provenance`
decides what `Session` takes as given: the codes found on a call's arguments, whether
its payload is confidential, whether the principal chose its destination. `Session`
decides what `HttpProxy`, `StdioProxy` and `AuditTrail` leave open: whether a call is
allowed. `Drafting` decides which contract a call is judged under, which `Provenance`
and `Session` have as constants; its property `CleanServiceIsConfined` uses the
verdicts of `Verdicts` for the calls none of whose values comes from anyone. Each
module therefore covers every outcome of the one it takes from, and what is shown of
it holds whatever the other does.

### Session

| In the model | In the code |
| --- | --- |
| `step`, `denials`, `halted`, `confidentialContext` | `_step`, `_denials`, `_halted`, `_confidential_context` |
| `totals`, `seen` | `BudgetLedger._totals`, `_seen` |
| `audit` | the records of `AuditChain`, and with them the decisions a program holds |
| `Observe` | `observe`, as far as it changes the session: a step, and the confidential flag |
| `AdmitHalted`, `AdmitDecided`, `AdmitFails` | `admit`, its early return after the halt, the rest of it, and the `OverflowError` it breaks off with while it tells of a breach (`BudgetBreach.describe`) |
| `Approve` | `approve`, of any escalated decision, at any later time, more than once |

A call is what `admit` knows of it when the attribution is done: tool, the values
the budgets meter, codes, confidential, directed. `readSteps` is a history
variable. An amount is an integer, NaN, infinity, absent, or a word; minus infinity does
to a budget what NaN does.

### Provenance

| In the model | In the code |
| --- | --- |
| `operands` | `_by_key` and `_by_id`: identity to first spelling and origins |
| `observations`, `entities` | `_observations`, `_entities` |
| `chars` | `_indexed_chars`; `MaxChars` is `max_indexed_chars` |
| `corpus`, `binding` | `_corpus_cache`, the `_references_declared` |
| `declared` | `Session._sources` |
| `Declare`, `Observe` | `declare_source`; `observe`, the whole walk of a structure, broken off where the intake bound raises |
| `JudgeTyped`, `JudgeHandle`, `JudgePayload` | the part of `admit` that attributes one leaf: a typed value, a handle, a payload with what it quotes and the handles written in it |

Text is not spelled out. A value is a spelling with a kind, a key (what
`kinds.normalise` leaves of it) and a form (what the search in text compares); two
spellings may share the form and not the key, which is where paths are
interesting. A text is what is extracted from it and what it quotes.

### HttpProxy

| In the model | In the code |
| --- | --- |
| `pc`, `at`, `forward`, `answers` | where one `_Handler` is, and the locals of `do_POST` and `_decide` |
| `pending`, `selfAnswers` | `Proxy._pending`, `Proxy._self_answers` |
| `received`, `results` | what the server got, what each response answered |
| `verdict`, `labels`, `reply`, `noted` | history: decisions, paths results were sealed under, kind of reply, notes in the log |
| `Pass`, `Allow`, `Refuse`, `FlushFails`, `ContextFails` | one message through `handle_outbound` |
| `Take` | `take_self_answer`, under another acquisition of the lock |
| `Conclude`, `Send`, `Unreachable` | the end of `do_POST`, the request upstream |
| `StartReply`, `RelayOther`, `FinishBody`, `FinishStream` | `_relay_body` and `_relay_sse` |
| `InboundResult`, `InboundError`, `SealFails` | one message through `handle_inbound` |
| `Break` | the connection lost on either side |

Steps under one acquisition of the lock are one action. Deciding a call and
storing its answer are two acquisitions and one action: under unique ids nobody
else can see the entry in between. The server is external: it answers what it
received, when it likes, in whichever response is open, possibly twice, possibly
with an error, possibly with a page that is not JSON-RPC.

### StdioProxy

| In the model | In the code |
| --- | --- |
| `main`, `current`, `unflushed` | where the main thread is in `run` and `_shut_down`, the line it has read, what an interrupted `write` left in the buffer of `server.stdin` |
| `pump`, `carried`, `asCall` | where the daemon thread of `_pump_inbound` is, its message, whether `_pending` knew it |
| `lock`, `pending` | `Proxy._lock`, `Proxy._pending` |
| `hostIn`, `hostOut`, `toServer`, `fromServer` | the four pipes; `Capacity` is their size |
| `ReadHost`, `Decide`, `DecideFails`, `LockToAnswer`, `WriteRefusal`, `Forward` | the loop of `run` over `handle_outbound` |
| `ReadServer`, `Seal`, `SealFails`, `LockToSend`, `WriteToHost` | `_pump_inbound` over `handle_inbound` and `send_to_host` |
| `CloseServerInput`, `Reap`, `Escalate`, `GiveUp`, `Join`, `FinalFlush` | the `finally` of `run`: `_shut_down`, `reader.join`, `close` |
| `Signal` | the handler of `mcp/__main__.py`, which raises `SystemExit` in the main thread |
| `HostSend`, `HostCloses`, `HostReads`, `HostHangsUp` | the host, external |
| `ServerTakes`, `ServerRepeats`, `ServerPushes`, `ServerWrites`, `ServerHangs`, `ServerCrashes`, `ServerSeesEnd`, `ServerObeys` | the child, external |
| `Limits`, `left` | the bounds: how often the server pushes and repeats itself, how many signals come |

A step that may wait for another actor is a program counter value of its own, because
that is where a signal finds the thread. A server that is up ends when its input is
closed or it is asked to terminate; a hung one neither reads nor writes and ends only
when it is killed, and it may hang at any time. It answers each request, with a result
or an error, and may answer it again: the proxy passes on what comes. A history of the
first answers tells which is which.

### AuditChain, AuditTrail

| In the model | In the code |
| --- | --- |
| `AppendTo`, `Verify` | `AuditChain.append`, `AuditChain.verify` |
| `chain`, `auditSeen`, `file` | `session.audit`, `Proxy._audit_seen`, the audit file |
| `Decide` | a decision, its record and `_flush_audit`, in one critical section, and whether the call goes on |
| `FlushStops` | the exception of a `write` or `flush` half way: lines already written stay, `_audit_seen` does not move |
| `Close`, `Killed`, `Restart` | `Proxy.close`; the end of the process at any point; a start on the same file |
| `Export`, `Tamper` | `to_dicts`, and somebody with the exported records |

SHA-256 is ideal: a digest *is* the sequence of payloads that led to it. Somebody who
alters records uses only digests that were once made; somebody who recomputes the
whole chain is outside what a chain without a key can show, and outside the model.

### Contracts, Lint, Drafting

| In the model | In the code |
| --- | --- |
| `Derive`, `RoleFor`, `KindsFor`, `CollectionFor`, `DeclaredEffects` | `derive_contract` and its helpers, with every table |
| `Parameter`, `CanEgress`, `PathCovers` | `ToolContract.parameter`, `can_egress`, `labels.path_covers` |
| `LintRegistry` and the operators under it | `lint_registry`, one `When` for each diagnostic |
| `registry`, `reported` | the loaded contracts, what `announce` prints |
| `drafts`, `handling` | `Proxy._drafts`, the threads in `handle_inbound` for a listing |
| `TakeListing`, `DraftTool`, `OpenFile`, `WriteFile`, `Fails` | a `tools/list` answer, `_draft`, the two halves of `_write_drafts`, an exception in one of them |
| `Start`, `Stop` | `load` with `announce`; the end of the process |
| `FindingsOnNobodys`, `CheckedLeaves`, `IsPayloadLeaf` | what `admit` finds on a call none of whose values comes from anyone |
| `Adopt`, `Complete`, `Reclassify`, `Exempt`, `SetDefaultRole` | the operator's steps in `docs/MCP.md`, `payload_paths` among them |

A parameter name is read in three ways, because the tables of the code are asked with
all of them: the words `_` separates, the words its author meant, and what the linter
cuts it into at `_`, `-` and `.`. An argument is the set of the paths of its leaves
(`Session._resolve`): a string or a number is one leaf at the empty path, a structure
has those of its members, and a Boolean, `None` or an empty container has none and is
checked by nobody.

## Runs

| Run | What it shows |
| --- | --- |
| `session` | every session of four steps and two approvals: budgets of different meters with repeated, new, refunded and non-numeric amounts, the halt, the two egress rules, a policy that escalates; the session implements `Gate` |
| `provenance` | paths in two spellings, echoed before and after the user wrote them; composed paths; records by key and in a list, references, handles; the intake bound in the middle of a structure; late declarations |
| `http_relay` | four handlers, a server and failures in every interleaving; every request is answered |
| `stdio_session` | two threads, a host and a server over full pipes, with hangs, crashes, repeated answers, a hang-up and a signal anywhere; every request is answered or the session is broken in a named way; the proxy and the child end, with the named exceptions |
| `audit_trail` | two sessions on one audit file with writes that stop half way, kills and altered exports |
| `contract_drafts` | a server that changes its tools, a draft that becomes the contract file, and an operator who edits it, over two starts |
| `stale_approval` | *violation*: an approval takes a total past an enforced limit |
| `nan_amount` | *violation*: NaN switches a SUM budget off |
| `echoed_path` | *violation*: a page's echo takes a path from the principal |
| `streamed_refusal` | *violation*: a refusal is lost when the server answers with a stream |
| `unfinished_shutdown` | *violation*: a signal during a blocked write, and the shutdown waits for ever before its first timeout |
| `hinted_draft` | *violation*: an untouched draft is served without an error because the server volunteered a hint |

Each violation quotes, in `PROJECT.json`, the sentence of the repository that the
code does not keep, and is checked as a property of its own so that the passing
runs state what does hold.

### Bounds

- *Session*: `MaxSteps` is 4 and `MaxApprovals` 2. The longest interplay in the code
  takes four steps: a read, the denials that exhaust a budget of one, a call after
  the halt. Two approvals are one decision approved twice, or two decisions whose
  order of approval matters. Limits are met exactly, exceeded, and met again after a
  refund.
- *Provenance*: `MaxChars` is 5 and `MaxSteps` 4, so that a text is cut off in the
  middle of a structure and something is still judged after it. Three sources are one
  of each trust the rules tell apart; the values cover every relation between
  spellings, keys and forms.
- *HttpProxy*: four requests, namely a batch that is partly refused and holds a call
  without form and another message, a call that competes for the shared tables, a body that leaves nothing to say, and a request
  relayed untouched. More calls in a batch repeat the same steps.
- *StdioProxy*: two requests, a call and a message of another kind, so that one is in
  hand while another fills the pipe; pipes of one message (`Capacity`), the smallest
  that lets both sides wait. A session takes one of two limits. In the first the server
  pushes three messages unasked, the fewest that, with the inbound thread dead, fill
  its output and its hands and leave the main thread to wait for it for ever. In the
  second it repeats one answer, and there is one signal, anywhere. A second signal adds
  one case, named below under the disagreements.
- *AuditTrail*: three records in each of two sessions and two mishaps, so that a torn
  line can be followed by a duplicate and a duplicate by an alteration. Two payloads are
  enough to tell a record from its neighbour.
- *Drafting*: one inbound thread, two listings that differ in hints, types and
  parameters, two starts, three edits: the fewest that let an operator finish a
  draft, the server change its tool, and the proxy be started again over both. One
  pattern exempts content, and a value is nothing to check, a plain leaf, a leaf under
  the pattern or one further down.

The theorems below hold for every bound. `CHECK_DEADLOCK FALSE` is set where the
system really stops: a session at its bound, handlers that have all replied, a proxy
that has ended.

### Fairness

`HttpProxy` and `StdioProxy` have liveness, under weak fairness only.

- In `HttpProxy` each handler is a thread that runs. Its wait for the server is one of
  its own steps because `Upstream` gives every socket operation a timeout of sixty
  seconds, after which it fails (`Unreachable`). A request counts as answered when its
  stream is open. A body that the host never finishes sending is outside the model, as
  is a response body that trickles for ever.
- In `StdioProxy` the two threads run (`MainStep`, `PumpStep`), the server serves while
  it is up and not hung (`Serving`, which includes dying of a kill), and the host reads
  what it is sent while it holds its end (`HostReads`). Weak fairness is enough for the
  lock although the code's lock promises no order: there are no more requests for it
  than messages, so it cannot be taken away for ever. What the server pushes unasked is
  bounded for the same reason.
- Signals, hangs, crashes, hang-ups, and what the host sends are never fair.

## Theorems

TLAPS checks every proof for all values of the constants under the named
assumptions of the modules, which say what types the constants have and, for
`HttpProxy`, that the ids of calls are unique.

- **Session.** `VerdictIsWorstDisposition` is about the fold in `_finalise`.
  `TypeCorrect` and `HaltCorrect` are inductive with counting lemmas on finite sets.
  `ChainCorrect` proves the invariant of the audit chain (each step decided once
  by the monitor, no step beyond the counter, an approved step escalated before), from which
  `ApprovalsCorrect` follows, and in `GateProofs` the step-by-step refinement
  `SessionIsAGate`. `LimitsCorrect` needs that no approval was made. `HaltIsFinal` and
  `InfluenceIsMarked` compare each record with the denials before it: the argument is
  that a new record is the last, and that the counter its decision was made with is
  the number of denials in the chain (`HaltIsExact`). `ConfidentialityCorrect` needs
  that the flag remembers the confidential reads and that all of them lie behind the
  step counter (`ContextInv`). `BudgetsCorrect` is inductive only together with the
  set of destinations a budget of distinct ones has seen (`AccountsInv`); an approved
  call is charged again each time, as in the code. It says nothing of sums.
- **Provenance.** `LedgerInv` joins what is known of the operands to what the
  observed texts hold and adds what the caches owe and that handles that were
  shown are known. From it follow `LedgerCorrect`, `CachesCorrect`,
  `HandlesCorrect` (an action property), `AttributionCorrect`,
  `EchoesCannotRevoke` and `DirectedCorrect`. The last three argue about one
  judgement made in a state where the ledger is exact, and so does `TaintCorrect`: a
  payload is confidential exactly when a confidential source was observed to hold the
  whole of it or to say a value it has a handle for, whoever showed the handle.
  `TypesCorrect` includes the intake bound, which says that a walk broken off in the middle of a
  structure has counted what it took in and never more than `MaxChars`; the running
  totals of a walk are a recursive function (`Lengths`), which `Iteration` shows to
  exist for a text of any length.
- **HttpProxy.** `HttpInv` says of each handler how far it got, that what it
  collected are the refusals up to its position, that an answer in the table is
  its own and about to be taken, and that an id is expected from the moment its
  call may be sent until its first result. `AnswersCorrect`, `NoAnswerIsLeft`,
  `LabelsCorrect`, `DropsCorrect` and `TypesCorrect` follow. `ServerSeesAllowedOnly`
  needs in addition that a handler passes over no message (`PassedIsForwarded`) and
  sends only when all is decided, and then everything (`SentTogether`).
  `AnswersReachTheirCaller` alone is not inductive: it says nothing of handlers in
  the middle of a body, which share the table.
- **StdioProxy.** `TypesCorrect`, strengthened by what the main thread has in hand
  being a request whenever it is about to use it. `LockCorrect`: the lock is held by
  the thread that is writing and by nobody else. It needs in addition that the inbound
  thread has not started before the main one has, because a signal there ends the
  process without a `finally`. The other theorems follow a request through its
  nine places (`Places`), from not yet sent to answered and read by the host: it is in
  at most one of them, and once in each pipe (`PlaceInv`, which also says what a half-written line is); an answer
  that is repeated comes behind the first, which has left the request's way to the
  server (`RepeatInv`); each place fixes what the verdict is (`VerdictInv`); and a call is in the table from before it
  is sent on until its result is read, although the threads change the table without
  the lock (`PendingInv`). `AnswersCorrect` and `PendingCorrect` follow, and two
  results that no run lists: `DeniedIsNotForwarded`, that the server is never written a
  denied call, and the action property `VerdictsCorrect`, that no verdict changes.
- **AuditTrail.** A digest *is* its history, so a well-formed chain is determined by
  its last record (`WellFormed`). The inductive invariant `TrailInv` joins what
  `_audit_seen` counts to the lines of the file. `RecordsComeFirst` follows, and
  `TrailTypesCorrect` with a count of the mishaps. `FaultlessCorrect` is also about what
  a reader finds of a session whose own writes all succeeded: all of it, unless a
  session before it left a torn line (`BegunOnTornLine`), which takes the first record
  with it.
  `AlterationCorrect` needs in addition that the exported copy holds only digests that
  some session made (`CopyInv`), and an induction over the positions of a chain that
  verifies; it is done by least counterexample (`LeastElement`), since the induction
  theorems of the library are out of the prover's reach. `LossCorrect` is about a
  reader who drops the lines a later flush wrote again. What such a reader holds is
  a recursive function over the file (`Reading`), which is shown to be a selection of
  the lines in their order (`ReadingIsSelection`); with `OwnLines`, that every
  line of the session, torn or whole, is of a record of its chain, it verifies if and only
  if it is a beginning of the chain.
- **Drafting.** `OneWayRule` is about the deriver alone, for any advertisement and any
  effects: it splits on where a name finds its role and shows that losing the
  read-only relaxation only moves a parameter towards being checked. `HintsCorrect`
  carries it to every draft ever held, `SheetCorrect` (for the one inbound thread of
  the stdio proxy) says that at rest the emitted file is the drafts of what was listed,
  and `ConfinementCorrect` derives from a report without errors that a call is refused
  that says something nobody vouches for, not exempted as content, in a parameter the
  contract does not declare or whose name says where the action lands, or in every
  parameter of a tool that sends data out. `TypesCorrect` says that whatever is drafted, written,
  edited or loaded is a contract, which rests on `DraftsAreContracts` about the deriver
  and needs that a text half written is one as well (`KindInv`).

Every safety and action property of the passing runs is stated by a theorem.
Model-checked only, because liveness under fairness is out of the prover's reach:
`EveryRequestIsAnswered` of the HTTP proxy, and `RequestsAreAnswered`,
`ClosingEndsTheProxy` and `EscalationEndsTheChild` of the stdio proxy.

## Disagreements that have no run

Seen while reading and modelling, between the code and what is written about it or
what one would expect of it.

The monitor and the ledger:

- `denial_channel_bits` counts denials after the halt, which tell nothing.
- `docs/THREAT_MODEL.md:190` has every egress call after a denial flagged; a call
  after the halt carries `session_halted` alone (the property allows for it).
- A handle to the id of a record the principal named is refused where the typed id
  is admitted (`monitor.py:544` against `docs/DESIGN_DECISIONS.md:494`).
- The sensitivity of a quoted authority value is that of the principal alone when
  the principal quotes it too (`monitor.py:723` against `labels.py:14`), so quoting
  confidential content escapes the rule on confidential context.
- An approved call of a tool without a contract is charged to no budget.
- A call that takes a SUM budget to infinity (an amount of `1e400`) is neither admitted
  nor refused: `admit` raises `OverflowError` while it renders the breach
  (`budget.py:120-121`), with a step taken and nothing recorded. No denial is counted
  either, so the halt does not bound such calls.

The transports:

- A 502 for a batch loses the refusals of the batch as a stream does.
- Two hosts on one HTTP port that number their calls alike would break
  `AnswersReachTheirCaller`. `docs/LIMITATIONS.md:410` rules that use out, so the
  model assumes unique ids.
- `docs/MCP.md:294` has every `tools/call` request attributed and admitted. One whose
  name is no string or whose arguments are no object is sent on undecided, and so is a
  `tools/call` without an id (`mcp/proxy.py:217-226`). Absent arguments are legal MCP, so
  a server may well execute such a call. In the models it is a message of kind
  `formless`, respectively `other`, and the properties speak of the calls that have
  their form.
- A second signal inside `_shut_down` leaves the child running; `cutShort` in the
  model marks it and the properties except it.
- When the host closes its side while the main thread waits to write to a server that
  hangs, the proxy stays (`ClosingEndsTheProxy` excepts it). The same happens with a
  server that is well: the inbound thread ends when the host hangs up its reading end
  (`mcp/proxy.py:511`) or the intake bound is passed, after which nobody takes what the
  server says, the server in turn stops reading, and the main thread waits in `write`
  without ever seeing that the host has closed its side (`Deaf` in the properties).
- What a server answers a second time is passed on a second time (`mcp/proxy.py:507`),
  and a repeated result is sealed as nobody's call.

The audit file:

- A flush that stops half way leaves lines that the next flush writes again, and a torn
  line makes the one after it unreadable.
- The line after a torn one may be the first of the next session, none of whose writes
  failed: the file is opened to be appended to and the torn line is not ended
  (`mcp/proxy.py:423`). What is found of that session never verifies then, unless it
  decided nothing more.
- Deleting the last records of an exported chain passes `verify` (`audit.py:3-5` says any
  deletion does not).

Contracts, linter and preview:

- A boolean flag spelt `noVerify`, `skipChecks` or `allowDelete` is advisory where the
  same flag in snake case is authority (`contracts.py:571` against `613-618`).
- A name like `search_limit` goes from payload to advisory when a hint makes a read-only
  tool not read-only, which is a change of role though not of what is checked
  (`contracts.py:505` says annotations only ever improve).
- Over HTTP two handlers may write drafts at once and lose a page: with two `Handlers`
  `SheetIsWhatWasListed` fails.
- `inert-reference-grant` is reported for a grant of `list.**` with a collection
  `**.files`, which the monitor admits (`lint.py:377`).
- `payload_paths` with a pattern that covers the whole of the only authority parameter
  takes the check from a tool, and the linter, which does not look at them, reports
  nothing (`docs/LIMITATIONS.md:415` says it reports a writing tool where nothing bears
  authority).
- A parameter the contract does not declare passes when its value is a Boolean, `None` or
  an empty container: it has no leaf to attribute, and `undeclared_parameter` has no
  disposition (`monitor.py:923-930`, `946`).
- A preview under an OBSERVE policy reports every candidate as admitted
  (`preview.py:12`).
- The emitted file may be the completed contract file itself, and overwrites it.

## Not modelled, and why

- *Regular expressions, JSON, headers*: data, represented by what the properties
  tell apart. Which strings match is an input of `Provenance`.
- *Preview*: runs the real engine once per grant and tool and keeps nothing; it is
  `Provenance` under other labels.
- *Plurals, descriptions and versions of contracts*: they change names and wording.
- *Configuration warnings, parsing of arguments, rendering of reports*: no state.
- *Benchmarks, examples, tools*: not part of the program.

## Plan

1. Done: `Session` with `Gate`; `Provenance`; `HttpProxy`; `StdioProxy` with the shutdown;
   `AuditChain` and `AuditTrail`; `Contracts`, `Lint` and `Drafting`; their first theorems.
2. Done: the theorems of every safety and action property the runs check. Left to
   prove: that the linter's reading of a contract agrees with what the registry answers
   for an undeclared parameter, and facts about `PathCovers`, whose recursion is over
   two sequences.
3. `MonitoredSession`: `Provenance` and `Session` composed, so that a call's codes
   come from the ledger; from the read of a page to the refusal of a call.
4. The overlap of what `kinds.extract` finds; a preview as a re-labelled `Provenance`.
