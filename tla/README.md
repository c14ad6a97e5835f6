# A formal model of fiducia-payments

TLA+ modules, TLC configurations and TLAPS proofs about the programs of this
repository: the webhook verifiers of `src/`, the executable models in `formal/`
and `conformance/`, the environment-file tooling in `.just/`, and the lint
toolkit in `.ores-lint/`. Paths below are relative to the repository's root.

    tlc -config StripeCalls.cfg MC_StripeVerify.tla       # check a run
    tlapm StripeVerify_proofs.tla                         # check the proofs

## 1. The system

| Component | State | Operations | Interacts with |
|---|---|---|---|
| Stripe verifier, `src/stripe.rs` | none beyond a call: the `Option` and the `Vec` of the header loop | `verify`, `parse_signature_header` | called by a worker of the customer backend with raw body, header, secret, clock, tolerance; returns a `VerifiedEvent` or an error |
| PayPal verifier, `src/paypal.rs` | none beyond a call | `verify`, `signed_message`, `cert_url_is_paypal` | the same, with the transmission headers, the webhook id and a certificate the caller fetched or cached |
| Event, error, provider: `src/event.rs`, `error.rs`, `provider.rs` | none | `VerifiedEvent::from_body`, the error type, the provider names | both verifiers; the ledger keys on provider and `id` |
| Verification boundary, `formal/provider_verification.qnt` | phase, provider, five gates, outputs, consumes | `invalidate`, `verify`, `reject`, `consume`, `retry`, `close` | the repository's own abstract model; `tests/formal_verifier_refinement.rs` tests both verifiers against it |
| Receiver and ledger (outside this repository; `README.md`, `formal/README.md`) | pending requests, applied event identities | receive, verify, apply once, refuse a reused identity | Stripe, which signs again whenever it sends again; the network; the rotation of the endpoint secret |
| Lifecycle conformance model, `conformance/payment_lifecycle_model.rs` | queue, set of seen states, edge count | breadth-first exploration that panics at a failed assertion | run by CI |
| Dotenv normaliser, `.just/dotenv.py` | none | `parse`, modes `shell`, `envfile`, `k8s` | reads what sops decrypts; its output is read by a shell, docker, Kubernetes |
| Environment recipes, `.just/env.just` | `env/enc/*.env.enc`, `env/dec/*.env` | decrypt, encrypt, edit, new, run, clean, docker-run, docker-env-file; list, status, check, rekey, whoami, keygen, k8s-secret, doctor | sops, mv, docker, the dotenv normaliser |
| Chain scanner, `.ores-lint/require-send.mjs` | tokens, suppressions, position, scopes of pending events, findings | `tokenize`, `collectSuppressions`, `analyzeSource`, `trackedFiles`, `formatReport` | reads the tracked Rust, Dart and Gleam files; its report ends up in `lint.sh` |
| ESLint rules, `.ores-lint/eslint/plugin.mjs` | scopes of pending events, known loggers, factories, classes and namespaces | the listeners of `ores/require-send`; `ores/semi` | called by ESLint's walk over a file |
| Lint configuration, `.ores-lint/eslint/base.mjs` | none | `oresConfig` and what it asks of the environment: packages, ignore files, nested repositories | ESLint, which reads it |
| Lint report, `.ores-lint/eslint/formatter.mjs` | counts and examples by rule | `oresFormatter` | gets ESLint's messages |
| Lint run, `.ores-lint/lint.sh`, `js.sh` | the reports | ESLint, the formatter, the scanner, the strict exit | build hooks and CI |
| Host linters, hooks and data of the toolkit; agent-instruction check, CI, Nix, build files | none | – | – |

Hard behaviours, and what makes each component correct:

* **Stripe verifier.** The header is untrusted text of any length; the loop
  returns early, and the order of the checks decides which error is reported.
  Integer arithmetic at the ends of `i64` and `u64`. The timestamp is parsed
  and rendered again before it is signed. *Correct* if a call accepts exactly
  when one well-formed timestamp lies in the window and any `v1` value is the
  HMAC under the configured secret, and if every call returns.
* **PayPal verifier.** The signed message joins fields with a separator and
  holds the body as a CRC32; the certificate's host decides whom to trust.
  *Correct* if an accepted transmission proves who signed which fields, and
  under exactly the documented gates.
* **Receiver and ledger.** The clock and the secret are read when a request
  arrives and used later, while deliveries repeat, reorder and get garbled,
  secrets rotate, workers crash. *Correct* if only what Stripe signed recently
  is accepted, the overlap of a rotation loses nothing, and a redelivery is
  never taken for a conflict.
* **Verification boundary.** *Correct* if no sequence of steps yields an output
  without all gates, consumes a rejected input, or changes a decision.
* **Lifecycle explorer.** The lifecycle has a cycle; the assertions are spread
  over push and pop. *Correct* if a pass means the lifecycle is safe in all its
  reachable states, a panic that it is not, and if it ends.
* **Dotenv normaliser.** Quotes, escapes, apostrophes, line breaks, repeated
  names. *Correct* if the consumers agree and nothing is cut off.
* **Environment recipes.** Every command may fail or be interrupted;
  redirections truncate before their command runs; `set -e` does not see every
  failure; two shells may work on one name. *Correct* if a ciphertext is not
  lost, a plaintext file is absent or whole, and nothing starts without its
  variables.

* **Chain scanner, ESLint rules.** Both follow an event from the statement that
  binds it to the call that sends it through nested scopes, with names that are
  shadowed, reassigned and passed on; the scanner guesses all of it from tokens.
  *Correct* if only events nothing delivers are reported, all of them where the
  toolkit promises it, and if the scanner ends on every text.
* **Lint configuration, report, run.** Packages that are missing, broken or not
  to be inspected; ignore files in a foreign syntax; messages of every kind,
  capped and sorted; an exit code read off the words of two reports. *Correct* if
  no file is skipped silently or read by the wrong parser, no finding vanishes,
  and the strict exit fails exactly when something was found.

`PROJECT.json` lists the hazards with their lines and the properties aimed at
each.

## 2. The modules

| Module | Models | Notes |
|---|---|---|
| `VerifiedEvent` | `event.rs`, `error.rs`, `provider.rs` | a body is what serde_json tells of it: JSON or not, the members `id`, `type`, `event_type`, and the rest |
| `StripeSignature` | data and verdict of `stripe::verify` | the verdict is stated over the whole header, with quantifiers instead of the loop |
| `StripeVerify` | one call, statement by statement, and its caller | `pc` names the statement, `i` the part the loop reads; one action per branch of `match key.trim()` |
| `ProviderVerification` | the Quint model | the abstract specification; `SpecAnyGates` starts with any gates, as a verifier does |
| `PaypalSignature`, `PaypalVerify` | `paypal.rs` | the function is pure, so a call is one step |
| `StripeReceiver` | Stripe, network, rotation, workers, ledger around `StripeVerdict` | what is outside the repository is modelled from its documentation |
| `LifecycleExplorer` | `main` of the conformance model | the transition relation is a variable: the statements hold for any lifecycle, not only `next_states` |
| `Dotenv`, `DotenvConsumers` | `dotenv.py` and its readers | text is a sequence of code points |
| `EnvFiles` | the recipes | one action per command; `shell[p].at` names it |
| `PendingEvents` | the stack of scopes both checkers keep | enter, exit, remember, settle |
| `SourceTokens` | `tokenize`, `collectSuppressions` | a text is a sequence of words and characters that matter |
| `RequireSend` | the scanner: `analyzeSource` and its helpers | one action per round of its loop and kind of token; chains are read whole, as the code jumps over them |
| `EslintRequireSend` | the rule's listeners | `visits` is any walk over a file; ESLint's calls in their order are the steps |
| `FallbackSemi` | `ores/semi` | which nodes need a semicolon and lack one; `Statement` is what the grammar allows |
| `LintConfig` | `base.mjs`, the note of `js.sh`, `trackedFiles` | `Environment` is what may be installed, `IgnoreLine` a line of `.eslintignore`; how ESLint reads a configuration is external |
| `LintReport` | `formatter.mjs`, `formatReport`, the strict exit | one action per message |
| `LoggingPrograms` | programs that log, as text for the scanner, as visits for the rule, and what they really deliver | the reference both checkers are compared with |
| `OresLint` | one run of `lint.sh` over a repository | composes all of the above; extends `EslintRequireSend`, instantiates the scanner and the report; `WellFormed` says what a repository is |
| `MC_*` | constants and inputs for TLC | |
| `*_proofs` | theorems | see 5 |

Two specifications are layered: `StripeVerify` and `PaypalVerify` each implement
`ProviderVerification` under the mapping `Boundary(gates)`, which reads the phase
off the program counter and result and the gates off the arguments by the table
in `formal/README.md`, with the event gate the code has (see 6). `StripeReceiver`
uses the verdict that `StripeVerify` is proved to reach, not the loop again.
`RequireSend` and `EslintRequireSend` share `PendingEvents` as the two programs
share a contract; `OresLint` puts both beside `LoggingPrograms!NeverDelivered`,
which says by scoping alone which statements lose an event.

Abstractions. HMAC-SHA256 is symbolic: a digest is the record of its inputs, so
two digests are equal exactly when the inputs are. An RSA signature records its
key and the fields it was made for, and verifies for every message equal to
theirs. CRC32 is an arbitrary function of the body, so collisions exist. The
`url` crate, the certificate parser, sops and docker are external. Texts are
model values except where their characters matter (fields with separators,
dotenv values). Comparison in constant time is a timing property and not
modelled; nor is the wording of errors.

## 3. The runs

| Run | Bounds | What it shows |
|---|---|---|
| `StripeCalls` | headers of up to 3 parts out of 10 kinds, 7 bodies, and all clocks, timestamps and tolerances of a 3-bit `i64` (`I64Max = 3`) | `VerdictCorrect`: the loop with its early returns is the verdict over the whole header; `LoggedSkewFaithful`: saturation keeps the direction and every skew that fits; `ImplementsBoundary`; `Terminates`; `TypeOK` |
| `PaypalCalls` | every way each argument can fail, combined; every pair of signed and received fields over 4 texts, two with the separator, and two bodies with one checksum | `ImplementsBoundary`; `BindsEveryField`; `TypeOK` |
| `ProviderVerification` | no parameters | `authentication_safety`, the Quint model's own condition; `RejectedNeverConsumed`, over whole behaviours; `DecisionFinal` |
| `StripeDeliveries` | 2 workers, 2 secrets, 2 deliveries, clock 0..2, clock error 1, tolerance 0, within the constraint below | `OverlapNeverMismatches`: a delivery that arrives as it was signed is never refused for its signature while the service's secret was live; `AcceptedWasSent`, `OnlyEmittedBodies`, `RedeliveryNeverConflicts`; `TypeOK` |
| `LifecycleExplorer` | `next_states` and every lifecycle that differs from it in the successors of one state, of which there are up to 2, captures 0..2 | `VerdictExact`, `PassIsClosed`, `CountsAreExact`, `CodeLifecyclePasses`, `Terminates` |
| `DotenvConsumers` | files of one or two lines, values of up to two items with every quote and escape | `ConsumersAgree`, `NothingTruncated` |
| `EnvFiles` | 2 shells, 2 names, one plaintext | `DecIsWhole`, `ContainerHasVariables`, `CiphertextSurvives` |
| `OresLint` | repositories that each vary one thing, see below | `ScannerExact`, `RuleExact`, `AlarmsAreJustified`: what is reported and what is not; `LintAdvances`: it ends; `IgnoresKept`, `NestedLeftAlone`, `TypeScriptNeverParsedAsJs`, `SemicolonsAlike`: what is linted and how; `ReportAddsUp`, `HouseRulesFirst`, `CleanMeansExamined`, `StrictExact`: what is said of it; `TypeOK` |

Why the bounds are enough to be interesting. Three header parts hold every
pair of interacting parts (two timestamps, two signatures, one of each) and a
third that follows an early return. Three bits show every wrap and saturation,
which happen at the ends of the range whatever its width; the proof covers the
other widths. Two deliveries and two workers give each reordering and race of
one event with its redelivery; a clock that may be one second off at tolerance
zero separates "fresh when it arrived" from "fresh when it was verified". Two
secrets make a rotation, and with the bound on the clock every delivery can be
signed before, during and after the overlap. The constraint `OneThingAtATime` of
`StripeDeliveries` explores everything while one secret is in use; over a
rotation, one worker, a clock that has moved once and not since the request
came, and no garbling. What it leaves out is covered by the proofs, which have
no such bound. One changed state makes every
assertion of the explorer fail somewhere, and adds cycles and unreachable
states. One plaintext suffices for the recipes, because their properties tell
whole files from broken ones and each way a consumer refuses a text is also a
way the pipeline fails. `MaxTime`, `MaxSent`, `MaxParts`, `MaxItems` and
`MaxCaptures` are the bounds; each stands in a guard or in the set of inputs.

`OresLint` takes: every program of up to 2 statements out of all the scanner
reads, inside a function, in each of Rust, Dart and Gleam, and of up to 5 out of
those that open and close scopes, bind and send; in JavaScript every program of up
to 3 statements of all kinds, 5 about scopes, 6 about names bound in blocks, 4 about
imports and loggers made of loggers; files in the middle of an edit; everything that may be installed, where and
in what state; rules overridden at each level; 10 paths with each of 18 lines of
`.eslintignore`; every kind of statement without its semicolon; and up to 4
messages of two files at a cap (`MAX`) of 2. Five statements hold a name bound in
two scopes with a send in each, between and after them; 3 messages pass the cap
by one. Whatever varies is independent of the rest: the scanner does not read the
configuration, nor the formatter the programs.

Deadlock is checked for `ProviderVerification`, `EnvFiles` and `OresLint`. The other
systems stop: a call has been answered, every consumer has loaded the file, the
explorer has its verdict, or the bounded clock and deliveries are used up.

Fairness. `StripeVerify` assumes weak fairness of the steps of the call and
`LifecycleExplorer` of the explorer's: both are straight-line code on one thread
that waits for nothing. Nothing is assumed of callers, of workers or of the
network, and no liveness is claimed of them. The recipes have no fairness: the
user may stop anywhere. `OresLint` needs none: `LintAdvances` says that each step
increases a position that the size of the repository bounds, which is proved for
every repository, and the absence of deadlocks that nothing but the end stops the run.

## 4. What the properties say about the code

* `ImplementsBoundary` is the statement the Rust refinement test samples with 32
  gate combinations: here for every header and field of the run, and by proof for
  all. The gates are defined independently of the code's branches, from the
  arguments alone.
* `AcceptedWasSent` adds up three hazards: garbling, the age of a delivery, and
  the time between reading the clock and using it. The bound is the sum of the
  tolerance and the clock's error; the wait between arrival and verification
  does not enter, because `now_unix` is an argument.
* `BindsEveryField` is conditional: without the separator in a field, the signed
  message determines the fields; the body is bound only up to its CRC32.
* `CiphertextSurvives` allows one exception, which the recipes really have: two
  shells can both find a name free, and the later redirection truncates what the
  earlier one encrypted.
* `DecIsWhole` excludes files `env-clean` has begun to wipe. An interrupted wipe
  leaves an empty or zeroed file, and an empty one is folded into the ciphertext
  as an empty environment by the next `env-encrypt`.
* `ScannerExact` and `RuleExact` have two halves. Nothing that is delivered is
  reported, whatever is shadowed; and everything lost is reported where no name
  is bound to two events, because a second event under a name takes the place of
  the first (`require-send.mjs:305`, `plugin.mjs:146`). The first half of `RuleExact`
  makes an exception, `BoundInBlock`: the rule's scopes are functions, so a name a
  block binds stays the inner one after the block, and what is returned then is
  taken for the block's (section 6). `ScannerExact` speaks of
  the statements the toolkit's README promises to follow; section 6 lists the rest.
* `AlarmsAreJustified` is the first half for any walk of ESLint, programs or not,
  as far as the rule can know: an event is its name's until the name is another's.
  It is proved, of the rule alone and of a run of `lint.sh`.
* `TypeScriptNeverParsedAsJs` allows one silent gap, which the code has: a parser
  that resolves and cannot be imported leaves TypeScript out without a note.
* `IgnoresKept` is about lines the configuration can say (`Portable`): the code
  drops exceptions and anchors directory lines, against its comment at
  `base.mjs:80`.

## 5. What is proved

All theorems hold for every value of the constants under the assumptions named
in the modules, which are evaluated by TLC in every run. They say what a width, a
body, a marker, a file or a repository is: `I64Assumption`, `SendableAssumption`;
`GraphsAssumption`, a lifecycle maps states to sequences of states;
`CharAssumption`, the characters are those an escape or a line break is not made of;
`RepositoryAssumption`, a repository has the shape `WellFormed` describes, in which a
file is no directory of another repository, the blocks a repository adds to the
configuration name one of the two parsers, the braces of the JavaScript and TypeScript
programs match (ESLint walks no tree of a file it cannot parse; what it says of one is
among `others`) and the statements of the scanner's languages are those
`LoggingPrograms` has a text for, in any order and with braces that need not match;
`NestedAssumption`, nested repositories are paths; `MaxAssumption`, the formatter's cap
is positive.

| Theorem | Argument |
|---|---|
| `StripeVerify_proofs!TypeCorrect`, `VerifyIsVerdict` | `IInv`: `LoopInv` says what `timestamp` and `v1` hold after a prefix of the header; `GateInv` what each early return not taken has established. `VerdictCorrect` alone is not inductive, since it speaks only of finished calls. |
| `StripeVerify_proofs!LogIsFaithful` | from `VerdictCorrect`: the skew of a verdict is `LoggedSkew` of a difference of two `i64`; by cases on whether it fits |
| `StripeVerify_proofs!StripeImplementsBoundary` | initial states map to initial states; each step maps to `verify`, `reject`, `consume` or a stutter; uses `VerifyIsVerdict` and that the verdict accepts exactly when all gates hold |
| `ProviderVerification_proofs!BoundarySafe`, `QuintSafe`, `DecisionsAreFinal`, `TypeCorrect` | the safety condition with types is inductive, for any initial gates |
| `ProviderVerification_proofs!RejectionIsFinal` | `Refused` (rejected or closed, without output or consumption) holds at a rejection and is kept by every step, so it holds ever after |
| `PaypalVerify_proofs!PaypalBindsFields` | lemmas about sequences: a sequence without the separator is determined by the message it begins, so equal messages have equal fields, one after the other |
| `PaypalVerify_proofs!TypeCorrect` | from the invariant the refinement uses, which contains the types |
| `PaypalVerify_proofs!PaypalImplementsBoundary` | as for Stripe |
| `StripeReceiver_proofs!SentBeforeAccepted`, `LedgerHoldsEmitted`, `RedeliveriesAreNoConflict` | `IInv`: every `v1` value in the network and at a worker is the signature of a delivery that was sent (`Genuine`); an answer that accepts names such a delivery (`Origin`); the ledger holds events made of emitted bodies. The age, the body and the secret follow from the verdict and the injectivity of `Hmac`. |
| `StripeReceiver_proofs!OverlapLosesNothing` | `OverlapInv`: every delivery sent has the header Stripe writes, with a signature for each secret live then, and every answer is the verdict on what was received; such a header is well formed, dated and signed under each of the secrets |
| `StripeReceiver_proofs!TypeCorrect` | `TypeOK` is inductive together with `IInv`, which bounds the live secrets that a header enumerates |
| `LifecycleExplorer_proofs!PassMeansClosed` | `IInv`: every seen state is in the queue, being expanded, or closed under its transitions with its assertions checked |
| `LifecycleExplorer_proofs!ExplorerIsExact`, `CountsOfTheLifecycle` | the reachable states are the least set that holds the first state and is closed under the transitions (`ReachableIsLeast`, `ReachableIsClosed`: a lifecycle has no more steps without a new state than states). `ExactInv`: seen states are reachable, a panic is about one of them, and `edges` counts the transitions out of the states the explorer is through with, each of which it has queued once |
| `LifecycleExplorer_proofs!CodePasses` | the reachable states of `next_states` are contained in its four states, which are safe; then `ExplorerIsExact` |
| `DotenvConsumers_proofs!ConsumersOfAFile`, `ContainerGetsAll` | `ShellRoundTrip`: after every prefix of a quoted word, the automaton that reads a shell's word stands in the quotation with the prefix of the value read so far, so what `shell` writes is read back unchanged. `DockerKeeps`: a value `envfile` lets pass is one line and all of it. `K8sGiven`: where no name is assigned twice, sorting pairs loses nothing. What a consumer holds is what its mode makes of the file (`LoadedInv`). |
| `OresLint_proofs!PendingInvariant`, `NoFalseAlarm`, `NoFalseAlarmInARun` | `IInv`: what a scope holds was bound by a visit already made and no call has delivered it under its name since; and of two scopes that hold a name, the inner one bound it later. The second is why a call that settles only the innermost holder leaves nothing delivered behind in an outer one. A run of `lint.sh` steps the rule or leaves it alone, and starts each file with empty scopes. |
| `OresLint_proofs!IgnoresStay`, `NestedAlone`, `TypeScriptParser` | `RunInv`: the files ESLint has been through are those before `k`, and `linted` holds exactly the linted ones with the parser the configuration gives them. Then the configuration: a glob of `legacyIgnoreFile` matches a path exactly when gitignore's reading of the line does, for every line globs can express; the last block that names a parser is never `espree` for TypeScript, whatever blocks follow. |
| `OresLint_proofs!SemicolonsEitherWay` | of `semi` and `ores/semi` exactly one is on and at the same level; the nodes the one handles are the statements the other misses; and a rule's messages are on exactly the lines it was raised on, since a finite set of numbers is enumerated by the number of smaller ones |
| `OresLint_proofs!NothingHidden`, `CleanOnlyIfRead` | `FormatInv`: the totals and each rule's count are the cardinalities of the sets of places the formatter has passed (`AtPlace`, `Totals`, `Counts`), and each rule has one entry, whose examples stop at the cap |
| `OresLint_proofs!LabelsFirst` | `Before`, with the position to break ties, is a strict total order of the entries, so the number of entries before one is its place: the sort is a permutation, and its order is that of `Before` |
| `OresLint_proofs!StrictExit` | `ExitInv`, from the invariants of the two reports: a report has findings exactly when one of its files has |
| `OresLint_proofs!TypeCorrect` | `TypeInv`: along the walk over a file there is a level for each visit, 1 at the first and 0 after the last (`ScopesLevel`), and the rule has as many scopes as the level at which it is; the scanner's scope is gone only where the tokens end (`BracesInv`). That the walk of every program with matching braces has such levels is `VisitsLeveled`, by induction over the program: before each line the level is one more than the number of functions around it (`Nest`). |
| `OresLint_proofs!Advances` | `AdvanceInv`: with `TypeInv` and `ReportInv`, the tokens are a sequence and the scanner's place in it is at least 1. That `tokenize` makes a sequence of every text is `TokensOf`, that every program has a text `TextIs`. The step that could go back is `LevelCall`, which jumps behind the chain: `MethodChainEnds` and `GleamChainEnds` show that a chain ends no earlier than the level method it was read for, because the walk to the root stops in the dotted name before that method, and from there every walk only passes tokens on. |
| `EnvFiles_proofs!PlaintextsAreWhole`, `CiphertextsSurvive`, `ContainersAreGiven` | `IInv` ties what a shell holds to the command it is at: a file about to be moved is whole, a file about to be redirected to was missing when the recipe looked, a container's variables were accepted |

Induction over data. The induction theorems of the library take an operator as a
parameter, which no installed prover can instantiate. Where an argument needs
induction over a number (the length of a path, of a value, of a prefix of a report),
the proofs take it as a statement about the *set* of numbers that have the property:
`NatSetInduction`, from the well-foundedness of the natural numbers, says that a set
that holds 0 and the successor of each of its numbers up to a bound holds them all;
`RankInduction` says the same of a set whose elements have ranks. `StepByStep` and
`Recursion` show that functions defined step by step, or by their value at a place of
lower rank, exist. Each recursive function of the model that a proof is about
(`Nest`, `tokenize`, `walkMethodChain`, `walkGleamPipe`, and `FlattenSeq` of the
community modules) is shown to exist by one of them before its equation is used, since
a recursive definition is a `CHOOSE` that says nothing otherwise. For the walkers this
is also what makes them end: each calls itself further on in the tokens.

Only model-checked:

* liveness (`Terminates`), which the provers do not reach;
* `ScannerExact` and `RuleExact`: they compare a checker with what whole programs
  deliver, by an induction over programs, their texts and their tokens that relates
  each token back to the statement it is of. The proofs show that this correspondence
  has the right shape (`VisitsLeveled`, `TextIs`, `TokensOf`), not what it carries;
  for the rule, one half is `NoFalseAlarmInARun`.

## 6. Where the code and its documentation differ

| Run | Difference |
|---|---|
| `StripeBoundary` | `formal/README.md:19` gives Stripe's event gate as string `id` and `type`; `event.rs:51` also takes an `event_type` when `type` is absent, for either provider |
| `DotenvQuoted` | `dotenv.py:10` has quotes stripped and four escapes expanded; `unicode_escape` also reads the bytes as Latin-1, so a character outside ASCII becomes two |
| `SameContract` | `require-send.mjs:5` promises "same contract as ores/require-send in ESLint"; in `e.field(x).send()` the token before `.send` is a parenthesis (`:331`), so the scanner reports an event the ESLint rule knows to be sent |
| `EnvRunUnset` | `env.just:136` runs a command "with <name>'s variables exported"; `eval "$(...)"` hides the failure of its pipeline and the command runs without them |

Seen while modelling, without a run of their own: a rejected timestamp ahead of
the clock is logged as a negative skew, so the message of `error.rs:21` asserts a
false inequality; a separator inside PayPal fields makes different fields one
message, against the word "total" at `tests/adversarial.rs:168`; a CRC32
collision makes two bodies share a signature, against "the exact bytes" at
`README.md:52`; mode `k8s` sorts the pairs, so a name assigned twice gets the
greatest value instead of the last; `env-clean` does not match the temporary
file of an interrupted decryption; `env-encrypt` writes back a plaintext that may be
older than the last `env-edit`.

In the lint toolkit (`.ores-lint/`):

* The ESLint rule does not honour `ores-lint-disable-*`, though its message
  (`eslint/plugin.mjs:123`) and `README.md` name it.
* The scanner reports events that are delivered: sent through a further call,
  returned by name, passed to a function, bound with a type (`:270`), piped in
  Gleam, or assigned in a block and sent after it, whose brace already reported
  them (`:323`). It misses events whose name is bound again in the scope
  (`:305`), chains that begin with a call or a cascade, and, where a trailing comma
  adds an argument (`:384`), a `log.log` that sends nothing; a Rust lifetime opens
  a string (`:131`). The branch of `walkGleamPipe` for a bare name (`:249`) is never
  reached.
* `ores-lint-disable-line` also covers the next line, and the form on "the previous
  line" (`:75`) is not honoured for a `disable-next-line` on its own line.
* The ESLint rule keeps one scope for each function (`eslint/plugin.mjs:204`), though
  `let` and `const` belong to blocks. In a function in which a block has bound `e`,
  a later `return e` settles that block's event; an `e` of the file, which is what is
  returned, is reported as "built but never delivered" (`:123`), and the block's is not.
  A call that stands alone settles its name twice, as a statement and as a call, so
  an event of the same name further out is forgotten with it. `RuleExact` leaves out
  the first by `BoundInBlock` and the second by `BoundOnce`.
* The ESLint rule reports `log.log(level, message, context)`, which the scanner
  exempts; it knows loggers by name for the whole file, and judges calls in the
  order of the walk rather than of execution.
* `js.sh` prints its note about TypeScript when no parser resolves, `base.mjs`
  leaves TypeScript out when none can be imported.
* `ORES_LINT_MAX_EXAMPLES` that is no number hides every example; messages without
  a rule are called parse errors whatever they are; `ores/semi` reports
  `export const x = 1` twice, against `plugin.mjs:343`.
* The directories ESLint and the scanner leave out differ, and `selftest.sh` runs a
  `require-send.test.mjs` that is not there.

## 7. Not modelled

* `Provider::from_str` and `Display`, the texts of errors: formatting.
* The recipes `env-list`, `env-status`, `env-whoami`, `env-doctor` (they print),
  `env-check` (it reads), `env-rekey`, `env-keygen`, `env-k8s-secret` (one external
  command each). `env-edit` and the encryption inside `env-encrypt` are single
  steps: nothing in the recipes orders two writers of one ciphertext, so there is
  no promise about lost edits to state.
* PayPal transmissions, the certificate cache and the ledger behind them: the
  crate's part is the pure function of `PaypalVerify`; what the cache keeps and how
  old a transmission may be is the backend's, and the repository says nothing of
  either that a property could be about.
* Of the lint toolkit: the discovery of tools, the halves that call clippy,
  `dart analyze` and `gleam`, the hook installer and the self test; the walk ESLint
  makes and how it reads a configuration (external); columns, fixes, the patterns
  of bundled files and wildcards in `.eslintignore`.
* The agent-instruction check (a sequential read-only walk), CI workflows, the Nix
  shell and build files.
* Fetching and validating PayPal's certificate chain, which the crate leaves to
  its caller.

## 8. The plan

The order of work, the most important behaviour first. All of it is done.

1. `StripeSignature`, `StripeVerify`: the call and its verdict.
2. `ProviderVerification` and the refinement of both verifiers.
3. `PaypalSignature`, `PaypalVerify`.
4. `StripeReceiver`: the composition, and its safety proofs.
5. `LifecycleExplorer`, `Dotenv`, `DotenvConsumers`, `EnvFiles`.
6. `PendingEvents`, `RequireSend`, `EslintRequireSend`: the two checkers, and the
   proof that the rule raises no false alarm.
7. `LintConfig`, `LintReport`, `FallbackSemi`, and `OresLint` over all of it.
8. The remaining proofs: `OverlapLosesNothing`, `LogIsFaithful`,
   `RejectionIsFinal`, `EnvFiles_proofs`.
9. Exactness of the explorer, agreement of the consumers of an environment file, the
   remaining types, and the run of the linter: what is linted, how, and what is said
   of it.
10. The walks over programs and tokens: the scopes of the rule and of the scanner are
   those of a well-formed state (`TypeCorrect`), and the run never stands still
   (`Advances`).

What a later change would take up first: a PayPal receiver, once the backend's
certificate cache is written down, and two writers of one ciphertext, once the
recipes take a lock.
