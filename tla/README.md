# TLA+ models of rust-to-cs-compiler

This directory models the parts of the compiler and of its C# runtime whose
correctness depends on interleavings, on the order of steps or on the agreement
of two languages. TLC checks small instances; TLAPS proves theorems about the
runtime and about the walk that writes a crate, for every instance. The reference is the source, at the lines that
`PROJECT.json` names under `"map"`.

## 1. Inventory

The compiler reads a Rust crate through rust-analyzer and writes C# that links
against a small runtime library. Data flow: `ra_internal` (semantic queries) ->
EIR (a tree of a function body) -> body transformers (rewrite the tree) -> body
emitter (text) -> crate emission (declarations, files); names, resolution of
functions and types are asked for by the last two. The C# program then runs on
`dotnet/r2CsRuntime`.

| Component | State | Operations | What makes it correct | Here |
|---|---|---|---|---|
| `RustTask` runtime (`dotnet/r2CsRuntime/Task.cs`) | per task: State, state machine, continuation, awaited task; per wrapper: token source, continuation | GetAwaiter/StartTask, AwaitOnCompleted/OnCompleted, GetResult, SetResult, SetException, Cancel, FromTaskWithCancellationToken, the TaskWrapper | every completion resumes its awaiter, once; a task ends once; Cancel ends every started task below; no internal check fails | modelled; its safety properties proved, section 4 |
| Runtime helpers (`Helpers.cs`, `Slice.cs`, ...) | none | Returns, Panic, Try, Loop, Tr | the emitted throw is caught where the Rust jump goes | Returns, Panic, Try |
| EIR (`codegen/body/eir`) | the tree | lowering, visiting, reading calls of built-in macros from their token trees | visitors reach every child once; a macro call means what rustc makes of it | the control-flow nodes; the macros but `cfg!` |
| Body transformers (`codegen/body/transformer`) | the tree, rewritten in place | ImplicitReturns, ExpandMacroLikeFunctions, ExpandBlockExpr, MatchOrPatternDefinitions | meaning is kept; what is left is what C# can express | three of four |
| Body emitter (`codegen/body/emitter.rs`) | output, locals and their counts, deferred items, match counter | one case per expression, statement and pattern | the C# does what the Rust does, and compiles | control flow, locals and patterns of a match, text of expressions, literals, constants in patterns |
| Crate emission (`codegen/mod.rs`, `decl.rs`, `constructable.rs`, `impl_from.rs`) | the types, their impls by C# name, the output | emit a module, its types, functions, impls, the items of bodies | every item is written once, where its users look for it; classes have what their interfaces ask; constants are ready when read | modelled but for types and generics; that everything is written, once, is proved of crates whose bodies defer no item twice |
| Output buffer, ids (`output.rs`, `id_map.rs`) | text, indentation, pending marks; maps to ids | write, indent, dedent, append, finish; get | braces and indentation balance; ids are fresh | the buffer |
| Naming, exclusion (`names.rs`, `item_exclusion.rs`) | none; the excluded paths | the C# name of an item, the attributes it carries | names do not clash; nothing kept uses what is excluded | modelled |
| Functions, types, traits (`function_resolution.rs`, `ty*.rs`, `dyn_compatibility.rs`, `simple_extensions.rs`) | caches | resolve a call, type to C#, generic parameters, dyn compatibility | one target per call; parameters and arguments in one order | not modelled, see 6 |
| `ra_internal` | none | types, constants, lang items | agrees with rustc | the reading of constants (`consts.rs`) |
| Test driver, build files | - | I/O | - | not modelled |

Hard behaviours: (a) the runtime's callbacks run on whatever thread completes a
.NET Task while others start, await or cancel, with no lock anywhere; completion,
cancellation and resumption call each other on one stack. (b) The compiler moves
jumps across languages: a Rust `match` is a C# `switch` that catches `break`,
Rust values are C# statements, C# checks reachability. (c) Or-patterns are
expanded to products of arms whose order is observable. (d) The compiler reads
macro calls, constants and parentheses itself instead of asking rustc, at many
boundaries (the end of a token tree, a niche, the precedence of an operator).
(e) One walk writes classes inside classes while names, impls and initialisers
refer across them. `PROJECT.json` lists
the hazards one by one, at their lines, with the properties that watch them.

## 2. Modules

| Module | Models | Checked by |
|---|---|---|
| `Future` | what a task promises who awaits it: lazy, settles once, wakes once | refined by `RustTask` |
| `RustTask` | the whole of `Task.cs` | `MCRustTask`, six configurations |
| `RustTask_proofs` | type correctness | tlapm |
| `RustTaskControl` | who runs a body as long as nobody calls Cancel: an inductive invariant | `pool` |
| `RustTaskCancel` | one thread, before and after a Cancel of the root: an inductive invariant | `single` |
| `RustTaskMachine_proofs` | the state machine of a task; a task is started once | tlapm |
| `RustTaskControl_proofs` | `RustTaskControl` is inductive | tlapm |
| `RustTaskFuture_proofs` | what follows until a Cancel, on any threads; every step is one of `Future` | tlapm |
| `RustTaskCancel_proofs` | `RustTaskCancel` is inductive; what follows on one thread, Cancel included | tlapm |
| `Eir` | control-flow nodes of EIR; types; meaning in Rust | through `Lowering` |
| `CSharp` | the C# statements that are emitted; their meaning; the C# compiler's rules | through `Lowering` |
| `BodyTransformers` | `transformer/mod.rs`, `implicit_returns.rs`, `block_expr.rs` | through `Lowering` |
| `BodyEmitter` | `emit_expr_as_stmt_ast`, `emit_block_contents`, `emit_expr_str_ast_inner` and the functions below them | through `Lowering` |
| `Lowering` | a function body going through the passes to the emitter | `MCLowering`, two configurations |
| `OrPatterns` | `match_or_pattern_definition.rs`, the emission of a match's patterns and locals | `MCOrPatterns`, two configurations |
| `MacroExpansion` | `eir/macro_expansion.rs` | through `Fragments` |
| `ConstEval` | `ra_internal/src/consts.rs`, the emission of constant patterns; the layouts rustc chooses | through `Fragments` |
| `Literals` | a literal, macro call or constant on its way to C# | through `Fragments` |
| `ExpressionText` | `emit_expr_str_ast` and the text of each kind of expression; the grammar of C# expressions | through `Fragments` |
| `Fragments` | `Literals` with expressions built node by node | `MCFragments` (and `MCLiterals`, its calls and types) |
| `Output` | `output.rs` | through `CrateEmission` |
| `Names` | `names.rs`, `item_exclusion.rs`, the Rust and C# paths of `ty.rs` | through `CrateEmission` |
| `CrateEmission` | `codegen/mod.rs`, `decl.rs`, `constructable.rs`, `impl_from.rs`, items in bodies | through `EmittedProgram` |
| `CrateWalk` | no code of its own: what the walk has found, what is left to write, and in which order: two inductive invariants | `MCCodegen` |
| `CrateCover` | no code of its own: what is to be translated (`Translated`), and that the walk comes to all of it: an inductive invariant | `MCCodegen` |
| `EmittedProgram` | what C# does with the classes written: lookup, interfaces, initialisation | `MCCodegen` |
| `CrateEmission_proofs` | braces and indentation balance, for every crate; the operators that collect items (`Select`, `CrateImpls`, `LocalImpls`) return each once; induction on numbers | tlapm |
| `CrateWalk_proofs` | `WalkInv` and `OrderInv` are inductive: nothing is written twice that is not deferred twice, constants in the order of declaration | tlapm |
| `CrateCover_proofs` | `CoverInv` is inductive; at the end what is to be translated is written, and nothing else; what an initialiser reads is ready | tlapm |

### RustTask: state and actions against the code

A thread has a call stack; a frame says in which method it stands (`pc`), for
which task, with which argument. One action is one statement of the topmost
frame: `StartTask` and `RunTask` are lines 84-90 of `Task.cs`, `Register` is
`OnCompleted`, `Publish`, `ClearStateMachine` and `RunCallOnCompleted` are the
rest of `SetResult`/`SetException`, `Cancel` ... `CancelChecks` the lines 40-48
one by one, `LeafCallsAction` ... `WrapperTakes` the bridge to .NET Tasks.
External actions are the client (hand-written C# that awaits `Root`, or calls
`Cancel`), the .NET Tasks that complete, and the bodies the C# compiler
generates for async methods (await any task not yet awaited, return, throw).

What is simplified, and why it loses nothing the properties see:

- accesses of different threads interleave at single fields and are sequentially
  consistent; the weaker .NET memory model is not explored;
- reads that follow each other with no write of another thread that could make
  them disagree in a way the code distinguishes are one step: the two checks of
  `StartTask`, the reads in `TaskWrapper.IsCompleted`, those in `GetResult`, and
  the check and clear in `SetException`;
- the compiler-generated state machine is a boxed object, as `AwaitUnsafeOnCompleted`
  makes it; a second entry of `MoveNext` is recorded (`reentered`) and not
  followed further, since its behaviour is undefined for the generated code;
- a `ReturnException` of another type than the task's is an error, as the
  pattern in `SetException` (line 109) treats it;
- each task is cancelled from outside at most once, and awaited at most once,
  as Rust's ownership of futures makes it (a bound and a fact, in this order);
- `CHECK_DEADLOCK FALSE`: the program really stops when all tasks have ended.

Fairness (`FairSpec`): a thread that runs something goes on (weak fairness of
`Step` for each thread: threads are scheduled), every .NET Task completes and its
queued callbacks run (weak fairness of `External`, the thread pool), and the
client comes to await the root. `Cancel` gets no fairness. Fairness is assumed
in the run `single` alone.

### Lowering: state and actions against the code

The state is the function, the tree the passes have rewritten so far, the output
and the last pass that ran; the three actions are the `accept!` lines of
`transform` (132, 134) and `emit_function_body_impl`. Every helper is a function
of the source: `SplitUnitReturns` is `visit_statements`, `ReturnBlock` is
`visit_block_like`, `EmitSection` is the loop over the arms, and so on.

Data is booleans. A body's atoms are external calls, which answer with the next
value of an input sequence or answer nothing; what a body does is the sequence of
calls it makes and how it ends. `Eval` defines this for Rust, `Exec` for C#;
both are cut at the same calls and loop turns. `FlowOf` is the reachability rule of the
C# specification, with the errors it decides: falling through a section, a
missing or a wrong return, a jump without a target, a throw expression in a
place that takes none. Types are what rust-analyzer reports (`Type`).

The compiler does not claim to translate everything: where it knows it cannot,
it logs an error, and the model collects these (`logged`). Some translations go
wrong silently; each has a name in `KnownGaps` with a syntactic test in `HasGap`.
`SameBehaviour` and `Compiles` speak of functions with neither (`Translated`):
2,090 of the 3,364. Taking any one gap out of `KnownGaps` makes one of the two
fail, so no gap is wider than a real fault of the code:

| Gap | Where | Effect |
|---|---|---|
| `or` | emitter.rs:1018 | `\|\|` is written `&&` |
| `try` | emitter.rs:1431, Helpers.cs:40-57 | `?` throws NotImplementedException |
| `return in value` | emitter.rs:1346 | an exception nothing catches |
| `break in match` | emitter.rs:524 | leaves the switch, not the loop |
| `labelled for` | emitter.rs:445-468 | goto to a label that is not emitted |
| `unit arm` | implicit_returns.rs:192-199 | `return f();` in a void method |
| `loop with break` | emitter.rs:416 | taken for diverging: `break;` or `return default;` missing |
| `same label` | emitter.rs:149-155 | two loops of one label, one C# scope |
| `else if` | emitter.rs:1473-1476 | as a value: the first condition and branch are lost, the second written twice |
| `if without else` | emitter.rs:1479-1482 | as a value: the name of a type, `ValueTuple`, stands for the other branch |

`PassesKeepMeaning` needs no gap: it holds of every function.

Not in this model: closures, async blocks, labelled and unsafe blocks, breaks
with a value (the emitter logs them), `if let` conditions, cfg attributes,
ExpandMacroLikeFunctions, and every data expression (calls, operators, fields,
literals), which the atoms stand for; their text is the business of `Fragments`.

### OrPatterns: state and actions against the code

`Expand` replaces one arm as `visit_expr` does, `EmitSection` writes one section
and allocates its locals as `alloc_binding_ast` does (name and count). A pattern
is a wildcard, a rest, a binding, a constructor over patterns (literals, paths,
tuples, records, slices) or an or-pattern; a guard is the set of bindings it accepts. `Bindings`
lists the ways a pattern fits a value in the order both languages try them;
Rust tries the guard for each of them, C# once per section. That the two
agree is `SameArm`. Of arms with a guard whose or-patterns are combined
(`Crossed`) it speaks only if `GuardsCross`: there the code is wrong, see below.
Not in this model: or-patterns in `let` and `if let`, which the pass does not
visit; ranges and references in patterns (constants are in `ConstEval`).

### Fragments: state and actions against the code

The state is one fragment of a program (`source`), what the compiler made of it
(`eir`), what the C# compiler makes of the text (`cs`), and how far it has come
(`stage`). A fragment is a literal, the call of a built-in macro, a constant in a
pattern, or an expression.

- Macro calls: `EmitExprMacro` and the operators above it are the parser of
  `macro_expansion.rs` (`NextExpr`, `NextType`, `IsEnd`, `ParseRestAsFormatArgs`), on tokens that
  tell apart what the parser does: identifiers, token trees, single punctuation characters, comments.
  `EmitMacro` is the emission of the nodes it makes. `MacroMeansItsCall`
  compares arguments, their order and the text of a format string with the call
  as it was written; `Changed` and `Refused` name the calls that come out
  otherwise, each a finding.
- Constants: `Encode` lays a value of a type out in bytes as rustc does (fields
  in layout order, references to a heap, tags and niches); `DetectVariant`,
  `GetField`, `GetElement` and `GetValue` read them back as `consts.rs` does, and
  `EmitConstPat` is the emitter's pattern of the result. `ConstPatternMatches`: the pattern matches the value it
  came from and no other value of the type; `Misplaced` and `TagTrouble` name the
  types where the compiler panics or reads another value. A word is one
  byte and the widest integer three (`WordSize`, `PadSize`, 8 and 16 in the
  code): offsets and padding are computed from them in one way for all sizes.
- Literals: `NoSilentChange` adds that what is not refused is the same string in
  C#, escapes included.
- Expressions: `Enclose` puts a node around the expression built so far, so
  that every chain of constructors of the right sorts arises;
  `WriteExpression` writes it as `emit_expr_str_ast_inner` does, as tokens, and
  reads the tokens as the C# grammar does (precedence, the cast ambiguity,
  lambdas, switch expressions). `TextIsExpression` says that the tree read back
  is the tree meant *exactly when* no node stands where the emitter forgets
  parentheses (`TextGap`): an equivalence, so no gap is wider than a fault.

Not here: the types written in casts, closures and calls; conversions and
overloads; which functions have their arguments rearranged; paths that fail to
resolve.

### CrateEmission and EmittedProgram: state and actions against the code

A crate is a sequence of items, parents first (`Names` lists their fields). The
calls of the emitter that stand inside an open brace are `stack`: a frame is the
class being written with the jobs left in it, in the order of the code's loops,
so one action is one call (`EmitModule`, `EmitAdt`, `EmitTrait`, `EmitImpl`,
`EmitFunction`, `EmitBlock` for the items of a body, ...). `out` is the buffer,
`decls` the declarations, `bases` the interfaces and `refs` the references
written. `Output` keeps of the text how it ends, the sum of its indentation
marks, and the counters of `Code`: newline, indent, dedent, raw writes and
`append` are the operations of `output.rs`. `Names` keeps names as sequences of
letters and converts them as `names.rs` does.

The items of a body are found by the emitter of the body, which pushes one entry
on a list each time it writes an item's statement (`add_deferred`); `deferred()`
keeps every entry. The list is part of the crate (the field `deferred` of a
function, constant or static), since the text of bodies is not in this model. Its
entries are items of the body (`DefersItsOwn`), in any order and number: an arm
`A(x) | B(x) => ..` that `MatchOrPatternDefinitions` copies brings its items once
per copy, as does the branch of an else-if used as a value, which is written twice
(a closure in it may hold items); a loop or a block with statements as a value,
and the branch in front of such an else-if, bring none. `EmitBlock` writes an item
as often as it is on the list, with all it defers itself; a type brings its impls
each time.

When all is written, `EmittedProgram` runs the class initialisers: `Touch` picks
any class not yet started, `Read` follows a static readonly field into the
class of another, `Store` ends a field. Rust evaluates a constant where it is
named, so every read of one that is not ready is a change of meaning.

| Property | Says | But for |
|---|---|---|
| `LayoutBalanced` | at every step the indentation is the depth of open classes; at the end it is 0 | nothing (proved, section 4) |
| `EmittedOnce` | at the end, what is to be translated is written once, an item of a body once per entry on the list each time the body is written, and nothing else is | `Doubled`: two types of one C# name get both sets of impls (proved for `FoundInOneWay`, section 4) |
| `WalkInv` | an item has one job at most or is written, once, and has it only once what it is found through has been opened | crates that are not `FoundInOneWay`: two types in modules share a C# class (`ClassesDistinct`), or a body defers an item twice (`DeferredOnce`) (proved) |
| `CoverInv` | what is found through an item that has been opened has a job or is written; a job is for an item whose surroundings are translated, and comes with all its impls | the same (proved) |
| `OrderInv` | of the constants and statics of one module, block or impl, one declared earlier is written earlier | the same (proved) |
| `ReferencesResolve` | a path in a body leads C# to the item Rust finds, if that is translated | nothing |
| `NamesDistinct` | no two members of a class clash, none is named as its class | `Excused`; `WrittenTwice`: what is deferred twice, or in an impl of two types of one C# name, is declared twice with all it holds, which C# rejects |
| `InterfacesImplemented` | a class has a member for each method of its interfaces | default methods of traits other than eleven of serde (mod.rs:409) |
| `ReadsInitialised` | constants are ready when read | constants read before their line or through a cycle of classes (`Later`, `Needs`; proved for `FoundInOneWay` and `OneHome`, section 4) |

`Translated` says which items the code means to leave out, and why: `Placed` by where an
item stands and whether the emitter comes to it (`Met`), `Passes` by what its
handler asks of it. The emitter never computes it.

Not in this model: generic parameters and types in signatures, comments,
`lazy_static` items of bodies, references into impls of types of other crates,
attributes that remove an item (rust-analyzer has removed them already).

## 3. Runs

| Run | Bounds | Question |
|---|---|---|
| `single` | one thread, four tasks (two leaves), Cancel of the root | does everything that ends resume what waits for it; does Cancel reach everything; does the root implement `Future`, liveness included; is `SingleInv` an invariant |
| `pool` | three threads, four tasks, no Cancel | is a body ever entered twice, does a task outlive its awaiter, does a check fail, is the client misled; is `ControlInv` an invariant |
| `race` | two threads, a chain of three tasks, Cancel of any at any time | types, and `MachineKeptWhileRunning` |
| `wakeup` | two threads, chain | violation: lost wakeup |
| `cancelrace` | two threads, chain, Cancel | violation: an ended task changes how it ended |
| `unstarted` | one thread, Cancel before the first await | violation: Cancel's own check fails |
| `lowering` | 3,364 functions, four answers, five loop turns | do the passes keep the meaning; does the C# do the same; does it compile |
| `lowering_break` | the same, without the gap `break in match` | violation: the switch catches the break |
| `or_patterns` | 392 matches on 16 values, 8 guards | same arm, same bindings; no binding under `or` |
| `or_patterns_guards` | the same, all guards judged | violation: order of combined or-patterns |
| `fragments` | macro calls with up to three expressions of six shapes and formats of up to three segments; types nested three deep; eight kinds of literals; expressions of up to four nodes on a path (`MaxDepth` = 3) | what is refused, what is changed, and does all else mean in C# what it means in Rust |
| `codegen` | 2,714 crates of up to 20 items, in eight families | the nine properties above, at every step of the walk and in every order of initialisation |

Why the bounds are enough. Runtime: the tree has an inner task, a task awaited by
it, a leaf below it and a second leaf, so a completion can come from below, from
beside, and while the awaiter is elsewhere; the races found need two threads, and
a third adds a completion during another; a task's code touches only itself,
its awaiter and the one it awaits, so a chain of three shows every role.
Lowering: functions are enumerated by shape: every kind of value (condition,
block, if, else-if, match with and without guard, nested ones) in every place a
value can have (tail, return, let, let-else), sync and async; every unit form; every
jump out of every loop, directly, from an if, a match, an inner loop. No
shape makes more than four answering calls before its paths repeat, and five
turns let an outer and an inner loop be left and entered again. OrPatterns: pairs
of pairs give two or-patterns side by side, one below another, one below a
binding, and `..` before and behind a pattern; two bits per pair make the
alternatives overlap. Fragments: the parser of macros looks at one token beside the
current one, so three elements show first, middle and last in every pairing;
a constant is misread only relative to what directly holds it, so three levels
show the holder at an offset; precedence is decided between a node and
its child, and a node that writes nothing (a reference, a block) may stand
between them, so four nodes suffice. Codegen: `ModuleTrees` nests modules three deep with
every pair of names; `TraitImpls`, `LangImpls`, `InherentImpls` put an impl
in every place relative to its type and trait; `Bodies` puts items in bodies two deep,
in two bodies and in a block of a block, and `CopiedBodies` defers them
twice or never, at either depth; `ConstantGraphs` has all acyclic uses of three constants in
up to three classes; `NamePairs` has two items of one kind with every two of eight names,
and two types of such names with an impl of one.

Each property of a passing run has a mutant in `PROJECT.json`: an operator that
makes one mistake in place of a mapped definition, under which TLC finds the
property violated.

## 4. What is proved

All theorems about the runtime hold for any set of threads, any tree of tasks and
any leaves, under assumptions about the constants that the code justifies:
`TreeAssumption` (the awaiter of a task is another task, not a leaf; Root's is the client),
`NamesAssumption` (client, wrapper and null are told apart from tasks), `RootedAssumption`
(every chain of awaiters ends at Root: a task is created by a body that runs), `NullAssumption`
(null is no exception). TLC evaluates them in every run of `MCRustTask`. What
further hypothesis a theorem has is part of its statement.

**For any use of Cancel** (`RustTask_proofs`, `RustTaskMachine_proofs`; run `race`):

- `TypeCorrect`: `Spec => []TypeOK`, by a lemma on what a step does to a stack
  (`StackStep`) and one on the fields (`StepTypes`).
- `MachineKept`: `Spec => []MachineKeptWhileRunning`. A task that has lost its
  state machine has ended. This is not inductive: `StartTask` could run a task a
  second time, or a stale frame could clear the machine of a task that was just
  started. `MachineInv` adds that at most one frame of one thread starts a task
  (`StartedOnce`), that this frame exists only while the body is fresh and no longer to be awaited
  (`StartingIsFresh`, `TodoIsFresh`), that frames and continuations that run a
  body belong to bodies no longer fresh (`RunningIsNotFresh`,
  `ContinuationIsNotFresh`), that fresh bodies have their machine, and that the
  frame about to clear it finds its task ended (`ClearIsTerminal`). `FramesFit`
  restates the parts about stacks frame by frame, so that a step, which touches the
  top frame alone, is one case each.
- `TaskStartedOnce`: `Spec => [](StartedOnce /\ StartingIsFresh)`, the lazy start
  happens once, whoever comes first.

**Until somebody calls Cancel, on any threads** (`RustTaskControl_proofs`,
`RustTaskFuture_proofs`; run `pool`):

- `ControlIsHandedOn`: `Spec => []ControlInv`. Task.cs has no lock; what keeps two
  threads out of one body is that the right to run it is in one place and handed
  on: from the method that starts the task to its body, from the body to the
  continuation it registers, from there to whoever completes the awaited task.
  `NoReentry` by itself is not inductive, as nothing in it says that a continuation
  is called once. `SoleControl` says there is one controlling frame per body over
  all threads; `WakeFits` and `ContinuationFits` that a registered continuation is
  that of a body which is suspended for this very task and has no controlling
  frame (`Parked`); `ControlFits` how far the task of each frame has come;
  `AwaitedFits` and `RunningAreAwaited` that a body with a running task below it is
  about to await it or waits for it; `UnawaitedIsUnregistered` and
  `ClientStartsRoot` close the induction at the start of a task. The proof has one
  lemma for each action, over three kinds of change of the stack (`Goto`, `Call`, `Return`).
- `NoReentryUntilCancel`, `NoEscapeUntilCancel`, `AwaitedEndsFirstUntilCancel`:
  `Spec => [](cancelCalls = {} => ...)`. No body is entered while it runs, no check of the runtime
  fails, and a task does not outlive its awaiter, up to the first Cancel.
- `TerminalIsFinalWithoutCancel` and `FutureIsKept`, where `Cancellable = {}`: how a task
  ended never changes, and every step of the runtime is a step of `Future` or
  changes nothing of it (`NeverMisleads`, the safety half of the refinement under
  the mapping `AbstractFuture`), with one case for each action that starts, settles or wakes.

Nothing is said here of lost wakeups: on two threads they happen (run `wakeup`). The
hypothesis on Cancel is needed: on two threads a Cancel breaks
`TerminalIsFinal` (run `cancelrace`).

**One thread, and a Cancel of Root by its client** (`RustTaskCancel_proofs`; run `single`). The hypothesis
`OneThread` is one thread, `Cancellable \subseteq {Root}`, `CancelCreated = FALSE`;
without the last the check in `Cancel` fails (run `unstarted`).

- `CancelEndsEveryBody`: `Spec => []SingleInv`, in two halves.
  `BeforeCancel` strengthens `Control` by what one thread adds. Callers on the stack
  are starters: every frame but the top one waits for the task it started to reach
  its first suspension. Between the check of `IsCompleted` and `OnCompleted` nothing
  has happened (`AwaitsPending`), so every body that waits is going to be resumed
  (`WaitingIsWoken`): what it waits for is still pending and knows its continuation, or its end is
  being published on this stack (`EndIsPublished`).
  `SinceCancel` says the stack is a chain (`CancelChain`): a `Cancel` in its check of
  the inner task calls that task's `Cancel`, or the token's callbacks, which resume the
  cancelled body; each body so resumed ends in `SetException`, and returns into the
  `Cancel` that resumed it. Every cancelled task has ended with its machine dropped, or
  stands under its own `Cancel` on this stack (`TaskCancels`); every task that runs still waits, and is awaited.
  The invariant of the chain alone is not inductive: that `Cancel` finds the
  machine cleared on its return needs what the top frame is about to do
  (`TopCancels`), and that the resumed body sees a cancelled awaiter needs
  `SeesCancel`. The step from one half to the other is `Cancel` by the client
  on an idle stack.
- `NoLostWakeupOnOneThread`, `CancelReachesLeavesOnOneThread`,
  `CancelFlowsDownOnOneThread`, `NoEscapeOnOneThread`, `NoReentryOnOneThread`,
  `AwaitedEndsFirstOnOneThread`, `TerminalIsFinalOnOneThread`: the
  safety properties of the runs, with Cancel. That a Cancel leaves no task running
  uses `RootedAssumption`: when the stack is empty a running task is
  awaited by a running task, a set of them without its root would have no end.
- `FutureIsKeptOnOneThread`: `NeverMisleads`, also where the client cancels.

**Crates.** `CrateEmission_proofs` proves, for any set of crates, any names, exclusions and
attributes:

- `CrateIsBalanced`: `CrateSpec => []LayoutBalanced`. The inductive invariant is
  `LayoutInv`: the stack is a non-empty sequence, and the output is
  `AtStart(out, Len(stack) - 1)`, at the start of a line with no mark pending and
  marks summing to the number of open classes. `LayoutBalanced` alone is not
  inductive: a mark asked for in the middle of a line stays pending, and a
  newline written past it (`writeln!` on a `Code`, `RawWln`) would leave the
  counter and the marks in the text apart. The lemmas say of each operation of `Output` what it makes of
  `AtStart` and of `InLine` (in the middle of a line, marks settled or not), and
  there is one lemma for each action of the walk.

`CrateWalk_proofs` proves that nothing is written twice that no body defers twice. It uses `CratesAssumption`: an item
comes after the one it is declared in, which is of a kind that can hold it (`StandsIn`: a
function in a module, block, trait or impl, a type in a module or block), an impl's type is an ADT of
the crate or none, its trait a trait or none, as rust-analyzer reports them; the order is how the
crates are numbered. TLC evaluates it in `codegen`.

- `WalkIsInvariant`: `CrateSpec => []WalkInv`. The emitter has no set of what it has written. That
  it comes to an item once follows from how it finds it: through
  the module, trait, impl or body it stands in, or, for an impl, through its type (`Home`).
  `WalkInv` speaks of crates that are `FoundInOneWay`. Impls are found by the C# name of
  their type, so two types of a name each get the impls of both (the finding at
  `mod.rs:113`); and an item that its body defers twice is written twice (the finding at
  `decl.rs:324`). Both hypotheses are needed: without either TLC finds the walk writing an item again.
- "Nothing is written twice" (`WrittenOnce`) is not inductive: it needs that no two jobs are for one item
  (`OncePending`), that a job fits the item it is for and the class it stands in (`JobsFit`; a
  trait's function is written in the class of the defaults and only wrapped elsewhere), and
  that an item with a job is not written, and found only after its home was opened
  (`FoundOnce`). An impl makes no declaration itself, so `Opened` asks of it that its
  type is written and that no job for it is left; of a trait, that the job for
  its defaults has been done.
- `WalkStep` is the argument, once for all actions: a step takes the next job off
  (`Moves`), adds jobs for things found through its item, each once (`Children`), and declares
  at most this item (`Grows`, `Declared`). Each of the actions has a lemma that it is such
  a step. `EmitModule`, `EmitAdt` and `EmitBlock` find impls by
  name or by place; there the work is that no impl comes in two ways.
- What the collecting functions return needs an induction on the length of the crate.
  `CrateEmission_proofs` has it without an operator parameter: `LeastNumber` is the
  well-foundedness of `<` on `Nat` stated with a set, `UpTo` the induction, `Recursion` the
  existence of functions defined from `n - 1`, with the step given as a function. `SelectOnce`,
  `CrateImplsOnce` and `LocalImplsOnce` are the results.

`CrateCover_proofs` proves the other half, from the same assumption: nothing that is to be
translated, and in a body is met by its emitter (`Met`), is left out, and nothing else is written.

- `EmittedAsTranslated`: `ProgramSpec => [](FoundInOneWay(crate) => EmittedOnce)`, through
  `CoverIsInvariant`: `CrateSpec => []CoverInv`. With `ClassesDistinct` the exception `Doubled`
  of `EmittedOnce` is never needed, and with `DeferredOnce` the count is one for each item that is
  met; the proof covers the items `Doubled` would excuse too. How often the impls of two types of one
  name, and items deferred twice, are written is TLC's matter.
- `EmittedOnce` speaks of the end only. While the walk goes on, what keeps it true is that
  whatever is found through an open item has a job or is written (`AllReached`), that a
  job is for an item whose surroundings are translated and an `adt` job carries
  exactly the impls that are `Placed` (`JobsDue`), and that what is written is translated
  (`WrittenDue`). It is inductive together with `WalkInv`, which says for which kind of item a job is
  (`JobsFit`), and so what its handler finds.
- `StepCovers` is again one argument for all actions: a step keeps the jobs below (`Keeps`),
  and makes jobs for exactly what its item leads to (`Makes`, `Found`). The work is in the two places
  where impls are found, `ModuleTypeDue` (by C# name, over all modules) and
  `BodyTypeDue` (those deferred, and those next to a deferred type), and in blocks, which get a
  class only when they hold a deferred item (`Wanted`).
- At the end no job is left, so an item that is wanted and not opened has a home that
  is neither (`UnopenedHome`). That this cannot go on is not the order of declaration: the home
  of an impl is its type, which may be declared after it, in a module that is. `EndReached`
  descends on the owner of the innermost body (`Bodies`), which never grows from an item to its home
  and falls from a body's outermost block to its function; where it stays the same, the
  kinds of items give the rest: blocks and modules are found through earlier ones, types and traits
  through modules and blocks, impls through types, functions through all of these.
- `Around`, `Owner` and `Translated` go from an item to its parent or home. `Descent` gives
  the existence of the functions they choose, for parents that come first. For `Translated`
  homes need not, and it is the largest set of items closed under its condition that is such a function
  (`TranslatedUnfold`).

The order of constants, and what it means for their values (`static readonly` fields,
`decl.rs:475`), from the same assumption:

- `WrittenAsDeclared`: `CrateSpec => []OrderInv`. Nothing in the emitter sorts; what is written
  comes in order because jobs do. `WrittenInOrder` alone is not inductive: it needs that the
  jobs for the constants of one module, block or impl stand in one class and in order
  (`FieldsInOrder`), and that those written come before those with a job (`WrittenBefore`).
  What a handler selects from the crate is in the order of items (`SelectInOrder`); that
  these jobs come from one handler call, once, is `WalkInv` again.
- `ReadsAreReady`: `ProgramSpec => [](FoundInOneWay(crate) /\ OneHome => ReadsInitialised)`.
  Classes are touched, and initialised, in any order; initialisations are nested as reads
  find classes not yet begun. `ReadsInitialised` looks back at the reads made; the inductive
  invariant is `Initialising`: a class whose initialisation began is at it or has all its values
  (`Begun`), an initialisation has still to come to every field without a value and comes to
  those of one home in order (`Fits`), no class is initialised twice at a time (`Apart`), and each
  initialisation waits for one that its next read began (`Chained`).
  A read that finds no value is then of a field of the class itself, one that is this field or
  after it, or of a class further out, which leads to the class that reads, one
  initialisation after the other (`WaitsReach`).
- `Needs` counts steps up to the number of items; in the invariant stands `Reaches`, membership
  in every set closed under reading, which needs no counting. `ReachesNeeds` brings them
  together: each step that is not the last adds a class, and there are no more classes than items.
- `OneHome` says that the constants of a class, apart from those of its impls, come from one module
  or block. It is stated of what is written because C# names decide it: two blocks of different bodies
  with one index path, or two modules with one class, are one `partial` class, whose fields come in
  the order in which these are written, not by declaration (`names.rs:187`). It holds of all
  the crates of `codegen`, where some reads do find no value.

Only model-checked:

- the liveness half of `Future`, as fairness and ENABLED are out of the prover's reach;
- all of `Lowering`, `OrPatterns` and `Fragments`. They recurse over trees and
  tokens, in RECURSIVE operators, which the prover does not take; an induction on data
  would have to be brought to one on numbers first, as was done for lists of items;
- of `codegen`, `EmittedOnce` and `ReadsInitialised` of crates in which two types in modules have one
  C# class or a body defers an item twice, and the properties that rest on names (`ReferencesResolve`, `NamesDistinct`,
  `InterfacesImplemented`);
- of the runtime on several threads, what `Cancel` breaks there (section 5).

## 5. Findings

Shown by a violation run: the lost wakeup (`Task.cs:57`), Cancel racing completion
(`Task.cs:42`), Cancel of an unstarted task (`Task.cs:46`), `break` in a match
(`emitter.rs:524`), the order of combined or-patterns (`match_or_pattern_definition.rs:258`).

Shown by a named exception of a passing run: the run fails when the exception is taken out.
`Lowering`: the table in section 2. The others, with what the documents and tests say, are
in `PROJECT.json` under `"findings"`:

- macros: `vec!` drops elements (`macro_expansion.rs:131`, 414), log macros drop the
  values of their keys (341), `assert!(c)` and format arguments with `==` or by position panic
  the compiler (178, 648, 701);
- constants: arrays and tuples inside a value are read from the wrong
  offset (`consts.rs:477`, 541), negative discriminants are not found (613), a variant beyond the
  untagged one is read as another (630);
- literals: byte and C strings become empty (`emitter.rs:1528`), `\u{..}` is no C# escape (1526);
- text: parentheses missing (1045, 1051, 1044), a tuple of one (1106), `[v; n]` (1236), an if without else as a
  value (1482);
- crates: order of constants (`decl.rs:475`), default methods (`mod.rs:412`), impls by C# name
  (`mod.rs:113`), block classes (`names.rs:187`), a module named as its parent (`names.rs:174`), `const _` (`decl.rs:464`), items of copied arms
  (`decl.rs:324`) and of dropped expressions (`emitter.rs:1404`).

Seen while reading, outside of what the models can tell: in macros, comments are
tokens like others, and `next_expr` cuts at the commas of a turbofish or of closure
parameters; impls in a submodule of an excluded module are still collected; the
members `From<&str>` and `From<String>` give a type erase to one
signature, as do the operators of two `PartialOrd` impls; a constant of a
trait in an expression hits an `unreachable!` (`ty.rs:702`).

## 6. Not modelled, and the plan

Left out:

- Function resolution, types, generic parameters, dyn compatibility
  (`function_resolution.rs`, `ty.rs` but for paths, `ty/`, `dyn_compatibility.rs`,
  `simple_extensions.rs`). What they decide is asked of rust-analyzer's trait solver over the
  whole graph of crates (predicates, associated types, method resolution); a model would have to
  invent the answers, and the order of the code's tests is all that would be left.
- `ra_internal` but for `consts.rs` (it forwards to rust-analyzer), lowering from
  syntax to EIR (one case per node; what it drops, the parentheses, is in `ExpressionText`),
  `main.rs`, the test driver, `r2CsNative` (comments), `Slice`/`Slot`/`Range`/`Compat`
  (accessors and stubs), comments in the output.

Next, in this order:

1. `Lowering`: ExpandMacroLikeFunctions, closures, async blocks, cfg attributes of arms.
2. `id_map.rs` and the parameters of impls, with the signatures that `CrateEmission` abstracts.
3. Proofs: `ReferencesResolve` from `EmittedAsTranslated` and facts about names; what the
   runtime keeps of `NoReentry` on several threads with a Cancel.
