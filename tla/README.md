# A verification of proof-scaffold in TLA+

proof-scaffold (`skfd`) builds formal proofs in Python and emits them as one
Metamath file. Theorems are written as proof bodies of a theory or as proof
scripts; both end as calls of a unit builder; the resulting units are linked into
a monolith; Metamath verifiers, one of which is part of the repository, check it.
The directory holds TLA+ modules of that pipeline, TLC configurations that check
them on small instances, and proofs for TLAPS of what should hold for every
instance.

Every definition is translated from the source; `PROJECT.json` ("map") names the
lines each one stands for. An operator called `Name_Variant` that precedes
`Name` is not part of the model: it is the same definition with a plausible
mistake in it, and each property below is violated when one of them is put in
(`PROJECT.json`, "mutants").

## 1. Inventory

The program is a pipeline of single-threaded parts that share a few tables.
There are no threads, locks or network; what makes it hard is *order* (input
lists, hash order of sets, sorted ids, the order in which lazy proofs are asked
for), *re-entrancy* (a proof body imports modules and runs other bodies while the
registry is walked), *scopes* tracked by four different stacks that must agree,
*distinct-variable conditions* that are computed at three places, *partial
failure* (an exception in the middle of an operation, a diagnostic after a file
was opened) and *files that outlive* the process.

| Component (source under `src/src/skfd`) | State | Operations | Talks to | What must be right |
|---|---|---|---|---|
| Symbol interner and names (`core/symbols.py`, `names/resolver.py`) | two dictionaries, ids by length | `intern`, `canonicalize` | shared by all builders of a run | one id per key and back, units of different modules apart, definitions stay |
| Linear IR (`core/lir.py`, `core/unit.py`, `core/contracts.py`, `core/disjoint.py`) | none | statements, contracts, `$d` pairs | written by the builder, read by linker | what a scope is |
| Unit builder (`builder_v2/builder.py`, `builder/visitor_lir.py`) | stack of scopes, labels used, statements, exports | `f e a p d block export finish`, automatic `$f` | interner, resolver | unique labels, balanced blocks, every mandatory variable floated |
| Linker (`linker/api.py`, passes 1 to 5) | label index, dependency graph, frames, contracts, stream | one pass after the other | units of the builder | every citation resolvable and allowed, contracts equal to the frames of the text, no unit lost |
| Relocation (pass 6) | names used, table | name search | interner's table | distinct names, search ends |
| Metamath verifier (`verifier/mmverify.py`) | frame stack, dictionary of labels, proof stack | read each statement, check each proof label | reads the file | what it accepts follows |
| Driver (`driver/runner.py`, `graph.py`, `discover.py`) | paths, metas, dependency graph, exports, units, files | resolve, plan, build, verify | all of the above, file system | closed and ordered plan, files of one link |
| Verification command (`cli.py`, `verifier/__init__.py`, `config.py`) | exit status, results | run the driver, run the verifiers | processes | success means that all was checked |
| Theories (`authoring/theory.py`, `assertion.py`, `proof_author.py`) | assertions registered, proof bodies, cached proofs, imports and bodies that run | declare, prove, `use`, `qed`, `implementation`, `verify_all` | source modules, replay, emission | a cached proof stands in every later registry, what is published follows |
| Terms, notation and languages (`authoring/assertion.py`, `dsl.py`, `structured.py`) | none | match, substitute, distinct-variable conditions | theories, emission | substitution respects conditions |
| Semantic emission (`authoring/metamath_emission.py`, `metamath_lowering.py`) | none | replay a proof, lower terms, write `$f $e $d $a $p` | theories, builder | a frame is the signature, the proof is the one the verifier expects |
| Catalogue and replay (`authoring/catalog.py`, `replay.py`, `legacy_*.py`) | catalogue of signatures | build, digest, replay | theories, emission | replay of a finished proof succeeds |
| Proof scripts, proof IR (`driver/script_runner.py`, `proof/ir.py`) | steps, lemmas, signature cache | run functions, match arguments | registry, lowered emission | left-out arguments found |
| Proof registry and coverage (`proof/core.py`, `signature.py`, `validate.py`, `coverage.py`) | constructors, signature cache | declare, validate, report | scripts, emission | a valid registry can be emitted |
| Unification (`proof/unify.py`) | none | parse, unify, match hypotheses | scripts, emission | sound and complete on what parses |
| Lowered emission (`authoring/emit.py`) | builder's `$f`, lemmas to do | order lemmas, write proofs | unification, builder | order of hypotheses, condition pairs |
| Lexicon (`names/lexicon.py`) | mapping, aliases, displays | `add`, merge | resolver | read before anything runs |
| Expression parser (`core/peg.py`, `authoring/parsing.py`) | memo of one text | parse | authoring | memo keyed rightly |
| Text emission (`linker/emit`) | none | print the stream | files | no logic of its own |
| Doctor, web browser, configuration | reports | read finished data | files | little state |

`PROJECT.json` lists each of them with what is modelled, and under "hazards"
every place that is hard to test, with the property that watches it.

### How the parts meet

A command creates a `DriverRunner`, which resolves the packages a source tree
needs (recursively, from path sources and installed distributions), sorts them
and calls `build(ctx)` of each with a fresh `MMBuilderV2` on the *shared*
interner. The builder's `finish()` gives a unit. `verify_package` collects the
units of a package's dependency chain, opens the artifact, calls `LinkerV1.link`
and writes the artifact, its source map and its names. The command then runs the
configured verifiers on the artifact.

There are two ways to a unit.

* *Theories.* Importing a module of text (a shard) registers assertions and
  attaches bodies to theorems. A body runs when its theorem's `implementation` is
  first asked for: by a program, by another body, by `verify_all`, by the emitter. It
  calls `use` and `qed` of a proof author, which checks each step against the
  registry of that moment, and may import further shards. The result is cached
  for good. The emitter walks the theory in the order of its binding, replays each
  proof, and writes one block per assertion.
* *Scripts.* Functions of a script build lemmas step by step; cited lemmas come from
  a catalogue; the emitter closes the set under citation, orders it by
  dependencies and writes axioms, rules, syntax and a proof for each lemma,
  finding the substitutions by unification.

The common ground of builder, linker, both emitters and verifier is the meaning of
the `${ ... $}` scopes. Each keeps a stack of its own. `Scopes.tla` and `Lir.tla`
state that meaning once, by position and without any stack (`InScope`; `FloatOf`,
`FrameOf`); it is the abstract specification the others are measured against:
`ActiveFIsTextual` for the builder, `ContractIsFrame` for the linker's contracts,
`FramesAgree` for the verifier. Together they say that the three agree, and all
three are proved (section 5). For the emitters the verifier itself is the judge:
`AuthoredTheory` and `ProofScript` contain an instance of `MMVerify` and let it read
what was emitted.

## 2. Modules

| Module | Models | Instance for TLC | Proofs |
|---|---|---|---|
| `SymbolInterner` | interner reached through `SymFacade` | `MCSymbolInterner` | `SymbolInterner_proof` |
| `Scopes`, `Subsequences` | blocks by position; the elements of a sequence at a set of positions | (used by `Lir`) | `PositionLemmas` |
| `Lir` | statements, frames | (used by builder, linker, verifier and emission) | |
| `Builder` | `MMBuilderV2`, `_ScopeStackV2`, `Auto`, `LIRVisitor` | `MCBuilder` | `Builder_proof` |
| `Linker` | `LinkerV1.link`, passes 1 to 5 and graphlib's sorter | `MCLinker` | `Linker_proof` |
| `Relocation` | pass 6 | `MCRelocation` | `Relocation_proof` |
| `MMVerify` | class `MM` of the verifier | `MCMMVerify` | `MMVerify_proof` |
| `MMSound` | a meaning for the statements of a small logic | `MCMMVerify` | |
| `Consequence` | what it is for an assertion of a text to hold in a language; abstract | | `MMVerify_proof` |
| `Driver` | `DriverRunner` | `MCVerifyCommand` | `VerifyCommand_proof` |
| `VerifyCommand` | `skfd verify`, kills and restarts | `MCVerifyCommand` | `VerifyCommand_proof` |
| `Logic` | what an assertion says, over abstract judgments | (used by the next two) | `Theory_proof` |
| `Derivation` | what a published text promises; abstract | `MCTheory` | `Theory_proof` |
| `Theory` | registry, imports, lazy bodies, `verify_all`, emission and checking of theories | `MCTheory` | `Theory_proof` |
| `Assertion` | signatures, matching, substitution, conditions, replay | (used by the next two) | |
| `SemanticEmission` | lowering of terms and proofs to statements | (used by the next) | |
| `AuthoredTheory` | proof author, emitter and verifier together | `MCAuthoredTheory` | |
| `Unify` | parser, templates, unification, search for hypotheses | (used by `ProofScript`) | |
| `LoweredEmission` | `emit.py`: `$f`, axioms, lemmas, their proofs | (used by `ProofScript`) | |
| `DependencyOrder` | `emit.py`: the order of lemmas | (used by `LoweredEmission`) | `Theory_proof` |
| `ProofRegistry` | validation of a set of constructors | (used by `ProofScript`) | |
| `ReferenceCycles` | its search for circles | (used by `ProofRegistry`) | `Theory_proof` |
| `ProofScript` | script, catalogue, emitter and verifier together | `MCProofScript` | |

**Scopes, Subsequences, Lir.** A frame is a list of statements filtered by where
they stand. `At(s, S)` is the subsequence of `s` at a set `S` of positions; the
standard `SelectSeq` takes an operator, about which the prover has no facts.

**SymbolInterner.** `next_id`, `defs` and `key_to_id` are the interner's length
and dictionaries; `held` is a history of the ids each unit was given. `Named` and
`Exact` are `SymFacade` with the resolver and with `exact=True`; `NameError` and
`RejectReserved` are the failures. The text of names is a table (`Canon`).

**Builder.** One action per author call. `a()` and `p()` are split where the code
can fail half way: `BeginAssertion` does the checks and registers the label,
`FloatKnown`/`FloatNew`/`FloatRefused` are the loop of `Auto.mandatory_f`, and
`FinishAssertion` appends the statement. A block is closed also after a failure,
as the `with` statement does. `None` in `scopes[i].f` is "no `$f` in this scope".

**Linker.** `pc` is the pass; `i` and `k` its position in units and statements. A
diagnostic (`Raise`) ends the link, as `LinkerDiagError` does. So does the
`DisjointSpecError` of a `$d` that stage 3 cannot use (`ScanRefuses`), which `link`
does not catch; stage 1 looks at no `$d`. `graph`, `nodes`,
`ready`, `order` are `graphlib.TopologicalSorter`: `AddNode` meets the members of
a set in any order (string hashes differ from run to run), `SortGroup` emits a
group of ready nodes. `frame`, `stack`, `ambient` are the scan of the passes 2
and 3, which the model merges (both walk the same statements with the same
stack discipline). `Linkable` says of a *set* of units, without passes, when it can be
linked, and `ContractAt` what the contract of a statement of a text is; the
properties compare the passes with them.

**Relocation.** One try of the name search is one step, `Retry` or `Assign`.

**MMVerify.** `fs` is the frame stack, `labels` the dictionary, `stack` the
proof stack. In run `mmverify` the proof of a `$p` is not part of the text: each
step may name any label (`PushHyp`, `Apply`, `Refuse`), so one run tries every
proof within the bound. The two compositions instead feed the labels that were
written. `MMSound` gives statements a meaning (implication, quantification, `$d` as
"depends on no common object variable", over two objects) to say what
acceptance should mean.

**Consequence.** The same question for any language at all: a record of symbols,
variables, the pairs of variables that are apart, and a set `true` of expressions,
which may be what is derivable, or true in some sense, or anything. An assertion
`HoldsIn` a language if each substitution for its mandatory variables (`Uses`) that
respects types, makes its hypotheses true and keeps its `$d` makes its conclusion
true. `Follows`, `TextFollows` and `NothingAdded` say of the states of `MMVerify` what
acceptance promises. The module has no run of its own: a language needs infinitely many
variables (section 5), which TLC cannot enumerate.

**Driver, VerifyCommand.** `discover` registers what the source tree has, or gives up on
the way (`DiscoverFails`). `_resolve_dependency` is modelled call by call, with
its call stack, its exceptions and the branch that swallows them (`Unwind`).
Builds and links end well or not, as they like. The files of `verify_package` are
opened and written one by one (`OpenFile`, `WriteFile`), with the link between
opening and writing the first. `Kill` ends a command at any point; `NextCommand`
starts another one, in a world that may have changed, among the files left.

**Theory.** `handles` are the registries of the theories, in registration order;
`bodies` and `impl` the two fields of a handle that change. `assertion_id=` gives an
assertion any identifier, so several theories may use one: `NewAssertion` has the
checks there are, in the own registry and the upstreams as they are then. A step keeps
an identifier, and `Finds` is the look-up of `_signature_for`, own registry first and
then each upstream with its own; `loaded` is
`sys.modules`; `importing`, `frames` and `call` are Python's stack: the import
that runs, above it the proof bodies that run, above them what the program called. One
action is one statement of a shard (`Declare`, `Prove`), one instruction of a
body (`ImportLocally`, `ReadInBody`, `Use`, `Qed`, `BodyEnds`) or one turn of a loop
(`VerifyNext`, `EmitNext`). `Elaborate` is the access to `implementation` of a
theorem without a cached proof: nothing marks a body as running, so a body that
asks for itself runs again until the interpreter gives up (`RecursionError`).
`Raise` unwinds to whoever catches: `verify_all` an authoring error, nobody else
anything. A judgment is a value and an assertion acts on judgments by the
substitutions its conditions allow (`Logic`, `Allowed`); what these are is the
subject of `Assertion`. The emitter looks identifiers up in a catalogue of its own,
put together by label and in another order (`Handles`, `Merge`), replays the proof with it
(`Replayable`), and writes the label of what it found (`Lowered`, `emitted`). `Check` is the verifier at the grain of whole assertions.

**Derivation.** The abstract specification of all this: one variable, the set of
assertions accepted, and one action, which adds an assertion that, if it is a
theorem, is derived from those accepted before (`Derives`: its conclusion is in
every set of judgments that has its premises and is closed under what was accepted,
in the context of its own conditions). There are no registries, imports, bodies,
caches or texts in it. `Theory` implements it with `accepted <- Passed`.

**Assertion, SemanticEmission, AuthoredTheory.** Terms are nested tuples.
`ApplyAssertion` is one `use()`: match premises and target, take the explicit
substitution for what they leave open, check sorts and conditions. `Completes` is
`qed()`, `Replayable` the replay. `EmitAssertion` writes a block: `$f` in first-use
order (rules: in the order of their own binding), `$e`, `$d`, the proof in
reverse Polish notation. In `AuthoredTheory` the bodies are arbitrary: each step
uses any assertion on any steps with any bounded substitution, so the run tries
every proof within its bounds and has the verifier read each of them.

**Unify, LoweredEmission, ProofRegistry, ProofScript.** Formulas are token
sequences here, as in the code; a result that may be absent is a set of at most one
element (`{}` stands for `None` or for the exception). `Parse` is the sequence of
attempts in which `unify.py` splits a formula. `EmitStep` is the recursion of the
emitter along the steps of a lemma, with the `$f` that the builder adds on the
way threaded through (`out.text`). The depth-first search of `validate.py` is
`ReferenceCycles!Continued`, one step of the search at a time, with Python's call stack
and the loops in it as data; so it can be proved about, where a recursive operator could
not. `ProofScript` runs the phases: preload the
cache (leaving out what raises), run the functions, write the prelude, close the set of lemmas, order it,
emit lemma by lemma, let the verifier read.

## 3. Runs

All bounds are constants of the `.cfg` files or definitions of the `MC` modules.

| Run | Instance and bounds | Shows |
|---|---|---|
| `interner` | 3 units in 2 modules, an alias, an unmapped and a reserved name, at most 3 symbols | `Bijective`, `UnitsIsolated`, in whatever order the units ask (the driver builds one after the other) |
| `builder` | 2 variables, one of which has hashed automatic labels, 3 labels, 4 statements by the author, blocks to depth 2, one suffix | `LabelsUnique`, `ActiveFIsTextual`, `AutoFloatsComplete`, `BlocksAgree`, `NoOrphanLabel` |
| `relocation` | every table of 5 symbols over `x x0 x00 x1 y` | `Injective`, `SuffixBound`, `Terminates` |
| `linker` | every list of up to 4 of 13 units, conformance level 1 | `ProvidersFirst`, `ContractIsFrame`, `NothingLost`, `FramesBelong`, `CyclesRejected`, `LinksIfLinkable`, `ContractsAreLocal`, `Terminates` |
| `mmverify` | 7 texts, every proof with at most 10 tokens on the stack | `FramesAgree`, `WellFormed`, `Sound` |
| `mmverify_stray` | a text with a closed block | violates `TrueWhateverCited` (section 6) |
| `verify_command` | 9 worlds of 5 packages, 2 commands, 2 verifiers, recursion limit 5 | `ClosureResolved`, `PlanSound`, `SuccessIsFresh`, `MapFitsArtifact`, `Terminates` |
| `theory` | 3 theories and 6 that extend one or two of them, 14 shards in 7 programs, 4 nested bodies | `ProofsStand`, `ImplementsDerivation`, `Sound`, `ReportCovers`, `Returns` |
| `authored` | 8 bindings, every proof of at most 4 steps with a few terms to substitute | `Accepted`, `FrameIsSignature`, `AuthorTrue` |
| `lowered` | 63 scripts and packages | `ProofsVerify`, `WrongProofsFail`, `OrderUnlessCircular`, `ValidMeansEmittable`, `UnifyIsExact`, `AutoMatchExact` |
| `lowered_order` | the same | violates `LoweredProofsVerify` (section 6) |

What the properties of the linker say:

* `LinksIfLinkable`: the passes accept a list of units exactly if their set is
  `Linkable`: one foundation at most, labels distinct, references known and allowed, no
  circle, and each pair of a `$d` of two different variables. So the verdict depends neither on the order of the list nor on that in which
  the sorter meets a set of dependencies.
* `ContractsAreLocal`: what a contract says follows from its unit and the
  foundation alone, so contracts do not depend on these orders either, although the scan
  carries a frame from unit to unit. (The units `B` and `D` of the run both float `y`: a
  frame of one that reached the other would show.)
* `ContractIsFrame`: a contract is the frame that a verifier will compute from the
  stream. `FramesBelong`: no hypothesis or `$d` of a unit that is not the foundation
  reaches another unit there.
* `ProvidersFirst`: whatever a proof cites of another unit was read before, and a cited
  hypothesis is still in scope.
* `NothingLost`: the stream has each statement of each unit exactly once, in the
  unit's order. `CyclesRejected`: the cycle diagnostic is right in both directions.

What the properties of the authoring side say:

* `ProofsStand` (`Theory`): a proof that was built against the registry of its day
  can be rechecked, from its first step, in every later registry, and proofs that
  are half built too: for each step there is an assertion in view with the identifier
  that the step keeps, which makes the step right, and it is what the identifier stands
  for. That is what allows the cache never to be cleared. There is an exception, which
  the code allows and no check can see: an identifier that an upstream has taken too
  which does not have the theory of the assertion among its own upstreams, as two
  upstreams side by side may, in either order. A cached step then stands for something
  else.
* `ImplementsDerivation` (`Theory`): what passes the verifier is a behaviour of
  `Derivation`, although bodies may read and cite each other in circles. (Circular
  proofs do get cached and emitted; it is the order in the text that stops them, and
  the mutant which lets the verifier know the labels of the whole text violates the
  property.) The property has no exception for identifiers: the emitter replays every
  proof by its own catalogue, and what changed its meaning is emitted with the new one if
  that makes the same step, and refused otherwise.
* `Sound`: what that amounts to. In each model of the axioms and rules that passed the
  verifier every theorem that passed is true. (Without the replay it would not be: the
  mutant trusts a proof that was checked when it was built.)
* `ReportCovers`: a report of `verify_all` has one entry per assertion registered
  *when it returns*, in order, and says "ok" of a theorem only if it has a proof.
  The registry may grow while the entries run; the code owes the property to the
  `RuntimeError` of a dictionary that changed (section 6).
* `Returns`: whatever was called comes to an end, with bodies that read
  themselves, each other, or failing ones.
* `Accepted` (`AuthoredTheory`): the verifier rejects an emitted theory exactly if
  some theorem refers to something that does not stand before it. In particular
  names, order of `$f`, dummies, conditions and order of pushing cannot go wrong
  for any proof that `qed()` let pass.
* `FrameIsSignature`: what the verifier takes an emitted assertion for is its
  signature; conditions on dummies stay inside the block.
* `AuthorTrue`: a theorem that `qed()` lets pass is true in the logic of `MMSound`
  if what it cites is. It is what `LogicAssumption` takes for granted of substitutions
  and conditions.
* `ProofsVerify`, `WrongProofsFail`: the emitted text of a script is accepted if each
  lemma proves its statement from what it may cite, up to one reservation
  (`FloatsDisagree`, section 6); and not accepted if one does not, or hides a
  condition. The emitter itself checks neither.
* `OrderUnlessCircular`: the loop that looks for an emittable lemma finds all of
  them exactly if no set of lemmas needs each other.
* `ValidMeansEmittable`: a registry in which `validate_registry` finds nothing can be
  closed and ordered, for each part of it; the two are written independently.
* `UnifyIsExact`, `AutoMatchExact`: unification finds a substitution exactly if
  one exists and it gives the formula back token by token; arguments left out of a
  citation are found exactly if some earlier steps fit.

*Why the bounds are enough.* The interner's properties relate two keys or two
units; three of each leave a bystander. In the builder every hazard needs a
block that was left and a second statement after it, or two floats and an
assertion; four author statements (automatic ones are not counted) in blocks of
depth two hold any of these with one to spare. Five symbols give the
relocation chains such as `x, x, x0, x0, x00`, where a suffixed name collides
with a later symbol; the general case is proved. A link of four units holds a
foundation, a chain of two and a bystander, or a cycle beside good units; the
thirteen units are one of each kind of fault plus nested scopes with
hypotheses and `$d` at two depths. Ten tokens allow the verifier one
instantiation that composes two expressions under a `$d` (`A z A w x`), and one
application of modus ponens; th2 of the text `Distinct` needs all ten. The nine
worlds have each outcome of the resolution: diamonds over the three places a
package may come from, swallowed failures with and without a way out, cycles of
each kind, two foundations and one with dependencies. Two commands suffice
for files of different links to meet; a recursion limit of five is deeper than any
resolution that ends by itself.

The theories of `theory` have a declaration order or none, a label and an identifier
that two assertions claim (one import then fails half way), upstreams side by side of
which the first takes an identifier of the second before or after a proof cites it,
with an assertion that makes the same step or another one, under another label or the
same, citations by handle and by identifier, a body whose local
import declares while `verify_all` walks or after the emission started, bodies that
ask for each other and so for themselves, theorems that cite each other, a proof
that breaks a condition and one that never ends with `qed`; four nested bodies are
two more than the longest chain that ends by itself. In `authored` four steps are
what the longest of the theorems needs (`back`: a dummy is introduced under a
condition, generalised and eliminated); a sequence exists for each way in which an
entry can come too early and for each kind of entry. The 63 inputs of `lowered` are
eleven right scripts and packages with each connective and each form of `$f`,
searches for arguments with none, one and several candidates, each way of being
wrong, constructors of the catalogue that raise, name clashes and circles between script, catalogue, axioms and rules, and
conditions that are declared, missing, or needed twice. The bounds `MaxTokens` of
the compositions are never reached.

*Deadlock* is not checked: units finish, links and commands end, programs call
nothing more.

## 4. Fairness

Relocation and linker are loops of one thread without anything to wait for: weak
fairness of `Next` says that the thread goes on. A command's steps (`Step`) are
fair for the same reason; what it calls ends by itself (verifiers have a
timeout, recursion a limit). `Kill` and `NextCommand` are not fair: no property
depends on a command being killed or followed by another. In `Theory` the steps
that go on by themselves once something was called (`Work`) are weakly fair: one
of them is enabled whenever a call is in progress. What a program calls
(`ImportShard`, `ReadImplementation`, `VerifyAll`, `StartEmission`) and when the
verifier reads on (`Check`) is not fair. Interner, builder, verifier and the two
compositions have no liveness property: their callers decide what is next, or
they run straight through.

## 5. Proofs

| Theorem | Property | For every |
|---|---|---|
| `SymbolInterner_proof!TypeCorrect`, `DictionariesBijective`, `UnitIsolation`, `NoReserved`, `Stability` | `TypeOK`, `Bijective`, `UnitsIsolated`, `NoReservedSymbol`, `DefinitionsStable` | set of units, modules and names, resolver table, number of symbols |
| `Builder_proof!TypeCorrect`, `LabelsAreUnique`, `BlocksBalance`, `ActiveFloatIsTextual`, `AutoFloatsAreComplete`, `NoLabelIsOrphaned` | `TypeOK`, `LabelsUnique`, `BlocksAgree`, `ActiveFIsTextual`, `AutoFloatsComplete`, `NoOrphanLabel` | author, set of symbols and labels, length and depth |
| `Linker_proof!CyclesAreRejected`, `NothingIsLost`, `FramesStayHome`, `ProvidersComeFirst`, `ContractsAreFrames`, `VerdictIsOfTheSet`, `ContractsStayLocal`, `LinkedIsReady` | `CyclesRejected`, `NothingLost`, `FramesBelong`, `ProvidersFirst`, `ContractIsFrame`, `LinksIfLinkable`, `ContractsAreLocal`, `VerifierReady` | list of units of any length and content, order of the sorter's sets |
| `Relocation_proof!TypeCorrect`, `RelocationInjective`, `SearchIsShort` | `TypeOK`, `Injective`, `SuffixBound` | table of any size |
| `MMVerify_proof!FramesAreScopes` | `FramesAgree` | text, and whatever its proofs do |
| `MMVerify_proof!AcceptedFollows`, `TheoremsFollow`, `TheoremsAddNothing` | `Follows`, `TextFollows`, `NothingAdded` | text, proofs, and language |
| `VerifyCommand_proof!TypeCorrect`, `ResolutionCloses`, `PlanIsSound`, `SuccessSpeaksOfThisLink`, `MapIsOfTheArtifact` | `TypeOK`, `ClosureResolved`, `PlanSound`, `SuccessIsFresh`, `MapFitsArtifact` | set of packages, worlds, configurations and verifiers, number of commands and kills |
| `Theory_proof!TypeCorrect`, `ProofsStandForever`, `PublicationIsDerivation`, `PublishedIsSound`, `ReportsCover` | `TypeOK`, `ProofsStand`, `ImplementsDerivation`, `Sound`, `ReportCovers` | set of theories, shards, bodies and judgments, logic whose substitutions compose |
| `Theory_proof!OrderedUnlessCircular` | about `EmissionOrder`; the general form of `OrderUnlessCircular` | finite set of lemmas and their dependencies |
| `Theory_proof!CirclesAreFound`, `ValidationAgrees` | about `CycleIssues`; the part of `ValidMeansEmittable` that is about circles | finite set of proofs and their references |

The assumptions are the named `ASSUME`s of the modules: constants have their types,
canonical labels are their own canonical form (`BuilderAssumption`), units are told
apart by their ids (`LinkerAssumption`), a text that is verified is a sequence and has
no label twice (`VerifierAssumption`), different counters
give different texts after one name (`RelocationAssumption`), a theory comes
first where identifiers are looked up and last where the catalogue is put together, and
its upstreams in their order (`TheoryAssumption`, which says nothing of identifiers),
signatures declare their variables (`AuthoredAssumption`), and a substitution
allowed in an assertion followed by one allowed for that assertion is allowed
(`LogicAssumption`; for terms with distinct-variable conditions this is what the
check of active conditions in `use()` is for), and the value for "no call" is no
call (`NoneAssumption`). TLC evaluates each of them on the instance of its run.
`TypeOK`, `NoReservedSymbol`, `DefinitionsStable`, `VerifierReady` and the three of
`Consequence` are stated by theorems only; the runs do not repeat them.

Six theorems about the linker have hypotheses beside, as each pass relies on what
other parts do and checks none of it. `Built`: units have balanced blocks, which is
what `Builder_proof!BlocksBalance` proves of them. `ExportsOwn`: a unit exports no
label of another unit; without it the sorter takes the wrong provider (section 6).
`FoundationsFirst`: a foundation cites only itself, as the driver refuses a
foundation with dependencies, and the `$f` it exports are outermost.
`ProvidersComeFirst` is in addition about conformance levels above 0. `MCLinker`
evaluates these on its units.

The theorems about `Consequence` have their hypotheses inside the formula, and each is
there for a reason. `Ordinary(text)`: symbols are constants or variables, and each
mandatory variable of an assertion has an active `$f`, of one type. `mmverify.py` checks
neither, and without it a variable that no `$f` fixes is never substituted. `~strayed`:
no proof cited a hypothesis of a closed block, which the verifier allows (section 6).
`Balanced(text)`, for what is said of whole texts: a stray `$}` ends the reading early.
`Language(L, text)`: `L` has the constants, and for every type that the text floats and
finitely many variables another variable of that type apart from them. A proof may have
dummy variables, and something must be put for them; Metamath's own languages have
infinitely many variables of each type. The variables of `L` are not those of the model:
`Vars` may be finite. What the text needs it gets from the parts of the pipeline:
`BlocksBalance` and `AutoFloatsAreComplete` for the units, `LinkedIsReady` for what the
linker makes of them, which is `VerifierAssumption` and the part of `Ordinary` that is
not about symbols.

*Lemmas.* `PositionLemmas` has what several components need: a set of naturals that
is not empty has a least and, if bounded, a greatest element (which is how induction
is done here: the prover cannot use the library's induction theorems, but it can
look at the least element of the set of counterexamples); what `At` lists, in which
order, and what becomes of it when a text grows, moves or is put together of parts;
where the elements of a flattened list of blocks are; and how `Depth` and `InScope`
go from one position to the next, to a longer text, or to a text that repeats
another.

*Interner.* `IInv` is `Bijective`, `NoReservedSymbol` and `HeldAreOwn`: a unit
holds only ids of its own module. The last is what makes isolation inductive:
two units could otherwise have come by an id in the past. A new symbol has the
id `next_id`, which no key has yet (`TypeOK`), so the dictionaries stay inverse.

*Builder.* `AuthorStep`, `CallStep` and `NextIsStep` first reduce every action to
what it writes (`Step`): one statement, or none, or a registered label. `LabelInv`
strengthens `LabelsUnique` with "labels in the text are used" and "the label of the
call in progress is used and not yet in the text": without the second, an automatic
`$f` could take the label of the assertion it is written for. `BlockInv` says that
the depth of every prefix of the text is at least zero and that of the whole text is
the height of the scope stack less one; `DepthAppend` computes the depth of an
extended text from cardinalities. `FloatInv` relates each level of the stack to the
text: the label it knows for a variable is that of the last `$f` written at that
level since the block was opened, and it knows none if there is none (a label of
another unit must have been borrowed). The innermost level that knows one is then
the innermost active `$f` (`InnermostFloat`). `CallInv` says that the call in
progress is done with a variable only when some level knows a `$f` for it, and
`OrphanInv` that the labels used are those of the text and that of the call in
progress.

*Linker.* `SortInv` is about the order alone: what is sorted comes after its
dependencies, and what is ready, and nothing else, has all of them sorted. If the
sorter stops early, the units left over need each other; a sorted graph has no cycle
(`SortedAcyclic`). `LinkInv` collects what each pass leaves to the next: one
foundation, an index of distinct labels (`Indexed`), units whose proofs passed
(`Passed`), a graph of dependencies, a stream equal to `Text`. From there on the
proofs are about a text laid out in blocks, one for each unit: every position sits
in one unit (`PlaceOf`), a unit's statements keep their order, and an ordinary unit,
being wrapped, is out of scope where it ends (`TextDepth`). That gives
`NothingIsLost` and `FramesStayHome`; `CitedBefore` follows a citation through
index, check and graph to a unit earlier in the order. For contracts, `ScanInv` says
where in the text the scan is: its frame is what is in scope at that place *of the
one text*, the frames on its stack are what will be in scope when the open blocks
end, and the ambient frame is what the foundation leaves. The scan never sees that
text, which is why this has to be proved. `VerdictInv` says that a link that failed
was given a set that is not linkable, one lemma for each of the five places that raise
(`ScanRefused` is that of stage 3); `Separated` says that the scan has met no `$d` it
cannot use; that a
link that is done was given a linkable one is `LinkedIsLinkable`, where the owner of
an exported label must be unique. For `ContractsStayLocal` the place of a statement
in the text is compared with its place in the foundation followed by its unit: the
same positions are in scope once moved (`ScopeMoved`), so `At` gives the same labels
(`AtMoved`).

*Verifier.* `FrameInv`: there is one frame for each open block, and the frame of
level m has the hypotheses and `$d` that were declared at that depth and are still
in scope. Reading a statement adds to the last level; `$}` removes a level, and what
it held is out of scope from there on. An assertion's frame is put together from all
levels, in their order, which is the order of the text (`FrameMade`).

*Soundness of the verifier.* `Follows` is not inductive, as it is silent about a proof
half read. `SInv` adds that the dictionary has what the text says (`LabelsAre`) and
`StackTrue`: each expression on the proof stack is over the variables in scope, and true
in the language whatever good values these get (`Goods`: of the right type, hypotheses
true, `$d` kept), provided the axioms so far hold. Three facts about substitution on
sequences carry the induction: it is a concatenation of images (`SubstIs`,
`SubstConcat`), one after another is one (`SubstCompose`), and the variables of the
result come from those of the parts (`SubstTokens`, `VarsComeFrom`), so `$d` conditions
that hold in two steps hold in one. A hypothesis pushed is true by the choice of values
(`HypTrue`). An assertion cited pops what its frame lists; `FrameInv` says that this is
its mandatory part in the order of the text, so what was popped is a substitution with
the hypotheses it needs (`PoppedFit`), and followed by any good assignment it is a `Use`
of the cited assertion (`StepIsUse`), which holds by `Follows` so far. At the end of a
proof the values of the mandatory variables are given and the others, the dummies, are
free: one at a time they get a fresh variable of their type (`OneMore`, `DummiesToo`),
which makes the assignment good, and the stack entry is the statement
(`HoldsWhenProved`). `TheoremsFollow` needs that an accepted text was read to its end
(`ReadToEnd`). For `TheoremsAddNothing` take any set of expressions that has what is
true in `L` and is closed under the axioms: with this set for truth it is a language in
which all axioms hold, hence all theorems; `Derivable` is the intersection of these sets.

*The linked text.* `VerifierReady` puts together where the statements of a text sit
(`PlaceOf`), that labels of different units differ (`LabelsApart`), that a wrapped unit
begins and ends at depth 0, and that being declared is a matter of what is in scope
(`SameDeclared`), which is the same up to moving in the text and in the unit over its
foundation (`ScopeMoved`). The last is an equivalence: linking neither makes up for a
missing `$f` nor hides one.

*Command.* `IInv` has a part for each property. `Covered`: as long as nothing was
swallowed, a dependency that is not registered is still to be resolved by a call on
the stack, unless an exception is on its way; at the end there is no call left, so
the set is closed. `PlanOK`: the plan lists what was registered, once, dependencies
first, and moving the foundation to its front keeps that (`FoundationFirstSound`);
what was built is a beginning of the plan. `FilesOK`: which files are of this
session, by how many were opened and written. `MixedOnlyByKill`: artifact and map
are of different sessions only after a kill, or for the moment between the writing
of one and the opening of the other. `Asked`: each verifier that was dealt with has
read this session's artifact, or is not installed.

*Relocation.* `IInv` says that `used_names` is the range of the table, that the
table is injective and that the counter's earlier candidates are all used
(`Tried`). Injectivity follows at once. `SearchIsShort` is a counting argument: the
candidates tried are different from each other (`TriedDiffer`) and all among the
names given to earlier symbols, so there are at most as many.

*Theory.* `TypeOK` says, beside types, that a registry lists each assertion once and
under its own theory; a second registration would need a new identifier. `IdsUnique`
says what else the checks of a registration achieve (`RegistersNew`): one registry has
an identifier once. So a look-up finds one assertion at most (`FoundOnce`). For
`ProofsStand`, a registry only grows (`Growth`), so an assertion that made a step right
is still in view and still does; and what is found instead of it later (`StandsOn`) must
have been registered by a theory that comes before in the order of the look-up and had
no view of the assertion, which is the exception. A
step appended to a proof that stands leaves a proof that stands (`StackStep`), as
`Applies` looks at earlier steps only. A cached proof is a stack of which in
addition the root was checked. The refinement does not rest on `ProofsStand` alone, as the
catalogue of an emission may read an identifier in another way: by `EmittedRight` what was
emitted applies, line by line, the assertions whose labels it has, because each line was
replayed with them (`LoweredReplayed`), and ends with what the cached proof ended with. It
needs besides that whatever was emitted has a proof (`Proved`). `PassedStep` reduces a step to its
effect on `Passed`: nothing, or one assertion more all of whose citations passed
*before*; this is where the order of the text enters. Such a theorem is derived
(`ProofDerives`): take a set of judgments closed under what its proof cites; if some
position of the proof were outside, take the least one; its premises are at earlier
positions, hence inside, and so is what the step makes of them (`PositionsReached`).
That is the step of `Derivation`; every other step is a stutter. `PublishedIsSound`
then follows from the refinement alone: by `DerivedIsValid` a theorem derived from
true assertions is true, for under any substitution the judgments that it makes true
are a set closed under the derivation. Only here must substitutions compose.
`ReportsCover` rests on three more: a theory with a declaration order registers
nothing else (`InOrder`), bodies run only under a call (`Nesting`), and while
`verify_all` runs its entries are right for the assertions it went over
(`Reporting`; an entry stays right, as a cached proof is never lost). It returns
only if the registry has the size it had at the start, or a declaration order to go
by; registries only grow.

*Order of lemmas.* What is emitted is in order after any number of rounds
(`EmittedToTheEnd`), and either each round found a lemma or nothing is ready. A set of
lemmas that need each other holds nothing that was emitted: the first of its members
emitted would have come before one it depends on.

*Search for circles.* `Searching` says that the path goes along references and that,
unless an issue was found, what was walked leads to a node that is done or to the next
one on the path. So a node that is left has all its references done, and none of what is
done is in a circle: one in a circle would have a reference that is in it too, and was
done before. Every step counts up what was walked, entered or left (`Progress`), which
is bounded (`SearchEnds`), and where nothing is left to count all nodes are done. The
two theorems together give `ValidationAgrees`: the search of the validation and the loop
of the emitter, which share no code, both decide whether there is a circle, and a part
of a set of lemmas without circles has none.

*Only model-checked.* Liveness (`Terminates`, `Returns`), as fairness and `ENABLED`
are out of the prover's reach. Everything about `Assertion`, `SemanticEmission`,
`AuthoredTheory`, `Unify`, `LoweredEmission` and `ProofScript`: these are recursive over
terms, formulas and steps, and the prover knows nothing of a module with recursive
operators. What `ProofRegistry` gathers is a fold over constructors, and only what it
does with their references is proved. `WellFormed` and `Sound` of `MMSound` are
about one semantics with two objects, and `Sound` is no theorem for every text: `$d` on
more variables than there are objects can hold vacuously of an axiom, and a proof may
have a dummy variable for which no object is then left. It is `Language` that such a
semantics lacks; the general statement is `AcceptedFollows`. `PublishedIsSound` is the
same at the grain of whole assertions, where that substitutions compose is an assumption
(`LogicAssumption`); for the substitutions of the verifier it is `SubstCompose`. Of the
lowered emission and the registry the order of lemmas and the search for circles are
proved, in modules without recursion.

## 6. Where code and documents disagree

Shown by runs that TLC ends with a violation:

* `mmverify_stray`: a proof may cite a hypothesis of a block already closed; the
  verifier accepts the theorem as unconditional
  (`references/001_arch-design.md:78`). The linker emits such proofs only when it
  is given them: a citation inside one unit is not checked for scope either
  (`stage1_resolve.py`, `label_defs[l].owner == unit`).
* `lowered_order`: a `$f` that stands in no cited frame yet is written where it is
  first needed, and a lemma that cites another may have met the variables in the
  other order; the emitter then pushes them in the order in which they are active
  where it writes (`emit.py:530`), the verifier wants them in that of the cited
  frame. A right lemma is emitted with a wrong proof, where
  `projects/016_proof_lowering.md:58` promises real proof tokens. Scripts pass no
  `$f` order of their own (`script_runner.py:249`).

Noticed while modelling, without a run:

* `Auto.floating` looks for a free *spelling*, `f()` compares the *canonical*
  label (`builder.py:171`). A variable whose `w<var>` the resolver hashes cannot be
  floated twice: the call fails instead of taking a suffix
  (`references/009_builder-v2.md:154`), and its label stays used.
* A unit that re-exports a theorem becomes its owner for the sorter
  (`stage4_topo_sort.py:29`), and a consumer may be emitted before the unit that
  proves it (`references/002_link-model_v4.md:362`). The units of run `linker` export
  only what they own.
* The order of independent units follows the input list
  (`stage4_topo_sort.py:61`), where `references/002_link-model_v4.md:366` and `:577`
  ask for identical output. `LinksIfLinkable` and `ContractsAreLocal` say what does
  stay the same.
* A configured verifier that is not installed is left out, up to none
  (`config.py:75`, `cli.py:447`), and the command succeeds
  (`references/008-tooling.md:73`). `SuccessIsFresh` counts those that ran.
* `verify_all` ends with a `RuntimeError` (`theory.py:814`), not with a report, if
  a body's local import registers an assertion in a theory without declaration
  order; the docstring (`theory.py:256-258`, `807-808`) promises to continue after
  failures, and allows such imports.
* `E_CONST_VAR_KIND_CONFLICT` (`references/002_link-model_v4.md:676-686`) is never
  raised; a constant and a variable of one module and name are two symbols.
* The contract of an assertion whose unit floats a variable of the foundation
  again lists both `$f` (`stage2_contracts.py:84-88`); the frame has the inner
  one only. `ContractIsFrame` is stated for variables with one active `$f`.
* Below conformance level 1, the default of `skfd verify`, nothing stops a
  proof from citing a hypothesis of another unit
  (`stage1_resolve.py:269`); `references/010-foundation-scope.md:83` forbids it
  without a level.
* A stray `$}` ends the verifier's reading, and what follows is not checked
  (`mmverify.py:206`); the model has this (`CloseBlock`). `BlocksBalance` keeps
  units clear of it.
* A path source whose dependencies fail to resolve is tried again as an installed
  package, but what was registered stays (`runner.py:153`); with a package whose
  own dependency is missing the plan then ends in a `KeyError`. `ClosureResolved`
  is stated for resolutions in which nothing was swallowed.
* `references/008-tooling.md` shows `active` inside `[verifiers]`; `config.py`
  reads it at the top level, and ignores the documented form.
* The builder of proofs knows fewer connectives than the emitter: a citation with
  left-out arguments raises on an earlier step it cannot parse, where the comment
  (`ir.py:128`) says that nothing is found. `AutoMatchExact` is stated for formulas
  it can parse.
* A second lemma of one name is dropped without a word (`script_runner.py:228`).
* A lemma with raw steps and hypotheses is emitted as an axiom without its
  hypotheses (`emit.py:930`); citing it leaves the argument on the verifier's stack, so
  the text is rejected (`DropsHypotheses`).

## 7. Abstractions, and what is not modelled

Text is abstracted throughout: names are values, formulas short sequences,
files the number of the session that wrote them. `$c` and `$v` declarations and
comments are left out of the statements (the linker prints declarations from the
symbol table, ahead of everything). Identifiers are values that any assertions may share; digests that
compare identifiers or signatures are equality. Which packages exist where is a
constant (`Worlds`; that a project file cannot be read is an action), and so is what a shard declares and what a body does
(`Text`, `Body`). The labels of other packages that an emission is given
(`external_assertions`) are those that their theories exported. Order of a topological sort is any order in `Driver` and
graphlib's in `Linker`.

Not modelled, and why:

* *Lexicon*: tables are filled before anything is named and only read after.
  What the resolver makes of a name is the table `Canon`.
* *Expression parser*: a parser and its memo live for one text; a parse is a
  function of its input, over grammars that the notation tables generate.
* *Printing* of the stream, source maps and names: formatting; which files are
  written when is in `Driver`.
* *Compressed proofs and file inclusion*, which the verifier can read and the
  linker never writes.
* *Typed `$f` and nullary constants* that a package may ask `emit.py` for.
* *Catalogue building and its digests, the older replay of recorded proofs*:
  serialisation of finished data; the replay that emission depends on is in
  `Assertion` (`Replayable`).
* *Python's limit on nested calls*, where nothing but the depth of data can reach it: a
  chain of about a thousand references ends the validation of a registry
  (`validate.py:133`) with an error. `Driver` and `Theory`, whose calls can nest
  without end, have the limit.
* *Coverage, doctor, configuration, web browser*: they read finished data and
  print reports.

## 8. Plan

Done, in this order: `SymbolInterner`, `Lir`, `Builder`, `Relocation`, `Linker`,
`MMVerify` with `MMSound`, `Driver` with `VerifyCommand`; then the authoring side:
`Theory` with `Logic` and `Derivation`, `Assertion`, `SemanticEmission` and
`AuthoredTheory`, `Unify`, `LoweredEmission`, `ProofRegistry` and `ProofScript`;
proofs of every safety property of the modules without recursive operators but the
two of `MMSound`; the soundness of the verifier in every language, the linked text as
one it applies to; the order of lemmas and the search for circles.

Left:

1. `AuthoredTheory` as an implementation of `Derivation`, with terms for judgments and
   an instance of `Derives` on the terms that occur.
2. One composition of `Builder`, `Linker` and `MMVerify`. Its parts meet now in the
   hypotheses of theorems: what one of them proves is what the next assumes.
3. The recursive definitions of the emitters as functions on trees of bounded depth, so
   that what they write for one step can be proved to be what the verifier pops.
