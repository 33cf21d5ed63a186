# A TLA+ verification of vstar (Go)

vstar carries the state of agentic systems as iCalendar and vCard components, with
a canonical form and a content hash. The repository holds one specification
(`src/spec`), a Go library (`src/go`) from which the conformance corpus is
generated, and ports of it to PHP, Python, Rust and TypeScript. This project is
about the Go library: it models its packages, checks them with TLC on small
instances, and proves the most important results with TLAPS for instances of any
size.

Contents: [the system](#the-system), [the modules](#the-modules),
[the runs](#the-runs), [bounds](#bounds), [fairness](#fairness),
[what is proved](#what-is-proved), [what is only model-checked](#what-is-only-model-checked),
[disagreements](#disagreements-between-comments-and-code),
[other things the models show](#other-things-the-models-show),
[what is not modelled](#what-is-not-modelled), [the plan](#the-plan).

## The system

The library starts no goroutine and takes no lock. What makes it hard is elsewhere:
its callers share values between goroutines and connect its codecs over pipes; its
streaming codecs are interrupted after any line by a failing reader or writer and
called again; a ledger is appended to by many producers, out of order; a component
is a Go value whose property list is a slice, so that copies of a component share
memory; and several parts of it say the same thing twice (two parsers per format,
two escapings, a query and a validator of ledgers, a walk and a search of
recurrences), which must agree.

| component | source (`src/go`) | state | operations | talks to |
|---|---|---|---|---|
| property list | `component.go` | `Props`, a slice | Get, Set, Add, Remove | everybody |
| canonical form | `canonical/` | none | sort, resolve time zones, normalise text and parameters | rfc5545 encoder, time zones |
| hashing | `hashing/` | the `X-VSTAR-HASH` property | SetXVSTAR, GetXVSTAR, VerifyXVSTAR, digests of calendars and cards | canonical form |
| helpers | `helpers/` | none | constructors and setters, each ending in SetXVSTAR | property list, hashing |
| supersession ledger | `supersession/` | the caller's `[]Component`; locals of the loop | Supersedes, Superseded | hashing |
| validation | `validate/` | none | diagnostics of a component, calendar or card | all vocabularies, hashing |
| diff | `diff/` | none | structural diff, equality | canonical form |
| content-line scanner | `codec/internal/contentline` | pending line, end-of-input flag | Next | `bufio.Reader` |
| batch codecs | `codec/rfc5545`, `codec/rfc6350` | none between calls | Parse, Encode, EncodeComponent | scanner |
| streaming VCALENDAR codec | `codec/stream/vcalendar.go` | headerRead, header, pending, done; buffer with its sticky error, headerWritten, closed | Header, Next; SetHeader, Encode, Close | scanner, batch encoder |
| streaming vCard codec | `codec/stream/vcard.go` | done; buffer, closed | Next; Encode, Close | scanner, batch vCard codec |
| recurrence rules | `rrule/` | none between calls | ParseRRule, String, All, Occurrences, Between, NextOccurrence, SetFromComponent, Set.Occurrences, Set.Between | times |
| times and time zones | `time*.go`, `date.go`, `component_time.go`, `component_date.go` | none | parse, format, resolve TZID, accessors and setters | |
| durations and triggers | `duration/` | none | parse, write, add, anchor and resolve alarms | times |
| tools | `cmd/`, `tools/` | files | generate and verify fixtures | all |

What is hard, and what makes each component correct:

* **Ledger.** Entries arrive in any order, with equal timestamps or none that parses,
  while somebody queries. Right: the status given to a component depends on
  timestamps, and among equals on position; appends are incremental; a query answers
  for the ledger it was called with.
* **Scanner.** Blank lines, folds of folds, folds at every octet, errors in the middle
  of a line. Right: nothing is lost, merged or split; unfolding inverts folding.
* **Streaming codecs.** Each grammar exists twice, in the batch and in the pull parser;
  calls go on after errors; the writer fails after any line or inside one. Right: both
  parsers accept the same documents and build the same values; a truncated stream
  never looks complete; what was acknowledged is on the wire.
* **Pipe.** Producer and consumer run concurrently; the scanner looks one line ahead.
  Right: order, truth of io.EOF, eventual arrival, and a bound on the delay.
* **Property list and helpers.** Copies share backing arrays; helpers read, write, hash
  and write again. Right: a component whose hash was refreshed is not disturbed
  through a copy; serialised calls lose no update and leave a hash that verifies.
* **Canonical form and hash.** Right: the digest is a function of what a document says
  and of all of it; software that respells a document does not break its hash; a
  canonical form that is read and canonicalised again is the same.
* **Validation and diff.** Right: what only the library has written is clean; the
  ledger entries the validator passes are those Superseded counts; a diff accounts for
  the whole difference, with doubled, missing and nested keys.
* **Recurrence.** COUNT, UNTIL, the iteration cap, duplicates within a period, merging
  with RDATE and EXDATE. Right: the nested loops give the series that RFC 5545
  declares, and every entry point tells how it ended.
* **Times, zones, durations.** Stale TZID and VALUE parameters; the hours around a
  transition; signs and zeros; alarms on either end of an event or task.

`PROJECT.json` lists each of these hazards with the line where it bites.

## The modules

Module by module, with the code it models. `EXTENDS` builds the stacks shown by the
indentation; `MC*` modules and `.cfg` files instantiate the last module of each.

| module | models | how |
|---|---|---|
| `LedgerEntries` | what Superseded reads of a component | pure operators; the declarative latest-wins rule |
| `StatusProjection` | what Superseded promises | abstract specification: the answer is fixed when the query is made |
| `Supersession` | `supersession.go` | one step per loop iteration; the caller appends between them |
| `ContentLines` | batch codec `rfc5545` | Encode as an operator, Parse as a fold of one automaton step per line |
| `ContentLineScanner` | `contentline/scanner.go`, `writeFolded` | one step per physical line; octets |
| `VCalendarParser` | the pull parser | one step per content line |
| `VCalendarEncoder` | the streaming encoder | one step per call; any prefix of the lines reaches a writer that fails |
| `StreamPipe` | both at the ends of a connection | extends the two modules above |
| `PropertyLine` | one line of `rfc5545` and of `rfc6350` | both grammars on atoms: groups, parameters, quoting, escaping |
| `VCard` | `card.go`, batch codec `rfc6350` | Parse as a fold over lines |
| `VCardStream` | `codec/stream/vcard.go` | a client edits, encodes and closes; another pulls, line by line |
| `PropSlices` | `component.go`, setters of `helpers/` | one step per operation on a heap of arrays |
| `HelperCalls` | `IncrementSequence`, `SetPriority` | one step per load or store of `c.Props` |
| `GregorianCalendar` | Go's `time.Date` and its inverse | arithmetic on days and seconds |
| `RRuleSyntax` | `rrule/parse.go`, `format.go` | rule-parts in any order, String, the refusals |
| `RRuleExpand` | expansion and `advance` of `rrule/next.go` | the nested loops over BY lists and the filters |
| `RecurrenceSets` | `rrule/set.go`, `expand.go`, `NextOccurrence` | a state machine, one FREQ period per step |
| `DeclaredSeries` | RFC 5545 section 3.3.10 | reference definition: the instants no rule-part rules out |
| `RecurrenceProperties` | | what the calls promise, against `DeclaredSeries` |
| `Durations` | `duration/duration.go` | field by field; 64-bit wrap scaled to `MaxDuration` |
| `TimeZones` | `time_tzid.go` | observances and the choice between them |
| `ComponentTimes` | `component_time.go`, `component_date.go`, `duration/trigger.go` | setters in any order; alarms |
| `CanonicalForm` | `property.go`, `calendar.go`, `canonical/`, `hashing/` | values; texts with tables for NFC, case and zones |
| `Validation` | `validate/` | every check, as the diagnostics it gives in order; tokens, decimals and blanks as tables |
| `Helpers` | `helpers/`, Supersedes | functions from components to components |
| `StructuralDiff` | `diff/` | pairing, grouping, Empty, Equal |
| `Cards` | a card, its codec and its diff | a client edits fields and properties, keeps a copy, sends it through the codec |
| `Documents` | all of those composed | clients make, change, rewrite and tamper with a calendar; extends `Cards` |
| `FoldLaws` | | laws of sequences: folding, flattening, parts; used by the proofs |
| `StreamPipe_proofs` (the batch codec and the pull parser too), `VCardStream_proofs`, `ContentLineScanner_proofs`, `Supersession_proofs`, `HelperCalls_proofs`, `PropSlices_proofs`, `ComponentTimes_proofs` | | theorems |

**Supersession.** `ledger` is the caller's slice; `target, n, i, found, bestT, bestStatus`
are the locals of Superseded and `pc` says whether it is running. Timestamps are
naturals, 0 being Go's zero time, which `parseEntryDTSTAMP` returns for what does not
parse. Everything no query reads is one revision number `rev`. The digest of a
component is its content, that is, SHA-256 is taken as free of collisions. `tampered` is
a history variable: entries edited without a new hash. Appends go on during a query
(they do not touch the slice the query has); edits in place do not, which would be a
data race. Journals that supersede journals are legal in the code and left out here;
`Documents` has them.

**ContentLines, VCalendarParser.** A logical line is a keyword and a value; `BAD` is a line
that ParseContentLine rejects. `pc` tells which loop of the parser is running: `first` and
`header` in ensureHeader, `top` in Next, `block` in readBlock; `stack` is the recursion of
readBlock. `LineAvailable` is the scanner's lookahead: a line is there when another
follows or the input ends. A failing read (`ReadFails`) returns the error to the client,
which may call again. What was sent (`sent`) is kept apart from what the scanner delivers
(`input`): the physical line that was being read when the reader failed is gone, the line
held in front of it is not, and what is left of the torn one comes with the next call. So
the beginning of the next line may be lost, or a fold of the line held, or the beginning
of the one behind it, and the rest (`Rests`) may read like any line, a boundary line
included, be glued to the line held as a continuation, or be blank. `intact` is where the
lines are as they were sent again, `suspect` has the numbers of the components that are the first to be yielded after
a failed read.

**VCalendarEncoder.** Between calls the buffer is empty: Close flushes, and Encode does so
through rfc5545.EncodeComponent, whose `bufio.NewWriter` hands back the very same writer.
So a call is one step: its lines all reach the writer, or the writer fails and any prefix
of them does, the last one possibly torn. `broken` is the sticky error of bufio.

**StreamPipe.** The two modules share the lines: what the encoder's writer has accepted
(`wire`) is handed to the parser's `input` line by line. Closing the encoder does not
close the writer; `CloseWriter` is the producer's own act.

**ContentLineScanner.** Octets are model values and WSP. `received` records what
readPhysical returned, also after errors; `Unfold` is the definition of RFC 5545 section
3.1, without the code's lookahead: a continuation is glued to the line before it, and
what is empty in the end is dropped.

**PropertyLine, VCard, VCardStream.** A text is a sequence of atoms, those the grammars look
at and runs of others. The vCard encoder does not flush per card, so `buffered` and
`wire` are apart; the parser has two loops (`outside` and `inside` a card) and resumes in
the first one after an error. A client draws cards with every separator in names,
parameters and values; a DQUOTE in a parameter value has no spelling in the
grammar and is left out.

**PropSlices.** `comp[v]` is a slice header (array and length, the capacity belongs to the
array), `heap` the arrays. Set and Remove allocate; Add writes in place when there is
room. The capacity that append chooses is left open between one more and twice as many.
A helper call is one action, its final SetXVSTAR included.

**HelperCalls.** A call loads c.Props (Set ranges over it), stores a new slice, computes the
digest, loads and stores again. `Serialised` says whether callers hold a lock. In Go an
unserialised execution is a data race; the model has those of its outcomes in which
loads and stores of c.Props are atomic.

**Recurrence.** `RecurrenceSets` has one variable for what the callback of a call has
accumulated (`acc`), one for the base of the next period (`cur`) and the two counters of
the iteration bound. All rules run in UTC. `DeclaredSeries` is written from the RFC's
table of limiting and expanding rule-parts and shares only the calendar arithmetic and
the record of a rule with the code's translation.

**Times.** A value on the wire is a form (`utc`, `local`, `date`, `duration`, `text`) and an
instant or text. Zones are given by their observances, dates by year, month and day, so
that a day that does not exist can be written.

**Documents, Cards.** `cal` is the calendar clients hold and `first` what it was,
`stamp` what each component said when a helper last wrote it, `honest` whether only the
library has written, and `owed` the diagnostics that the arguments of each component's
calls must bring up (a zero DUE, a label that makes an entry). `Construct`, `Help` and
`Supersede` are the library's, `Nest` and `Write` a client's own, `Respell`,
`Rezone` and `Reorder` software on the way that changes spelling and not meaning. What a
document says (`Meaning`, `Says`) is defined apart from the code's normalisation. `card` and
its copy `kept` are those of `Cards`: a client edits the fields UID and Kind and
the properties of the same names, and `Send` is Encode and Parse. A behaviour is about a
calendar or about a card (`NoCard` says which), as the two have nothing in common.

## The runs

| run | question | result |
|---|---|---|
| `supersession` | does the loop implement the projection while the ledger grows, and do hashes survive edits in place elsewhere? | passes |
| `scanner` | is anything lost, and does unfolding invert folding, for every short input and a read error at any octet? | passes |
| `parser` | does the pull parser agree with the batch parser on everything one line away from a well-formed document, under every order of calls and what does a client get that goes on after the reader failed? | passes |
| `pipe` | what is on the wire after every order of calls, whatever the writer does, and do order, truth and arrival hold across the composition? | passes |
| `vcard` | the same questions for the vCard codec, with all quoting and escaping | passes |
| `vcard_newcard` | does a card that `helpers.NewCard` made survive encoding? | violated |
| `helper_calls` | are serialised helper calls safe? | passes |
| `prop_slices` | what can be disturbed through a copy of a component? | passes |
| `recurrence` | do all entry points give the series that RFC 5545 declares for the rule as the code takes it, and tell how it ended? | passes |
| `times` | do accessors read what setters wrote, zones resolve, durations and alarms add up? | passes |
| `times_south` | are zones covered whose daylight saving time spans the new year? | violated |
| `documents` | do canonical form, hash, diff, validator and helpers fit together on every calendar and card clients can get into? | passes |

The properties, in words:

* `OrderIrrelevant`: with distinct timestamps, every permutation of the ledger
  gives every component the same status. `AppendedTakesEffect`: an append changes the
  status of the component it supersedes, exactly when nothing that counts is stamped
  later, and of no other. `AnswersAsOfCall`: refinement of `StatusProjection`.
  `HashesVerify`: stored hashes verify except where somebody edited without refreshing.
* `NothingLost`: at each step, lines returned plus the line pending equal the unfolding of
  what was read. `RoundTrip`: what was folded keeps to the limit and is read back.
* `LockStep`: until something fails, open blocks, finished components and PRODID are those
  of the batch parser on the same lines; and what the pull parser refuses the batch
  parser refuses, but for a calendar property after the first component.
  `TruncationIsNotEOF`, under all calls and after errors too: io.EOF is returned behind
  END:VCALENDAR only, and that line was sent, unless it is what a failed read has left of a
  torn one. `YieldedIsAsSent`: every component yielded is what one run of lines gives that
  were sent one behind the other; only in the first component after a failed read may the BEGIN and
  the line behind it be damaged, or lines between them lost. A client that discards that
  one has nothing but components that were sent.
* `ClosedIsComplete` (both codecs): after a successful Close the batch parser reads the
  wire as exactly the acknowledged components, and a wire that passes for complete was
  closed. `AckedIsOnWire`, `EOFTellsTruth`, `EverythingArrives`, `OneBehind`.
* `StreamAgrees`, `YieldedIsBlock`: the two vCard parsers agree, and no card is glued
  together. `LinesRoundTrip`: the iCalendar codec reads back every property that stays on
  one line (an LF in a value that is not TEXT does not, see below).
* `Counted`: no increment is lost. `HashIsFresh`: the stored hash verifies whenever nobody is
  inside a call.
* `RefreshedIsIsolated`: a component whose last operation refreshed its hash stays as it is,
  and verifies, whatever is done to its copies. `OnlyAppendReachesOthers`: the one
  way to change what another variable sees is Add on a copy of it taken before it had
  itself added a property.
* `ExpandsAsDeclared`: the calls give the declared series of the rule as the code takes it, which
  `AsExpanded` spells out part by part, each instant as often as the list of days names it.
  `CompleteIsTrue` and `NextIsNext` say how a walk ends and that the search agrees with it.
  `CapIsExact`: a walk ends after exactly MaxIterations empty periods and never earlier.
  `SetIsMerged`: RDATE, DTSTART and the rule merge, EXDATE removes last and uses up no
  limit; Set.Between returns an instant once, Set.Occurrences as often as the rule does.
  `SyntaxIsStable`: the order of rule-parts does not matter, and String is read back.
* `ReadsBackAsWritten`: no stale parameter or second property survives a setter.
  `OffsetInEffect`: a local time gets the offset of the observance in effect.
  `DurationTextsAgree`: Parse accepts the grammar and texts that leave the minutes out between
  hours and seconds, and nothing else; what String writes is read as the same duration, and
  is the text that was parsed unless that has a zero or a plus sign. `DurationsAddUp`: AddTo and
  Signed agree, and past 64 bits of nanoseconds they differ by exactly the wrap.
  `AlarmFollowsDue`: an alarm related to the end of a task goes off by the DUE set last.
* `HashIsContent`: one digest if and only if the calendars say the same.
  `CanonicalIsFixpoint`: a canonical form that is read and canonicalised is itself when the
  UIDs are in NFC; otherwise the same components in another order, and itself from the
  second reading on; a card that goes through the codec keeps its canonical form.
  `HashTellsTampering`: the validator reports a hash exactly when the component no longer
  says what it said. `DiffAccounts`: removing and adding what the diff names turns what the
  diff sees of one calendar into what it sees of the other; it does not see a component
  with the type and UID of a later one (`Hidden`). `EmptyDiffIsEqual`: an empty diff means one
  canonical form, of calendars and components of one shape once the hidden ones are out, and
  of two cards exactly when the fields agree that no property hides. `HelpersKeepClean`: what only the
  library has written, in any order of calls, has no errors but those its arguments
  owe, and no property twice. `CleanEntriesCount`: validator and Superseded agree on what
  an entry is, but for blanks.

The type invariant of a module is a conjunct of one of its properties. Every property
of a passing run has a mutant in `PROJECT.json`: a change of one mapped definition, such
as a plausible slip in the code would make, under which TLC finds the property
violated. The mutated definitions stand next to the originals.

## Bounds

* `supersession`: ledgers of three entries, two UIDs and the empty one, two statuses, two
  timestamps and the zero time, one edit in place, six foreign entries that each miss
  one condition. A tie, a late arrival and an entry about somebody else fit into three
  entries; the proofs cover every length.
* `scanner`: four physical lines of seven kinds; logical lines of up to six octets with
  MaxOctets 3 instead of 75, that is every residue at the fold; the arithmetic of `Fold`
  is the code's. The proofs cover every length and limit.
* `parser`: a document of two components, one nested, and all its prefixes, deletions,
  replacements and insertions of a line from eight, and two components without a header,
  complete and cut off; four calls; one read error at any line, with every loss it may
  cause. The proofs cover every input, any calls, any number of errors and any rests.
* `pipe`: four calls of the encoder, so up to three components and Close, or four. The
  proofs of its safety properties cover any number.
* `vcard`: two edits of the first card, two calls of Encode; for files of others, eleven
  kinds of line at every place; one read error, on those only. The proofs cover any texts,
  files and cards, and any number of edits and calls.
* `helper_calls`: three goroutines with two calls each; the proofs cover any number.
* `prop_slices`: two variables, three arrays (one is always free), four properties, five
  operations. Aliasing needs a copy and two operations. The proofs cover any number.
* `recurrence`: thirty-six rules and eleven sets, each with something that could go wrong
  (short months, 29 February, week 53, negative positions, UNTIL on an occurrence, days named
  twice, parts the code does not look at), and
  fifteen texts to refuse; MaxIterations 5 instead of 100000, so that rules run into
  it; limits 0, 1 and 3; months, weeks and times are not named
  twice; no call walks more than MaxPeriods = 20 periods.
* `times`: zones of nine shapes, twenty local times next to transitions and at a new year, two
  setter calls; all duration texts one atom away from ten good ones, of which two are
  beyond MaxDuration, a million seconds here.
* `documents`: five documents of others, with twins and UIDs outside NFC; two
  steps from these, three calls of constructors and helpers on a calendar
  that only the library writes, so that the order of helpers is open, with the zero time, the
  greatest int (200) and the label of supersessions among the arguments; three components; four steps of
  a card; zones of one offset.

`MaxLen`, `MaxEdits`, `MaxCards`, `MaxCalls`, `MaxReadErrors`, `MaxFailures`, `MaxEncCalls`,
`MaxOps`, `MaxSets`, `MaxSteps`, `MaxComponents` and `MaxPeriods` exist only in the models;
`MaxIterations`, `MaxOctets`, `MaxDuration` and `MaxInt` are smaller than in the code.
CHECK_DEADLOCK is off in every run: clients stop calling and bounds are reached.

## Fairness

The only liveness properties are those of the pipe. There the connection delivers, the
consumer's loop goes on and a call of the parser that has lines reads them; failures
and clients are never forced. The producer is not obliged to encode or to Close, and
only `ClosingSpec` adds that it closes its writer once it has finished, which
`EverythingArrives` speaks about. Everywhere else the code's loops end because their
counters do, which the safety properties (`CapIsExact` for the walk) say better.

## What is proved

`tlapm` checks every theorem below, for all values of the constants that satisfy the
named assumptions of the modules.

*Supersession_proofs* (assumes `LedgerAssumption` and `SupersessionAssumption`).

* `TypeCorrect`: `Spec => []TypeOK`.
* `LoopCorrect`: `Spec => []ScanInv`, for ledgers of any length: after k entries the locals
  of the loop hold the latest matching entry among the first k.
* `HashesAlwaysVerify`: `Spec => []HashesVerify`.
* `AppendIncremental`: `AppendedTakesEffect`, as an action property.
* `ImplementsProjection`: `Spec => AnswersAsOfCall`, the refinement.
* `OrderDoesNotMatter`: `Spec => []OrderIrrelevant`.

The argument: `ScanInv` alone is not inductive, since an append or an edit changes the
ledger under the loop and the loop needs that a latest entry exists whenever one
matches. The invariant is `TypeOK /\ ScanInv /\ LatestExists /\ HashesVerify`; lemmas state
that the latest entry is unique and that the first n entries of a ledger give the same
status before and after an append. For `OrderDoesNotMatter` a permutation of the positions
reaches every position (`PermutationReaches`, from the pigeonhole principle), so the latest
entry is somewhere in the permuted ledger, and is the latest there.

*HelperCalls_proofs* (assumes `HelperCallsAssumption`).

* `TypeCorrect`: `Spec => []TypeOK`, with or without a lock.
* `SerialisedCallsReadCurrent`, `SerialisedCallsCount`, `SerialisedCallsHash`: if `Serialised`
  holds, `ReadsAreCurrent`, `Counted` and `HashIsFresh` are invariants, for any number of
  goroutines and calls.

The argument: `Counted` and `HashIsFresh` speak of moments without a call and are not
inductive. `ReadsAreCurrent` adds what holds inside a call: it is the only one, the slice
and digest it has loaded are those of the component, and SEQUENCE is ahead of the calls
that returned by the one under way. Each step re-establishes it for the next position.

*FoldLaws*. `ContentLines`, `ContentLineScanner`, `PropertyLine` and `VCard` compute with the
folds of the community modules. The module proves, from their definitions, what every later proof needs: the
fold of the empty list, of a list with one more element and of a concatenation, for an
operator that the user puts in with `INSTANCE FoldLaws WITH Op <- ...` (a step of a
parser, `SplitStep`, `UnescapeStep`), and the same for
`FlattenSeq`. Induction is over a *set* of numbers that holds 0 and every successor
(`NatInduct`), which needs no operator as a parameter: this is how all the proofs below
speak about inputs of any length.

*StreamPipe_proofs* (assumes `InputsAssumption`, and `EncodedAssumption` for the pipe). One
module holds the proofs about `ContentLines`, `VCalendarParser` and `StreamPipe`, each of
which rests on the one before. First the batch codec of `ContentLines`:

* `BatchRoundTrip`: Parse accepts what Encode writes, for any PRODID and any sequence of
  components with any properties and sub-components, and finds the same in it. As in the
  model, the components in a calendar have sub-components and these have none.

The argument: a parse is continued by what follows (`RunConcat`), and the lines of one
component add it to the block on top of the stack, whatever is below
(`EncodedComponents`). `RunGrows` says what a parse never does: nothing that it has
collected is taken back by the lines that follow, and a parse that is over stays so. The
proofs of the streams rest on it. Then the pull parser:

* `TruncatedNeverLooksComplete`: `Spec => []TruncationIsNotEOF`.
* `PullIsBatch`: `Spec => []LockStep`, the agreement of the pull parser with the batch parser.
* `ComponentsAreAsSent`: `Spec => []YieldedIsAsSent`.

All are for documents of any length and nesting, any calls of Header and Next, any
number of failing reads and whatever they leave of the torn lines.

The argument of the first: io.EOF comes from the field `done`, and `done` is set on
END:VCALENDAR; but that line may be one that Header peeked at long ago. The invariant says
that a peeked line is the last one the scanner handed out and that nothing is read while
there is one (`PeekedIsLast`), and that `done` stops the scanner on END:VCALENDAR
(`DoneIsAtEnd`). That this line was sent is the business of the third theorem's invariant.

`LockStep` compares the fields of the pull parser with a parse of the lines taken, but
not enough of them to be inductive. `InTime` (in the invariant as `LInv`: as long as
nothing has failed) adds what the batch parser has in the properties of the calendar, of
which the pull parser keeps only the PRODID, and when a line may be pending. Refusals
need `RInv`: where the pull parser failed, the batch parser is in its error state on the
same lines and stays in it, or lacks the END that is missing.

For the third, `YInv` says of each component yielded, and of the blocks that are open, that
a run of consecutive lines, parsed on its own, gives exactly that, and that these lines were
sent so, but for the first two of a suspect one. `IntactInv` bounds the
damage: it ends at most three lines ahead of what was read, and from `intact` on what is
delivered is what was sent. `BetweenInv` is the case between two
blocks, where the next line is still to come: a damaged line there is the BEGIN of the next
component or the line behind it, never one further inside.

Last the pipe of encoder and parser:

* `WrittenIsComplete`: `PipeSpec => []ClosedIsComplete`.
* `AcknowledgedIsOnWire`: `PipeSpec => []AckedIsOnWire`.
* `ConsumerIsToldTheTruth`: `PipeSpec => []EOFTellsTruth`.

The argument: the invariant `EncInv` says what the batch parser makes of the wire.
While no write has failed (`Working`) that is exactly the header and the components
acknowledged. A failed write leaves any prefix of its lines, the last one possibly torn: it adds
nothing that the whole write would not have added (`TornLine`, `CutOff`), so that from then
on (`Stopped`) the components on the wire lie between those acknowledged and those
attempted, and the document is not complete unless Close was writing END. At the other end, `PInv` adds that the input of the parser is a
prefix of the wire and takes over the parser's invariant: what was yielded is what the
batch parser collects of a prefix of the wire, and the rest of the wire takes none of
that back. At io.EOF that prefix is a complete document, and so is then the wire, with the
same components.

*VCardStream_proofs* (assumes `VCardAssumption`, which gives the constants their types).

* `TypeCorrect`: `Spec => []TypeOK`.
* `PullAgreesWithBatch`: `Spec => []StreamAgrees`.
* `CardsAreBlocks`: `Spec => []YieldedIsBlock`.
* `WrittenIsRead`: if `ClientIsCareful` holds, `Spec => []ClosedIsComplete`. The hypothesis says of
  the cards the client makes and the properties it sets that they can be written
  (`WritableCard`): the codec checks none of it, and without it the property is false. It is a
  formula about the constants; `MCVCardStream` assumes it of its own, so TLC evaluates it.
* `LinesReadBack`: under the same hypothesis, `Spec => []LinesRoundTrip`.

These are for any texts, any documents of others, any cards and edits, any number of calls
and of failing reads, and a writer that fails anywhere.

The argument starts with the grammar. `SplitUnquoted` is a fold whose state remembers
whether it is inside quotes; `Whole(s, c)` says that s has its quotes closed and no c
outside them, and `SplitAt`, `LineAt` and `HeadName` take a line apart at such places.
`GroupAway` is what the comparison of the two parsers rests on: a line of UID, KIND or
VERSION without its group is a line with the same value and the bare name, and `SameName`
that the batch parser then does with it what the pull parser does with the line itself.

The invariant of the first three has three parts. `Typed` has the types and how far each side can be.
`Agree`: with no read error, the batch parser run over the lines taken so far is between
two cards with those yielded, or inside the card `cur`, and once a call has failed the
batch parser refuses the file. `InBlock`: the card being read is what a batch run from its
BEGIN gives; only this part survives errors, of the reader too, because a failing
read damages lines ahead of the scanner and never those of the open card. `InsideStep` and
`OutsideStep` compare one line in the two parsers.

For `WrittenIsRead`, `UnescapeInverts`, `ParamReadsBack`, `PropertyReadsBack` and `CardReads`
say, from the inside out, that what a card is written as is read as that card, and
`CardsAreRead` that a file of cards is those cards. Of a file that was cut off
(`CutFile`), `CutReads` says that the batch parser makes of it the first cards of the whole
and meets no error before its last line: no line of a card becomes an END:VCARD when its
last character is missing (`CardsSafe`), and no other line makes a card (`StepCards`).
The invariant
adds `Careful` (every card that was or will be written can be), `FileWritten` (file and buffer
together hold the cards acknowledged; after a failed write the file is cut off from those
and the one attempted; nothing else writes) and `ReadsOn` (what was read is a prefix, and an
error comes at the end of the file only). The last is needed since
`Agree` says nothing of the cards once a call has failed.

For `LinesReadBack` the same lemmas take apart the line of the iCalendar codec (`LineReadsBack`):
without a DQUOTE its parameters are written as in a vCard (`SameParams`), the first equals sign
of each is the first outside quotes (`FirstEqualsIs`), and `EscapesUndone` holds whatever an
unknown escape stands for, the one thing in which the two codecs unescape differently.

*ContentLineScanner_proofs* (assumes `ScannerAssumption`: written lines begin with a name, not
with white space, and a limit of at least two octets).

* `NothingIsLost`: `Spec => []NothingLost`.
* `UnfoldInvertsFold`: `Unfold(FoldAll(d)) = d`, and no physical line exceeds the limit, for
  documents and lines of any length and every limit.
* `FoldedIsReadBack`: `Spec => []RoundTrip`.

The argument: `NothingLost` does not say what a continuation is glued to. `Assembled`
does: the line pending is the last of the lines received, joined; without one the last is
blank, or there is none. `FoldsAt` is the arithmetic of the folds (in order, at most the
limit apart, the last at the end), `FoldJoins` the induction over the physical lines of a
logical one. `FoldedIsReadBack` adds (`Faithful`) that without an error the lines
received are those the reader held, and that at io.EOF nothing is pending.

*PropSlices_proofs* (assumes `PropSlicesAssumption`).

* `RefreshedVerifies`: `Spec => []RefreshedIsIsolated`, for any number of copies, arrays and
  properties, and whatever capacities append chooses.
* `OnlyAppendsReach`: `Spec => OnlyAppendReachesOthers`.

The argument has two halves. Aliasing: Add writes into a shared array, so what was
refreshed stays (`Isolated`) only because nobody who shares the array of a refreshed
component has a shorter slice (`NobodyBehind`): a refresh moves to an array of its own, a
copy has the length of the original, and slices that stay in their array only grow.
`AssignKeeps` treats the operations that allocate, `AddKeeps` the append in place.
Counting: the digest counts equal properties in a list without the hash, and the setter
replaces the first of a name and drops the others. `WithoutIs` and `ReplacedIs` say how
often a property is in such a list; two lists with equal counts have one digest
(`DigestByCount`), so the list with the new hash verifies (`StampedVerifies`). The
invariant gets `Fits` (no slice exceeds its array, so that what is allocated holds all
that is stored) and `StampsVerify`.

*ComponentTimes_proofs* (assumes `TimesAssumption`, which gives the constants their types).

* `SettersAreRead`: `Spec => []ReadsBackAsWritten`, which includes `TypeOK`.
* `AlarmsFollowDue`: `Spec => []AlarmFollowsDue`.

Both are for any properties a component starts with, doubled and malformed ones
included, any zones, instants and days and any number of setter calls.

The argument: what the accessors read says too little to be inductive, for they look at
the first property of a name only, while a setter must also leave none behind it. The
invariant speaks of all of them: `Chosen` is the list of the properties of a name, and
for each name that a setter was called for it is what the last call wrote, alone, or
nothing after a clear (`AsWritten`). `ChosenWithout` and `ChosenSet` say what Remove and Set
do to the list of every name, by induction over the properties, and `GetChosen` what Get
then finds. `DayIsRead` is the calendar's part: FormatDate and ParseDate agree on which
triples are days, since no month has more than 31 (`MonthLength`). The second theorem is
about what Resolve does with a trigger that ParseTrigger accepted (`TriggerShape`) and
takes the DUE from the first.

## What is only model-checked

* All liveness (`EverythingArrives`, `OneBehind`): the prover has no rule for fairness here, nor
  for ENABLED.
* `OffsetInEffect`, `DurationTextsAgree` and `DurationsAddUp` of `ComponentTimes`: the inverse of the
  calendar (`YearOfDay`) searches the years near its guess, which is right within some
  centuries of 2000 and not for every instant; the texts of durations would take an
  induction over the numerals of the grammar that was not attempted.
* The recurrence properties and `Documents`.
  The recurrence modules compute with `SelectSeq` and nested
  folds that the laws above do not cover yet; `CanonicalForm`, `StructuralDiff`,
  `Validation`, `Helpers` and `Documents` use RECURSIVE operators, which the prover does not
  support: what such a definition computes for every input cannot be proved here.

## Disagreements between comments and code

Two violation runs show places where the code does something else than the repository
says; `PROJECT.json` quotes the lines.

* `times_south`: `selectActiveRule` (`time_tzid.go:170`) takes daylight saving time for the
  span between two transitions of one year, daylight first. Zones where it spans the
  new year get the standard offset all summer; the specification lists the form of such
  rules as covered.
* `vcard_newcard`: NewCard puts VERSION, KIND and UID into the properties besides the fields,
  and Encode writes them again; both parsers refuse the second VERSION.

## Other things the models show

While modelling, these came to light. They are facts about the code that the properties
above are stated around, and most have a precondition there.

* **Streams.** `Header` drops the error of ensureHeader, although its comment says that Next
  will return it (`vcalendar.go:94-102`): a Next after it reads on and may return components of a
  document whose header was refused. An LF in a value that is not TEXT is written raw
  (`rfc5545/encoder.go:129-133`) and ends the line. A Close that
  failed after END was written leaves the encoder open. END:VCALENDAR is not delivered
  while the connection stays open, since the scanner waits for the start of the next
  line. The pull parser of vCards looks at group prefixes of UID, KIND and VERSION
  differently from the batch parser (`Ungrouped` takes them away).
* **Helpers.** Without a lock of the callers, IncrementSequence loses updates, whatever its
  comment says about the window. AddCategory "appends" (`categories.go:69`) to the first CATEGORIES
  property and drops the others. A SEQUENCE beyond the range of int validates, but IncrementSequence starts
  again at 1, and one past the greatest int wraps to no sequence number, though it "bumps
  the SEQUENCE revision counter on c by one" (`revision.go:122`). SetDue with the zero time takes a task
  its DUE and the validator then misses it (VS040).
* **Canonical form.** Components are sorted by UIDs before these are brought into NFC, so
  for UIDs that are not in NFC the form is no fixpoint, as
  `spec/v1.0/03-canonicalization.md:72-73` claims it is. A component's own hash does
  not know the zones of its calendar: software that rewrites a local time in UTC breaks
  the component's hash and not the calendar's.
* **Diff.** Of components with one type and UID all but the last vanish from the diff, where
  `diff.go:54-57` promises an entry for each pair and for each component on one side only. OfCard compares
  properties and not the fields UID and Kind, in which the parser puts those of a card it
  reads: cards that differ in the UID alone have an empty diff, which `diff/types.go:118-120`
  recommends as a test for identical inputs. An empty diff may also go with different
  canonical forms when sub-components are reordered, one UID stands under two types, or the
  PRODID differs.
* **Recurrence.** A yearly rule with BYDAY or BYMONTHDAY and without BYMONTH is confined to
  the month of DTSTART (`next.go:369-375`); BYYEARDAY switches BYMONTHDAY and BYWEEKNO off,
  BYWEEKNO switches BYMONTHDAY off, and ordinals of BYDAY count only in months; the specification claims
  the table of RFC 5545 (`spec/v1.0/03-canonicalization.md:232-233`). A day that a rule names twice
  (BYMONTHDAY=31,-1) is returned twice, by Set.Occurrences too, whose comment says that
  this cannot be (`set.go:91-95`), and uses up COUNT twice. A rule whose UNTIL has passed in
  a spell without candidates ends in ErrIterationCap.
* **Validation.** Alarms nested in a component are not looked at. A RELATED-TO with blanks
  validates and is never matched; an empty status is counted by Superseded and refused
  by the validator.
* **Times.** FormatDate writes days that do not exist; FormatTime writes years past 9999,
  which ParseTime does not read. `PT1H5S` is accepted although the grammar that the comment
  calls exact wants minutes between (`duration.go:85-93`). `P0DT15M` and leading zeros are not
  written back "byte for byte" (`duration.go:274-277`). Signed wraps beyond 292 years
  while AddTo counts days, which the comment of the package passes over (`duration.go:22-23`).

These disagreements are not violation runs of their own. They are stated in the positive by
the property of the component, which is exact about them: `AsExpanded` for rules, `LaxTexts` and
`HasZero` for durations, `Hidden` and `Shown` for diffs, `owed` for helpers. A change of the
code to what the comment says would violate the property as much as a change away from it.

## What is not modelled

* **SHA-256 and the canonical bytes**: the hash is ideal; the digest of a document is its
  canonical form.
* **Characters**: escaping, quoting, folding and case are modelled on atoms; UTF-8, NFC
  tables and the wording of errors are Go's or data.
* **Recurrence in zones with transitions**: rules are expanded in UTC. `Rule.Validate` as an
  entry point of its own, RECURRENCE-ID.
* **Getters of helpers** that read one property with a default, the text of a diff, accessors
  of extension properties: no state, nothing to relate.
* **The tools and the ports**: input and output around the library, and the same
  specification in other languages.
* **Data races as such**: Go leaves their outcome open; `HelperCalls` has the outcomes with
  atomic loads and stores, the rest of the models exclude races as the packages do.

## The plan

Done: ledger, streams of both formats, components in memory, recurrence, times, zones
and durations, canonical form, hash, helpers, validation and diff, and the proofs below
their modules. Next, in this order:

1. Expansion in a zone with transitions: `advance` and the candidates of `next.go` over a
   clock with a gap and a fold, which `TimeZones` already has.
2. Proofs: `CapIsExact` for every MaxIterations; `OffsetInEffect` for zones with any number
   of observances.
3. The accessors of extension properties as operations of `Documents`.
