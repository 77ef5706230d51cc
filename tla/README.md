# Verification of Software Architecture with C++

The repository is the code of a book: programs that are independent of each
other, one or a few per chapter, and under `3rd-parties` the libraries they are
built with. This directory holds TLA+ models of the programs and of the parts of
the libraries that keep state, TLC configurations that check them on small
instances, and proofs that TLAPS checks for every instance. `PROJECT.json` lists
the components, the runs with their properties, a plausible bug for each property
that its run detects (the `Mutant of ...` definitions), the source lines of every
definition, the findings, and the hazards the properties are for.

    tlc -workers 2 -config MCTracerParts.cfg MCTracerParts
    tlapm RemoteReporterProofs.tla

In the paths below `J` is
`src/3rd-parties/jaeger-client-cpp-0.7.0/src/jaegertracing` and `S` is
`src/3rd-parties/SaferCPlusPlus`. Both are vendored, but they are the concurrent
parts of the chapters' programs: Chapter15's service is built with exactly this
version of the tracer (its `CMakeLists.txt`), Chapter10's history of merchants
with SaferCPlusPlus.

## 1. Inventory

| component | state it keeps | operations | interacts with | what is hard | what makes it correct |
|---|---|---|---|---|---|
| Item state machine (Chapter06/12) | a variant: Depleted, Available{count}, Discontinued | process_event of three events | - | counts nobody checks, the boundary of the count, overflow, an exception inside `visit` | the count is the stock; discontinued is final; a rejected event changes nothing |
| Coroutine work pool (Chapter11) | coroutine frames, async_mutex, vector, counter of when_all_ready | schedule, lock, emplace_back, unlock, complete | cppcoro's pool, by suspension and inline resumption | interleaving on several threads, lifetime of the frame, lost wake-ups | one holder of the mutex; nothing lost; the frame outlives its tasks; main() ends |
| Visited merchants (Chapter08, 10) | history of entries, each a copy of a review | visit, rate | the review store | stale copies, write before post, NaN | store and entries agree unless passed over; no half-taken rating |
| CustomerReviewStore (Chapter08, 10) | a vector of reviews | construct, post_review, get_review | - | where the contract stands | a post that meets its preconditions is stored |
| Item gallery (Chapter05) | the favourites of customers, in a static map | three ways to collect featured items, sort | - | entries that a lookup inserts, three versions of one algorithm | every version shows the same items, each as often as its store, newest first |
| Copy, move and swap (Chapter06/04) | a pointer to a block of the heap and its size | copy, move, assign, swap, destroy | the heap | self-assignment, moved-from arrays, new that throws | one owner for each block; a variable has a value of its own |
| Span sender (J/ThriftSender) | span buffer, byte counter, process | append, flush | transport (UDP or HTTP), which may throw | counter against content, failure in the middle of append, a batch that went out and is not answered | a batch fits a packet; each span once unless it went unanswered; no silent loss |
| Remote reporter (J/reporters) | bounded queue, `_queueLength`, `_running`, the sweeper thread | report, sweepQueue, close | any number of threads; the sender, unlocked; a condition variable | close against report and sweep, timeouts, counting outside of the lock | accounting of spans; one user of the sender; close flushes and returns; order kept |
| Tracer lifetime (J/Tracer, Span) | shared_ptr references | finish a span, Close, drop the handle, ~Tracer | the reporter's queue holds references to its owner | who drops the last reference | the reporter's own thread does not; pending spans are flushed |
| Spans (J/Span) | name, tags, logs, baggage, sampled, finished | setters, finish, report | threads that share a span; the reporter | setters between finish and report; baggage read by reference | reported once; what is finished stays as it is |
| Trace construction (J/Tracer) | none but the contexts of the spans | analyzeReferences, startSpanInternal | sampler, propagation | which reference is the parent, what is inherited | a child is in its parent's trace and shares its fate |
| Propagation (J/propagation, net/URI) | none | inject, extract in four formats; escaping | other processes | corrupted headers, a header for debugging, keys that become equal in lower case, what a format leaves out | what decides on sampling survives the way, and the baggage as far as the format carries it |
| Samplers (J/samplers, RateLimiter) | current sampler, poll thread, operations, balance | isSampled, update, close | HTTP | poll against close, update in place, capping | the rate is kept; failed polls change nothing; close returns |
| Baggage restrictions (J/baggage) | restrictions, default before the first success, poll thread | getRestriction, poll, close | HTTP | failure at three points, close between any two | as of the samplers |
| Access lock (S/mseasyncshared.h) | base mutex, owner, counts, suspended reader | lock, upgrade, nest, unlock, with and without timeouts | any number of threads | upgrade, an unlocked gap inside calls, the thread with dibs | a writer excludes all others; each lock is backed; calls return |
| Customer service (Chapter07, 08, 15) | none but spans | handle_get, prepare_response, respond | cpprest, the tracer | the end of the program | in TracerLifetime; the rest has no state |
| Memory resources (Chapter06/13) | the default resource | four demonstrations | std::pmr | a default that dangles | no allocation from a dead resource |
| Fluent builder, document factories (Chapter06) | an object under construction, a registry | chain, register/open | - | order of calls, unknown extension | see section 6 |
| Redis client, gRPC greeter, S3 bucket (Chapter12, 13) | a connection | one or two requests | external services | in the libraries | replies match requests |
| Envoy, Kubernetes, Packer, CI; Chapter01-03 | configuration, illustrations | - | - | - | - |

The hazards, each at its line and with the properties that cover it or the
reason why none does, are in `PROJECT.json`.

## 2. What is modelled

### Programs of the chapters

**ItemStateMachine.** `state_` is the variant. Each `on_event` overload is an
action of the same name with its state and event; `Unsupported` is the fallback
lambda, which throws before `state_` is assigned. `Wrap` is two's complement
arithmetic of width `IntMax` (signed overflow is undefined; wrapping is what the
build does, and `overflowed` remembers it). The count of an event is any int of
`Counts`, zero and negative ones included, since the code checks none. `arrived`,
`taken`, `oversold` and `misdelivered` (none or fewer units came in since the last
purchase) are history variables.

**RoutineWork** has the program counters of `main()`, `do_routine_work` and each
`fill_number`, and for each thread the stack of coroutines that run on it,
because cppcoro resumes a waiter inside `unlock()` and the awaiting coroutine
inside the last completion. `emplace_back` is two steps (read the end, write),
so that a mutex that did not exclude would lose an element. cppcoro is not in
the repository and is modelled by what the program relies on. **ProducedOnce**
is the promise: the numbers come out one by one, each once, and are reported
when all are there.

**VisitedMerchants** has the store as `fake_customer_review_store` implements
the interface, because the repository's own `CustomerReviewStore` cannot store
anything (see the findings); entries are records copied when they are made.
`passed` is the set of entries whose merchant was posted about by someone else
since. Ratings are numbers around both bounds, and NaN. A post is by a holder of
the store or by an entry, and each exception is an outcome. The history is
Chapter10's, whose vector throws for an index out of range; with Chapter08's
`std::vector` that is undefined. **CustomerReviewStore** has the contracts in
the order they are written.

**ItemGallery.** The static map is a variable, because `operator[]` inserts a
customer it does not know. The three files' ways to collect the featured items
are three operators (`AllByLoop`, `AllByRange`, `AllByJoin`): a fold from the
front that appends, a fold from the back for a lazy view, and a copy or a join of
what the stores give. `RenderGallery` is `main()` with any of them. `std::sort` leaves items of one date in any
order, so the gallery is any of the sequences it may leave.

**ArrayValue.** `heap` has the elements of each allocated block, `arrays` the
pointer and size of each variable, and `meant` the elements a variable would
have if it were a plain value. Assignment takes its argument by value:
`CopyAssign` and `MoveAssign` are a construction, a swap and a destruction, with
the moved-from argument null in between. `new` may throw wherever it is called.

### The tracer

**ThriftSender** keeps `_byteBufferSize` as the code counts it next to
`spanBytes`, the length the buffer really has. A span is a model value with a
serialized length. `append` has the code's four ways out: reject, store, store
and send, send and store. `outcome` is what `emitBatch` does: it returns
("taken"), it throws and the batch has not gone out ("refused"), or it throws
although it has ("unanswered"). The last is `HTTPTransporter`'s, which throws
when it cannot read the answer (`utils/HTTPTransporter.h:73`); `Config::makeReporter`
chooses it when an endpoint is set, and `Transporter` says which there is. The
sender cannot tell the two exceptions apart: it keeps the batch and sends it again,
and what the code has changed before the exception stays changed. The counter may exceed a
packet, since the first batch is counted without the process, later ones with
the process twice, and a failed append stays counted.

**RemoteReporter** composes it with the queue (`Sender == INSTANCE
ThriftSender`; its actions are conjuncts of the reporter's). What happens under
`_mutex` is one step; the sweeper keeps the mutex while it sends (`Locked`), so
`sweepTake` and `sendSpan` are separate steps between which nobody else can take
it. `notify_one`, the increment of `_queueLength`, `join` and the last `flush`
happen outside of the lock and are steps of their own. A wait that times out
(`sweepTimeout`) flushes unless the predicate has become true meanwhile; that it
may do so at any time covers every interval and spurious wake-ups. Time itself
is not modelled. **SpanChannel** is the abstract specification, with
`pending <- spanBuffer \o inHand \o queue`: a queue that may lose spans but never
reorders them, and loses none that has gone out. Only if `MayRepeat` (the transport
is HTTP) may its oldest spans go out and still be pending, to go out again.

**TracerLifetime** extends the reporter with the references: the program's
handle, unfinished spans, threads inside `FinishWithOptions`, the queue and the
span in the sweeper's hands. `close()` is called by `Tracer::Close()`, from any
number of threads of the program (`examples/App.cpp` does so once), and by `~Tracer`.
`selfClosing` is the state in which the sweeper itself has dropped the last
reference. All spans are taken to be started before the first is finished.

**SpanLifecycle** is one span used by several threads. `_mutex` is held within
each call, so a setter is one step; `FinishWithOptions` releases it before
`reportSpan` looks at the span again and before the reporter copies it, so these
are three steps, between which others may set what the code still lets them set.
What a call puts in is the number of the call. **BaggageUse** adds a thread that
walks through the baggage by the reference that `context()` returns, with the
other mutex.

**SpanStart** has `analyzeReferences` as a fold over the list of references, as
the loop leaves the parent, and `StartSpanWithOptions` as a child, a root or a
refusal. Contexts come from requests (`Receive`), from spans and by way of
another tracer (`Hop`). **Propagation** has what each of the four formats keeps
of a context, with corrupted headers and the header for debugging. Keys and
values of baggage are sequences of characters: in Jaeger's headers of HTTP keys
come back in lower case and values go through **URI**, which escapes and reads them
character by character; a map of text and the binary format leave them alone; W3C's
headers have none. Items whose keys become equal, or that `jaeger-baggage` names
too, are one item afterwards, whichever the reader came to last (`Merged`).
**QueryEscaping** extends URI with a value that grows, for the finding about it.

**SamplerPolling** is the polling thread of `RemotelyControlledSampler` with
the failures of a poll, the update of the adaptive and the guaranteed-throughput
sampler in place, and `close()`; time stands still, so a limiter has its credit
or has spent it. **RateLimiter** has the time: a clock, and each call with what
was granted before it. **BaggageRestrictions** is `RemoteRestrictionManager`:
the same kind of thread with the default that applies before the first success.
**PollUntilClosed** is what both promise: they poll until they are closed,
closing returns, and then no poll takes effect.

### The access lock

**RecursiveSharedMutex** is `recursive_shared_timed_mutex`. A thread holds
`m_state_mutex1` throughout a call except while it waits for the base mutex, so a
call is one step up to such a wait, one that gets the base mutex and one after
it. `reads` and `writes` record what the callers have been given; the rest are
the class's own fields. A failed `assert` is recorded and the call goes on, as
with `NDEBUG`. A thread that holds a nonrecursive lock makes no further calls to
lock, which the class forbids. **ReadWriteLock** is what the library's lock
pointers promise, upgrades included. **TimedMutex** extends the module with the
calls that give up after a time, which may come at any moment; what the base
mutex does when a thread unlocks it that has not locked it is left open among
the outcomes of the implementations at hand.

### Side by side

`ChapterPrograms` and `TracerParts` hold modules whose programs share
nothing: each behaviour is one of the program (or part) that `program` (`part`)
names, and the others keep their initial states. That is only a way to check
them in one run; `MCChapterPrograms` and `MCTracerParts` give the constants their
values. Compositions of components that interact are the reporter with
its sender, the tracer with its reporter, the start of spans with propagation, a
span with a walk through its baggage, and the timed calls with the mutex.

## 3. What the runs show

| run | bounds | shows |
|---|---|---|
| `chapter_programs` (98 274 states) | a 4-bit count and 6 events of -2, 0, 1 or 3 units; 4 tasks on 3 threads; 2 merchants, customers, texts and entries; 3 arrays of up to 2 elements on 4 blocks; 2 stores of up to 2 items | item: `StockLedger`, `DiscontinuedIsFinal`; app: `EntriesMatch`, `NoHalfRating`; work: `FrameOutlivesTasks`, `StackDiscipline`, `PromiseKept`, `WorkFinishes`; `ArraysAreValues`; `GalleryComplete` |
| `tracer_parts` (296 744) | 5 spans over HTTP, 2 failures in a row; a balance of 3 over 4 seconds; 5 uses of a span by 2 threads; 3 polls of 5 answers, 3 operations, 1 tracked unasked, 2 calls of close, the same for restrictions; 3 references, 2 received contexts with baggage (a tab, a space, an upper-case key among it), 2 spans | sender: `BatchFits`, `CounterBounded`, `EachSpanOnce`, `LossIsNoticed`; limiter: `RateKept`, `RefusesOnlyBeyondRate`; span: `ReportedOnce`, `FinishedIsFrozen`, `SampledIsReported`; sampler and restrictions: `OperationsBounded`, `PollsKeepState`, `CloseEndsPolling`; start: `ParentChosen`, `TraceShared` |
| `remote_reporter` (356 562) | 3 spans over HTTP, 2 threads, 2 calls of Close and the destructor's, a queue of 2, 1 failure in a row | `QueueLengthTracked`, `EachReportedOnce`, `OneSenderUser`, `CloseFlushes`, `NeverSelfClosing`, the refinements `SenderContract` and `KeepsOrder`, and `EventuallySent`, `CloseReturns`, `Destroyed` |
| `access_lock` | 3 threads, 2 calls each, 2 locks of a kind | `LocksBacked`, `Exclusion`, `EveryCallReturns`, `PromiseKept` |
| `tracer_released` | as `remote_reporter`, the program only lets go | finding: `DestructorFlushes` fails |
| `store_up_to_date` | as `chapter_programs`' app | finding: `StoreUpToDate` fails |
| `post_ensures` | one store | finding: `PostEnsuresReview` fails |
| `access_lock_assertions` | 2 threads | finding: `AssertionsHold` fails |
| `access_lock_timed` | 3 threads with timed calls | finding: `Exclusion` fails |
| `baggage_race` | 1 span | finding: `BaggageProtected` fails |
| `trace_state` | 1 request, 2 spans | finding: `TraceStateKept` fails |
| `query_escape` | values of up to 3 characters | finding: `RoundTrip` fails |

**Bounds**, and why they are enough. `MaxEvents`, `MaxEntries`, `MaxFailed`,
`MaxTime`, `MaxUses`, `MaxPolls`, `MaxUpdates`, `MaxReceived`, `MaxSpans`,
`MaxReferences`, `MaxHeld`, `MaxCalls`, `MaxSize` and `MaxLength` are in guards:
what goes beyond them does not happen.
Three deliveries of three units overflow the count and two do not, so both sides of
the boundary are reached; the ledger is claimed until the first overflow. A delivery
of -2 units, or of none, to an item without stock is the one that makes it available with
nothing to sell. The runs of the sender have HTTP, whose behaviours include those
with UDP; one failure and the retry suffice for a batch to go out twice, two for a
batch that grows between. Two entries
can be about one merchant, which is what makes a copy stale. Four tasks and three threads let a task
wait while another is handed the mutex and a third completes. The
spans' lengths reach every branch of `append`: sharing a batch, filling it to the
byte, filling it alone, too long. Two threads suffice to fill the queue and to
have a count outstanding while another pushes. Three references suffice to have
a ChildOf before and after a FollowsFrom, and two spans for a child of a child.
Three polls suffice for an answer, a failure and the same answer again. A third
thread is what an upgrading reader can overlook while a second one waits. The
proofs of section 4 hold for every value of the bounds they name.

**Fairness.** A pool, poll or reporter thread that is not blocked is run by the
operating system: weak fairness of each thread's steps, and of each call of
`close()` once made. In `TracerLifetime` the program goes on to finish its spans; it need
not close its tracer nor let go of it, and `Destroyed` says what follows when it
does. `EventuallySent` and `DestructorFlushes` rest on one more assumption: the
transport does not fail for ever, since after `MaxFailed` failures in a row it
takes a batch; without it nothing can be promised but the retries. A request of
a polling thread comes to an end, with an answer or without; nothing is asked of the
refresh interval. `SampledIsReported` takes a thread that has begun to finish a
span to go on. The access lock's `EveryCallReturns` needs a base mutex that does
not starve a thread that waits for it for ever, which is not a promise of
`std::shared_timed_mutex` and is marked as an assumption there (strong fairness of
getting the base mutex), and callers that give back what they hold.

Deadlock is not checked where the programs may stop or where the bound on their
calls stops them: `tracer_parts`, `access_lock` and the violation runs whose
modules end at a bound.

### Findings

1. `post_ensures`: `Ensures(!reviews_.empty())` stands before the `push_back` it
   is about (`Chapter08/mobile_app/src/merchants/reviews.cpp:28`), so the first
   post to an empty store terminates.
2. `store_up_to_date`: `rate()` with the rating that a stale entry shows does
   not reach the store, although the scenario says "merchant history keeps store
   up to date".
3. `tracer_released`: a program that ends without `Tracer::Close()`, like
   Chapter15's, may leave the last reference to the tracer to the sweeper thread,
   which then closes itself with its own mutex held (`RemoteReporter.cpp:95`).
   The change log promises that the destructor flushes pending spans.
4. `baggage_race`: `SetBaggageItem` replaces the baggage without
   `SpanContext::_mutex`, which "Protects _baggage" (`SpanContext.h:218`), so a
   thread that injects the context may walk through baggage that is being replaced.
5. `trace_state`: the context of a span that continues a trace does not have its
   parent's trace state (`Tracer.cpp:125`), so a service in the middle drops it.
6. `query_escape`: a tab or a byte of UTF-8 in the value of a baggage item does
   not come out of the headers as it went in (`URI.cpp:112`).
7. `access_lock_assertions`: `lock()` asserts that nobody writes while anybody
   reads (`mseasyncshared.h:117`), but a thread may hold both kinds of lock.
8. `access_lock_timed`: `try_lock_until()` unlocks a base mutex that it has
   failed to lock (`mseasyncshared.h:285`), which can let a writer in beside others.

Worth knowing, though no document says otherwise:

- a delivery of no units, or of fewer than none, is accepted and makes a depleted
  item available with that count;
- over HTTP a batch is sent again when it has arrived and its answer cannot be read,
  so a collector may get spans twice; a status that is an error never makes
  `emitBatch` throw, since `HTTPTransporter.h:74` asks for one below 200 and above 204
  at once, where the comment above it lists 200 to 204 as what is taken: a batch
  that the server rejects counts as sent;
- keys of baggage come out of Jaeger's headers of HTTP in lower case, and of two
  that differ in nothing else one is lost;
- a rating of NaN passes `check_range`; a rating through a stale entry overwrites
  a newer review with the old text;
- a span reported after `close()` stays in the queue, uncounted, and keeps the
  tracer alive; a second call of `close()` returns before the first has flushed;
- the binary propagator shifts a value it has already put in network order, so
  what it writes depends on the host; two SelfRefs are accepted where `Tracer.h:320`
  speaks of a lone reference; the W3C trace state is escaped on one side only;
- `RemoteRestrictionManager` declares its thread before the mutex and condition
  variable that the thread uses, so it may start before they are constructed;
- the copy constructor of `Array<T>` leaks its block if a copy of T throws; that
  of the model is for elements whose copies do not;
- Chapter06's memory demonstration leaves a default resource that dangles when
  `using_memory_arenas` returns; Chapter15 dereferences the result of `StartSpan`
  unchecked (`lib.cpp:27`), and its "respond" spans start traces of their own;
- of Chapter05's searches, `imperative_aka_bad` and `legacy_declarative` find
  different places (0 and 2) on the program's own vector.

## 4. What is proved

| module | theorems | for |
|---|---|---|
| `ChapterProofs` | item: `TypeCorrect`, `LedgerCorrect`, `FinalIsFinal`; app: `StoreIsOwn`, `EntriesAgree`, `NoRatingIsHalf`; array: `ArraysStayValues`; gallery: `GalleryIsComplete`; `ProgramsWellFormed` | any width of int, counts and bound on the events; any customers, merchants, texts, numbers and length of the history; any names, addresses and elements; any stores, items and favorites |
| `RoutineWorkProofs` | `MutexCorrect`, `NothingIsLost`, `FrameIsSafe`, `Implements`, `StacksAreSound` | any positive number of tasks, any non-empty set of threads |
| `ThriftSenderProofs` | `NoBatchTooLong`, `CounterIsBounded`, `SpansAreKeptOnce`, `LossesAreNoticed` | positive lengths, a packet that has room for the process, either transport, any bound on the failures in a row |
| `RemoteReporterProofs` | `TypeCorrect`, `QueueLengthIsTracked`, `ReportedOnce`, `SenderNotShared`, `PendingFlushed`, `UsesSenderAsSpecified`, `BatchesFit`, `Implements`, `AliveInvariance`, `ClosingIsSafe` | the same, a positive queue size, finitely many threads, any calls of `close()` |
| `SamplerProofs` | limiter: `BalanceInRange`, `RateIsKept`, `RefusalIsDue`; samplers: `SamplersWellFormed`, `OperationsStayBounded`, `SamplerIsKept`, `SamplerPollsUntilClosed`; baggage: `RestrictionsAreKept`, `ManagerPollsUntilClosed` | any rate, limit, costs and times; any answers of the agent in any order, each with finitely many operations, any number of polls and of calls of `close()` |
| `TracerPartsProofs` | span: `IsReportedOnce`, `FinishedStaysFrozen`; start: `ParentsAreChosen`, `TracesAreShared`; escaping: `AsciiSurvives`; `PartsWellFormed`, `PollsChangeNothing` | any threads and number of uses; lists of references, requests and headers of any number, baggage of any items; values of any length, of characters in 16..127 |
| `RecursiveSharedMutexProofs` | `TypeCorrect`, `LocksAreBacked`, `WritersExclude`, `Implements` | any threads, nesting and number of calls |

Every invariant, and every action property, that a passing run checks is stated
by one of these. `InductionLemmas` has what they need of numbers, subsets and
folds.

The assumptions are the named ASSUMEs of the modules, which TLC evaluates in the
runs. The arguments:

- *ItemStateMachine.* `StockLedger` is inductive with the types: an overflow is
  remembered, so the count is the exact sum as long as none has happened. That an
  available item has a unit is kept by purchases, which look at the sign, and by
  deliveries of one or more; the others are remembered in `misdelivered` until a
  purchase looks again.
- *ArrayValue.* `ArrayInv` adds to the property that what is alive has a pointer,
  a size and a value at all; then a construction, a swap and a destruction each
  keep it, and so does assignment, which is all three in one step: a moved-from
  argument owns nothing, and what it owned has one owner again at the end. `new`
  failing leaves the state as it was.
- *ItemGallery.* What a fold computes is shown by induction over the subsets of
  positions it runs through: the loop and the view each have a featured item of a
  store once (`LoopFinds`, `RangeFinds`), a copy and a join have an item as often
  as there are sequences that have it (`CopiedHas`, `JoinedHas`), and a sort, a
  bijection, changes no count (`OrderedKeeps`). `GalleryInv` adds that favorites
  are sequences of stores, and that the map keeps what it had at first.
- *RoutineWork.* `NothingLost` is not inductive: one has to know that the end an
  unfinished `emplace_back` has read is still the end (`EndIsCurrent`), which
  follows from mutual exclusion. `FrameOutlivesTasks` needs that the counter of
  `when_all_ready` is exactly the outstanding tasks plus the frame that has not
  suspended yet (`CounterExact`). `StackDiscipline` needs where the coroutines on
  the stacks can be (`InPlace`): a task that is handed the mutex was waiting, so
  it is on no stack, and the routine that the last completion resumes had
  suspended, which the exact counter shows.
- *VisitedMerchants.* Entries are copies of the customer's own reviews
  (`OwnEntries`), hence the store never refuses what an entry posts, hence the
  copy that is written before the post is never left behind.
- *ThriftSender.* `BatchFits` says nothing of the counter, so it needs `Covered`:
  the counter never runs behind the buffer, and what was stored was covered by it
  or is alone in the buffer. `CounterBounded` is carried along, one packet for
  each batch failed in a row. For `EachSpanOnce` the length of the buffer is a sum over a
  sequence, which exists for every length and grows by what is appended; and what
  went unanswered is still in the buffer or was taken when it was sent again.
- *RemoteReporter.* `OneSenderUser` follows from `CloseOrder` (only the call that
  has cleared `_running` ever waits or flushes; it flushes when the sweeper has
  stopped), `CloseFlushes` from that and `EarlyOnItsWay` (what was queued in time
  is queued, in hand or with the sender, and with the sender once the sweeper has
  stopped). `EachReportedOnce` is what makes every `append` one of a new span, so
  each step of the reporter is a step of `ThriftSender!Next` or a stutter
  (`SenderContract`), and the sender's invariant can be taken over from
  `ThriftSenderProofs` by instantiation (`BatchesFit`) and need not be proved again.
  For `KeepsOrder`, moving a span from one place to the next leaves what is
  pending as it is; a batch that goes out is a prefix of it (`PrefixDelivered`), and stays one if it
  went unanswered (`PrefixRepeated`); a span that `append` gives up is taken out of
  its middle (`MiddleLost`), and has not gone out: it was never in the buffer.
- *TracerLifetime.* Its programs take no steps but the reporter's
  (`AliveStep`), so the reporter's invariant holds in them. A program that closes
  its tracer has the sweeper stopped before it lets go (`StoppedBefore`): a call that has
  returned at once has found `_running` cleared by another call, which is not the
  destructor's while the handle is held and which has therefore joined the
  sweeper. Without the two hypotheses of `ClosingIsSafe` (the program closes, by
  some call other than the destructor's) it is false, as `tracer_released` shows.
- *SpanLifecycle.* `OneFinisher`: at most one thread has got past the test of
  `isFinished()`, and the counts are behind it by where it is; `SampledAsFinished`
  ties a later change of the sampling to `resampled`.
- *RateLimiter.* For each call there is a bound on what has been granted since
  it, in terms of the balance; capping and refilling keep it. A refusal is due to the
  last moment at which the balance was full.
- *SamplerPolling.* `SamplingInv` says what a poll must not lose: each kind of
  sampler has rates in range (`SamplerShape`), and the operations of the last
  answer are tracked as it says (`LastApplied`), so the same answer again finds
  nothing to change. At most one call of `close()` gets past the test of
  `running`, and it returns when the thread has stopped (`OneCloser`): that makes
  each step one of `PollUntilClosed` or a stutter, with the calls counted in
  `polls` (safety; that closing ends is liveness). The same for the restrictions.
- *SpanStart.* The one loop of `analyzeReferences` is a fold over the list; by
  induction over its turns it has found the first parent or else the last
  reference that follows (`CandidateIs`, `ParentIs`). For `TraceShared` one has to
  know where a parent comes from: it was received, or is a span of this tracer, or
  such a span handed on (`ReferenceKnown`, `ParentKnown`), and what each format keeps
  on the way (`HopIs`): which items there are after keys have been put in lower case
  and those that became equal merged (`MergedIs`, `MapIs`), and what a header for
  debugging adds (`DebuggedIs`). A plain item comes as it was because its value does
  (`ValueSurvives`, below) and no other item has its key.
- *URI and QueryEscaping.* `RoundTrip` is false of all values, as `query_escape` shows;
  `AsciiSurvives` says of which it is true, as the values that the steps of
  QueryEscaping make, and `ValueSurvives` of any value of a context. Escaping and scanning one character
  more are a step on what was there (`EscapeAppends`, `ScanAppends`, by induction
  over the positions), a character in 16..127 is written with two digits that
  read as it (`CharRoundTrip`), and induction over the length adds that the scan of the
  value so far ends between two escapes.
- *RecursiveSharedMutex.* The counts the class keeps are those its callers were
  given; a writer has the base mutex, a reader a share of it or the one note
  that it stepped back; at most one thread is between stepping back and coming
  back, and it has dibs. `Exclusion` and the refinement of `ReadWriteLock` follow.

- *Side by side.* Each part takes only its own steps (`EachPart`, `EachProgram`),
  so what is proved of a part's specification holds of the composition.

*Induction over data.* The library's induction theorems take an operator as a
parameter, which the provers at hand cannot instantiate. `InductionLemmas`
therefore proves induction for a set instead (`SetInduction`: a set that has 0, and
with each number the next one, has every number), from the well-foundedness of
strict inclusion of finite sets, and on it `SubsetInduction`, the existence of
extremes, and that a finite set can be folded (`FoldExists`). A recursive function
or a fold is a CHOOSE: its equation may be used once a function that satisfies it
has been shown to exist.

Only model-checked: what rests on fairness (`WorkFinishes`, `EventuallySent`,
`CloseReturns`, `Destroyed`, `SampledIsReported`, `EveryCallReturns`, and that
`close()` returns in `CloseEndsPolling`), which TLAPS does not reach.

## 5. Plan

1. (done) The chapters' own stateful code: `ItemStateMachine`, `RoutineWork` with
   `ProducedOnce`, `VisitedMerchants`, `CustomerReviewStore`, `ItemGallery`,
   `ArrayValue`.
2. (done) The tracer: `ThriftSender`, `RemoteReporter` under `SpanChannel`,
   `TracerLifetime`; spans, their start and their propagation; samplers, limiter
   and restrictions under `PollUntilClosed`.
3. (done) The access lock under `ReadWriteLock`, and its timed calls.
4. (done) Proofs of every invariant and action property of the passing runs.
   Next: what of `Exclusion` remains with the timed calls of `TimedMutex`.
5. A span's start composed with its lifetime, so that unfinished spans of a tracer
   come and go in `TracerLifetime`.
6. The asynchronous lock pointers of SaferCPlusPlus on top of the access lock.

## 6. Not modelled

- *SaferCPlusPlus' containers, pointers and scope types* (by far the most lines of
  the repository): the chapters use one of them, a vector, through its index
  check, which is in `VisitedMerchants`. The rest is checked wrappers
  around the standard containers, template by template; a model would have to be
  of the standard library instead.
- *Customer service*: requests share nothing but the tracer, which is modelled; the
  end of its `main()` is `tracer_released`.
- *Temperature search, memory resources*: functions on fixed input, with no state
  that outlives a call; what they do is in the list above.
- *Fluent builder, document factories*: each call sets one field of a temporary,
  or fills a map once and looks it up once.
- *Redis, gRPC, S3*: synchronous requests, or straight-line use of a completion
  queue; what is hard in them is in libraries or services that are not here.
- *Configuration, design illustrations, microbenchmarks, tests.*
- *Of jaeger-client-cpp*: generated Thrift types, HTTP and YAML parsing, metrics
  and loggers. Of the metrics, what the accounting properties need is kept.
- *The transports*: UDP takes a datagram whole or throws, and the network may still
  lose it, which nobody learns. An HTTP request that is cut off in the middle counts as
  not gone out, though the rest of the connection's bytes may then make no sense to the
  collector, and what a collector does with a span it gets twice is its own affair.
- *Of the baggage in Jaeger's headers*: how the commas and equals signs of
  `jaeger-baggage` are split, so its items come as they are listed; names of headers
  that the program configures, which are those of the library throughout.
- Threads that die, and memory that runs out other than in `ArrayValue`, are not
  modelled. `PROJECT.json` gives the reason for each component.
