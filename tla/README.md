# Verification of bt-servant-signal-gateway

The gateway connects a Signal account to the bt-servant worker. Inbound messages come from
the signal-cli daemon over an SSE stream and are posted to the worker; the worker answers
with HTTP callbacks, and the gateway sends what they carry through signal-cli. It is one
Python process on one asyncio event loop: every interleaving happens at an `await`, and
between two awaits a coroutine runs alone. The modules here use exactly that granularity:
one action is the answer to one await and the code from there to the next one.

All source paths below are relative to `src/src/bt_signal_gateway/`.

## Inventory

| part | state | operations | talks to | what makes it correct |
|---|---|---|---|---|
| `callback_server.py` | `app.state.in_flight`, the dedup cache | `progress_callback`, `_deliver_and_mark` | worker (HTTP in), dispatch | one delivery of a reply at a time; a delivered reply is not repeated; a failed one can be |
| `dedup.py` | `_entries`, `_last_sweep` | `is_completed`, `mark_completed`, lazy sweep | monotonic clock | a key counts exactly until its time to live ends, whatever was swept |
| `dispatch.py` | locals of a delivery | `dispatch_callback` and its steps | media host, signal client | voice or text but not both; True means the user has everything |
| `signal_rate_limit.py` | `tokens`, `refill_rate`, `last_refill` | `acquire`, `report_rpc_duration`, `feedback`, `estimate_wait` | all media sends | the bucket never promises what the account does not have |
| `signal_client.py` | uuid caches and their lock, HTTP client | `_rpc`, `send`, `send_attachments`, `send_voice_note`, `send_reaction`, `get_attachment`, `_resolve_recipient`, `markdown_to_signal` | signal-cli | True means sent; retries end; the recipient is the person asked for |
| `signal_listener.py` | `_response`, `_last_activity`, `_backoff`, `_wakeup` | `_consume_forever`, `_stream_once`, `_health_monitor` | signal-cli (SSE, check) | always back to a stream; backoff cut short for a reason only |
| `app.py` handler, `engine_client.py` | locals of the relay | `_relay`, `submit` | listener, worker (HTTP out) | at most once, in order, never stuck |
| `media.py` | temporary files | downloads, decoding, audio fetch | media host, signal-cli | file, nothing, or an exception |
| `envelope.py`, `chunking.py`, markdown | none | `parse_envelope`, `chunk_message`, `markdown_to_signal` | | gates that hold; no letter lost; styles on their characters |
| `app.py` `run` | tasks, stop event | start, first task to end, drain | all | clients closed last, every shutdown ends |
| `config.py`, `logging_config.py`, container files | none | | | |

How they interact: listener --(awaited handler)--> relay --(POST)--> worker --(POST
/progress-callback)--> callback server --(background task)--> dispatch --> signal client
--> signal-cli. The listener, the relay and every delivery share the event loop and the
`SignalClient`; every delivery shares `in_flight`, the dedup cache and the process-wide
token bucket.

What is hard: deliveries of repeated callbacks racing each other and their own marking;
the time to live with a lazy sweep; failures in the middle of a delivery; calls that were
given up and happen all the same; a restart, which forgets everything; senders sharing a
bucket that only simulates the one on the server; a listener and a monitor that read and
write each other's state on both sides of an await. `PROJECT.json` lists each hazard at
its line with the properties that watch it.

## Modules

| module | models | extends |
|---|---|---|
| `CompletedKeys` | `dedup.py` | |
| `CallbackServer` | `callback_server.py`, `dispatch.py`, `_rpc` as outcomes | `CompletedKeys` |
| `ReplyLedger` | what the callback server promises (abstract) | |
| `CallbackServerProofs` | theorems about `CallbackServer` | `CallbackServer`, `TLAPS` |
| `AttachmentScheduler` | `signal_rate_limit.py`, the media sends of `signal_client.py`, the bucket of the server | |
| `AttachmentSchedulerProofs` | theorems about `AttachmentScheduler` | `AttachmentScheduler`, `TLAPS` |
| `SignalListener` | `signal_listener.py`, signal-cli as it comes and goes | |
| `InboundRelay` | the handler of `app.py`, `fetch_inbound_audio`, `get_attachment`, `EngineClient.submit` | |
| `RecipientCache` | `_resolve_recipient`, `remember_identifiers`, the lock across listContacts | |
| `Gateway` | `run` with both halves, the reactions, where replies go, supervisord | `RecipientCache`, an instance of `InboundRelay` |
| `InboundRelayProofs` | theorems about `InboundRelay` | `InboundRelay`, `TLAPS` |
| `RecipientCacheProofs` | theorems about `RecipientCache` | `RecipientCache`, `TLAPS` |
| `GatewayProofs` | theorems about `Gateway` | `Gateway`, `RecipientCacheProofs`, an instance of `InboundRelayProofs` |
| `Text` | texts whose characters know where they come from | |
| `Chunking` | `chunking.py` | `Text` |
| `BodyRanges` | `markdown_to_signal` | `Text` |
| `EnvelopeFilter` | `envelope.py` | `Text` |
| `Media` | `media.py`, the choice of a voice file in `dispatch.py` | |
| `TextFunctions` | one call of one of these functions | the four above |
| `CallbackMediaProofs` | theorems about what `CallbackServer` shows the user | `CallbackServerProofs` |
| `SignalListenerProofs` | theorems about `SignalListener` | `SignalListener`, `TLAPS` |
| `TextFunctionsProofs` | theorems about chunking, markdown, mentions and media | `TextFunctions`, `TLAPS` |
| `MCCallbackServer`, `MCAttachmentScheduler`, `MCGateway`, `MCTextFunctions` | callbacks, jobs, envelopes and inputs for the runs | |

Definitions named `...Bare`, `...Late`, `...IfMarked`, `...Uncapped` and the like, which
stand directly before the definition they resemble and are not used by `Next`, are
variants of it with a plausible bug; each property is checked to fail with one of them.

### CompletedKeys and CallbackServer

`entries`, `lastSweep`, `now` are `_entries`, `_last_sweep` and the clock. `IsCompleted`
and `MarkCompleted` include the sweep, as in the code. `inFlight` is the reservation set;
`tasks[n]` has the locals of the background task that request n scheduled and the await it
is at (`pc`). `Handle` is the handler of a request, which is synchronous once the body has
been read: `FireAndForget` (progress, error), `DropDuplicate`, `ScheduleComplete`. The
steps of a delivery are `FetchVoice`, `SendVoice`, `SendChunk`, `FetchAttachment`,
`SendAttachments`, `SendFallback` and `React`. `React` (or an exception, `Raise`) ends it,
and for a complete reply `EndTask` marks and releases in the same step, as
`_deliver_and_mark` does with no await between. `NoWorkspace` is the exception raised
before the first await. A call to signal-cli that is not acknowledged may still be carried
out later (`late`, `LateArrival`), after a restart too.

A text is its number of chunks, a media item present or absent. Refused requests and
`status` callbacks read no state and are stuttering. History: `arrived`, `done`, `boot`,
`delivered` of a task, and `shown`, what the user's client has been given.

### AttachmentScheduler

`bucket` has `tokens`, `refill_rate` and the time since `last_refill`. Tokens are counted in
units and time in ticks so that a rate is a whole number of units per tick. The lock is
never held at an await and so is no state. `Acquire` is one pass of the loop in `acquire`;
`Submit`, `NoticeSent`, `Wake`, `Retry`, `RpcSucceeds`, `RpcFails` and `RpcLimited` are the
awaits of `send_attachments` and `_send_attachment_batch`. `account` is the bucket of the
server (external): checked when an RPC starts and not refilled during an upload, as
signal_rate_limit.py:286-287 says. `synced` (history) is TRUE once the
bucket started from a known state of the account at no more than its rate, `drifted` (history)
once a refill has counted in the time of an upload: during the upload of another send
(`RefilledBy`), or after one that failed and so was not reported (`Unreported`). `Backoff`
is `2.0 ** attempt` (a constant, so that the proofs need not know it); `ahead` (history) has
who was already asleep in `acquire` when a sender fell asleep.

### SignalListener

`consumer` is where `_consume_forever` is, `monitor` where `_health_monitor` is, with what
is left of their sleeps in seconds; `response`, `idle`, `backoff`, `wakeup` are the fields
of `_Listener`. The daemon dies, starts (ready or not), hangs and recovers at any time.
A timer may always expire late. Cancellation is in `Gateway`.

### InboundRelay

`stream` are the messages not read yet, `relay` the locals of the handler. The handler is
awaited by the listener, so there is one. A request that was given up is lost, taken in, or
arrives later (`late`). `Stopped` and `StreamLost` lose what was not read.

### RecipientCache and Gateway

`uuidByNumber`, `holder` and `queue` are `_uuid_by_number` and the asyncio lock with those
in line for it; `client[p]` is the call that task p has out: `lock` (in line), `contacts`
(listing, holding the lock) or `rpc` (the send or reaction itself, to `to`). An asyncio
lock hands over in order and is released when its holder fails or is cancelled, hence
`queue` is a sequence and `Abandon` a step of its own. `told` (history) are the pairs of
number and id that signal-cli has reported, in an envelope or in a list of contacts.

`Gateway` puts the two halves into one process around one `SignalClient`. The relay is an
instance of `InboundRelay` on shared variables (`Inbound`): where that module has "a
reaction is requested, and answered", `Relays` and `EyesAnswered` say what the client does
meanwhile. A delivery is one text and, unless it is progress, one reaction; what becomes of
its parts is in `CallbackServer`. `phase` is where `run` is: `running`, `stopping` (the
listener cancelled, `should_exit` set), `draining` (the server listens no more), `closed`;
or `killed`, by a crash or by supervisord. `mark` is the reaction the user sees. A 👀 that
failed may have been given up after its timeout and be carried out later: it stays in
`limbo` until that happens, if ever, and what it leaves is marked `overdue`, so that
`FinalReactionStays` can tell it from one that was in time.

### Text functions

A character has a kind and `at`, its place in the input, so that a property can follow each
one through the output; no function reads `at`. `job` is an input, `result` what the function
makes of it. `BodyRanges` records with a style the characters it was found for (`of`), which
nothing reads either; `StylesCoverContent` compares them with those its offsets cover in
UTF-16 units. The results of `Chunking` and `BodyRanges` were compared with those of the
Python functions on 100,107 inputs of these kinds, the ones of `EnvelopeFilter` on 40,824
envelopes: no difference.

## Runs

| run | configuration | shows |
|---|---|---|
| `callback_time` | 2 keys, 4 requests, Ttl 2, sweep interval 1, horizon 3, 1 restart | exact reservations, exclusion, once per time to live, sweep invisible, ledger implemented |
| `callback_media` | one callback of every shape, 2 requests, 1 restart, 1 late call | only complete replies remembered, voice suppresses text, reservations released |
| `shared_key` (violation) | two users, one timestamp | the reply to the second is dropped |
| `voice_fallback` (violation) | media step raises | the text is not tried |
| `scheduler` | jobs <<2,1>> and <<2>>, bucket of 3, real rate half the assumed one, unknown start | after the first hinted 429 no further one without drift; True means all sent; sends end |
| `scheduler_upload` (violation) | a batch and a voice note, right rate | upload time is credited, a 429 follows |
| `scheduler_fifo` (violation) | a full batch and a voice note | the later one is served first |
| `listener` | the delays of the code in seconds | backoff cut short for a reason, stream restored, stalled stream broken |
| `listener_force` (violation) | the same | a stream that is not quiet is closed |
| `relay` | 3 messages, 2 with audio, 3 attempts | at most once, in order, never stuck |
| `gateway` | a direct and a group message of one person, a progress and two final callbacks, two numbers in the contacts, 1 restart | right person, right chat, exact lock, final reactions stay, orderly shutdown |
| `text` | texts of up to 7 characters with limits 1 to 4; markdown of up to 5 of 10 tokens, or of 6 fences, ticks, letters and newlines; data, edit and sync envelopes with every sender, group, mention, age and setting of a small set; 2 attachments; downloads of up to 3 parts | chunks fit, letters and words kept, styles right, mentions right, media whole |

**Why the bounds are enough.** A dedup hazard needs two requests for one key and one for
another (whose access sweeps), a delivery in between, a restart, and time to pass the
expiry: four requests, horizon Ttl + 1 and a sweep interval below Ttl have every order of
those. The media run needs every outcome of every step and two concurrent deliveries; the
clock can stand. Two keys let an access to one sweep the other. The bucket of three cannot
serve two batches of two at once; a job of two batches has a batch after a failed one; two
attempts is the constant of the code. The listener runs with the constants of the code.
Three messages let one overtake another while a third waits. Bounds (`MaxRequests`,
`MaxRestarts`, `Horizon`, `MaxLate`) are constants, guards name them, and the proofs hold for
all of their values. The callback runs do not check deadlock: a bounded run ends.

In `gateway` three deliveries and the relay are four tasks on one lock: one lists, one is
next, one is behind it and one is not in line. The direct message comes from a number alone,
so that it has to be looked up; the group message comes from the same person under a service
id, so that the two mappings meet; the second contact is somebody else. A restart follows a
clean end or a kill. `text` has words longer than a limit with every remainder, and patterns
nested and overlapping. Neither checks deadlock: `gateway` ends when its restarts are used
up, `text` when there is a result.

**Fairness.** Every task of the event loop is run on when its await has ended, and every
await has a timeout (30 s; 60 s for media; 5 s for checks) or is a sleep, so each task has
weak fairness: `Step(n)` of each delivery, `Step(s)` of each sender, `Consume`, `Monitor`,
`Relay`, and the clock `Tick`; in `Gateway` the reaction of the relay and the calls of each
delivery, each with the resolution of its recipient, and `run` on its way from `stopping` to
`closed`. No fairness for requests, restarts, late arrivals, lines of
the stream, or the daemon. Connecting has no timeout: in `Consume` it waits for the daemon
to answer or refuse. `StreamRestored` assumes the daemon up from some time on. `SendEnds` is
about finitely many rivals; an endless run of small sends can starve a large one.

## What is proved

`CallbackServerProofs` proves, for all keys, callbacks, times to live, sweep intervals and
bounds (`DedupAssumption`, `CallbackAssumption`): `TypeCorrect`, `ReservationsExact`,
`MutualExclusion`, `AtMostOncePerTtl`, `CacheSwept`, `TimeForgets` and `Refinement`
(`CallbackServer` implements `ReplyLedger`).

None of these properties is inductive alone. The invariant `IInv` adds to the type: how far
a task of each type can be and that only an ended complete one is delivered (`Placed`);
that reservations and running deliveries correspond (`Reserved`); that of two deliveries of
a key in one run of the process the earlier has ended (`Serial`) - the new one was
scheduled when its key was not in flight; that the cache still has every delivery of this
run whose time to live has not passed, with an expiry no earlier than that (`Remembered`) -
without it the once-per-TTL property says nothing about what the next request will find;
and that a reserved key is not completed (`Exclusive`). Lemmas first say what each
operation of the cache does as a whole (`IsCompletedEffect`, `MarkCompletedEffect`, ...),
then what each kind of step does (`HandleEffect`, `StepEffect`), and the invariant is
preserved by kind of step. `CacheSwept` is an invariant of the cache by itself. The
refinement maps `ScheduleComplete` to `Begin`, the end of a delivery to `Finish`, a tick to
`Forget` of the keys whose time is up, a restart to `Restart`, all else to a stutter.

`AttachmentSchedulerProofs` proves, for all senders, jobs, rates, bucket sizes and backoffs
(`SchedulerAssumption`): `SchedulerTypeCorrect`, `TrueOnlyIfAllSent`, `BucketTrustworthy` and
`NoFurther429`. The last two are about the server of signal_rate_limit.py:284-289, whose bucket
stands still during an upload, and about a bucket that has not `drifted`: `scheduler_upload`
shows that one that has may run into a 429. The invariant `SInv` adds to the type that a
batch under way is one of the job's, that a call that is done has none left and one that
backs off has an attempt left (`InRange`); that as long as `all_ok` holds, every batch before
the one under way was sent (`AllSent`); and that a bucket to be trusted refills no faster
than the account (`Credit`) - without the rate the credit would be lost at the next tick.
While something is uploaded only the tokens are there, not what a refill would give; the
report at the end of the upload throws that away (`ReportedType`).
Every step but a tick and a backoff lets one sender go on from some bucket, so lemmas say
once what that does (`Advances`, `AcquireEffect`, `BeginBatchEffect`, `AdvancePreserves`) and
each step names only the bucket and the locals it goes on with. `TickCredit` is the
arithmetic of a tick without an upload: what a refill would give grows by no more than the account does.


`InboundRelayProofs` proves, for all messages and numbers of attempts (`RelayAssumption`):
`RelayTypeOK`, `RelayAtMostOnce`, `RelayInOrder`. The invariant `RInv` says that what the
worker has, may yet get or has acknowledged is `Past`: it arrived before what is being
relayed and before all that is still on the stream. That is why a message cannot come to
the worker twice, or after a later one that was acknowledged; a late request is the only
one for its message, which was not acknowledged (`LateOnce`). `GoesOn` is what every step
but an arrival and the reading of a line does to the relay.

`RecipientCacheProofs` proves, for all tasks, numbers, ids, groups and lists of contacts
(`CacheAssumption`: these are apart, and a list is a sequence of contacts):
`CacheRightPerson`, `CacheLockExact`, `CacheNoNeedlessLookup`. `CacheInv` adds to the
properties that whatever the cache has for a number was reported for it (`Known`). The line
of the lock has its lemmas (`JoinLine`, `LeaveHead`, `LeaveLine`), and every action moves one
task (`Moves`), which `MovesPreserve` shows to be harmless.

`GatewayProofs` proves, for all messages, envelopes, callbacks and restarts
(`GatewayAssumption`), that every step of the composition is a step of `InboundRelay`
(`GatewayRelays`) and of `RecipientCache` (`GatewayUsesCache`) or leaves them alone, so that
what is proved of them holds in the gateway; then `GatewayTypeOK`, `GatewayClosedLast`,
`GatewayAnswersWhereAsked` and `GatewayFinalReactionStays`. `GInv` adds to both invariants
which call belongs to which step of a delivery (`OwnCalls`), that nothing is underway when
the process is gone (`Settled`), and that the worker has every message that is answered
(`WorkedOn`) while it has not yet the one being relayed: hence no 👀 comes after a ✅.

`CallbackMediaProofs` proves, for the same constants as `CallbackServerProofs`,
`CompletedShown` and `VoiceInsteadOfText`. What a delivery decides on are its locals, what
counts is what the user has been shown; `MInv` ties them. `Told` says what each local means
at each await: that what it calls sent is shown, and how far the chunks and files are.
`Mute` says that nothing of a reply whose voice note was acknowledged is, or is on the way
to be, shown as text: it speaks of `shown` and of `late`, since a call that was given up may
still be carried out. `Cached` says that a remembered key has a delivery that was told
to be whole. Messages only ever get more, so each step has to be looked at for its own task.

`SignalListenerProofs` proves, for all delays (`ListenerAssumption`), `ListenerTyped` and
`OnlyAnAnswerWakes`. The invariant adds to the type `Awake`: between the start of a backoff
and its end `_wakeup` is set only by a check that was answered meanwhile. It holds
because `BackOff` clears the event before it waits.

`TextFunctionsProofs` proves, for texts, downloads and attachments of any length and any
limit (`JobAssumption` gives their types, `NothingAssumption` sets nothing apart from them),
`ChunksBounded`, `AllLettersKept`, `WordsStayWhole`, `StylesOnContent`, `CodeLiteral`,
`MentionsShown`, `MentionsHeard`, `WholeFile` and `AudioCapped`. The state machine is one
step, so `ResultInvariance` only says that a result is that of the function; the work is in
the functions. Each loop of the code is a function defined by what it was one step earlier,
hence a `CHOOSE`, and `FoldExists` shows that such a function exists; it rests on `UpTo`,
induction up to a number, which is stated over a set instead of an operator and follows from
`WFMin`, that a well-founded relation has minimal elements. For each loop there is one lemma
with what it starts from and what a step does (`ReadLoop`, `FlattenLoop`, `SplitLoop`,
`PackedLoop`), and the rest is induction along it. `ChunksBounded`: `Packing` is what holds
after every segment and every word, that what is finished fits and is not empty and that what
may grow fits. `AllLettersKept`: `Letters` distributes over concatenation (`LettersJoin`, by
the ranks of positions); whatever cuts a text leaves parts with only other characters between
them (`PartsKeep`), which `RunsKeep` and `RawSentencesKeep` show of `re.split` and of the
sentences by how consecutive positions of `Ascending` leave no gap (`AscendingGaps`); and each
step of packing adds exactly the letters of its word or segment to `Weight`. `WordsStayWhole`: down
to the segments a word is followed with its beginning, that it stands in a part of the text and
nothing solid in front of it (`HasWord`), since a piece of an overlong word begins
there as well; from then on it only has to stand somewhere (`Shows`), because texts are
joined and no longer cut. That cutting a paragraph into sentences leaves words whole needs
`Tailed`: in what comes behind a terminator no word goes on. `MentionsShown`: the mentions come
from the end of the text (`FromTheEndSorts`: sorting them is a permutation with falling
starts), so that a splice finds the text in front of its mention unchanged (`SpliceInFront`);
the loop has, at each mention, rendered what is behind it, and in the end `RenderMentionsIs`:
the text flattened from what is shown of each character (`Display`). `MentionsHeard` follows
since the rendered text shows the account if and only if the text did or a mention is rendered as
the account (`ShowsAccountIff`). Both are about envelopes whose mentions stand on
placeholders of their own (`WellPlaced`), with offsets in UTF-16 code units as Signal counts
them, and have no emoji in front of them (`NarrowBefore`): up to a mention the offset is then
the number of characters (`OffsetsAre`), which is what the code takes it for.

`StylesOnContent` and `CodeLiteral` follow a text through the phases of `markdown_to_signal`.
At every point it is a sequence of characters of the input with growing places
(`Increasing`), and behind the last block replaced (`h`) nothing is missing between two
neighbours but newlines that follow newlines (`Follows`): so a fence found there is a fence
of the input (`FenceMoves`). One invariant per loop: after each code block the styles are on
their places, no fence stands before `h`, and the last block ends there
(`Blocked`); after each heading the text so far is put together from parts of
the one it is taken from, and the styles of code, all in front of the first heading, stay
where they are (`HeadingsGone`). Here the three excluded shapes are needed: a heading in front
of code or in it would move recorded offsets (`Behind`), ticks at the end of code would make a
block across another (`NoTickBehind`), and a heading whose text is the next heading would be
put out twice (`HeadingIs`).
The inline matches are apart from one another and from code (`TakenRange`), so that
what the removals leave keeps its code whole (`CodeLiteral`) and `_adj` is the rank of an
offset among the kept positions (`AdjustedIs`). An offset in code units is then a position
plus the number of emoji before it, which grows strictly: a range of units covers exactly
the positions between its ends. `RightlyOn` is what both theorems take from that.

Every safety and action property of a passing run is a theorem. Only model-checked: liveness
(`ReservationReleased`, `SendEnds`, `StreamRestored`, `StalledStreamBroken`, `StreamMovesOn`,
`StopEnds`), which the prover does not do, and that the five runs that expect a violation
find one.

## Disagreements found

Five runs show the code doing other than its documentation says: the dedup key is shared
between users (`shared_key`), a raising media step skips the text (`voice_fallback`), upload
time is credited when sends overlap or fail (`scheduler_upload`), acquires are not first
come first served (`scheduler_fifo`), and the health monitor closes a stream on a stale
measurement (`listener_force`). `PROJECT.json` quotes the lines.

Seven more were met while modelling and have no run of their own. The first four are cases
which the properties leave out, each by an operator of its own in their precondition; `text`
finds each of them if that conjunct is dropped.

- A line that looks like a heading, in front of a fenced code block or in it
  (`HeadingUpToCode`). The range of the code is recorded first (signal_client.py:112), and then
  the heading phase (114-130) goes over the whole text, the code included. In code it strips
  "# " and makes the rest of the line bold, although "already-extracted code content" must
  "stay literal" (148-151) and "Fenced code content must not be re-parsed"
  (tests/test_signal_client.py:170; the tests have no `#` in code). In both places it moves the
  text under the recorded range, although 96-97 normalises "so later operations don't invalidate
  recorded offsets". For "```\n# x\n```\nabc" the result is "x\nabc" with `0:1:BOLD` and
  `0:3:MONOSPACE`, which covers "x\na"; a range that then reaches beyond the text is dropped.
- A heading marker alone on its line, in front of another heading (`HeadingOfHeading`): `\s+`
  (115) takes the line's end with it, so that the text of the first is the second, which is put
  out twice: "#\n# a" becomes "# aa".
- A code that ends in one or two ticks, with a fence of more than three ticks behind it
  (`TickBeforeFence`): each search for a block (108) begins at the start of the text again, the
  text already taken out included, so that the code's last ticks and the next ones make a
  fence, and one block is read across the other. Two ranges then are where their code is not.
- An emoji in front of a mention (`NarrowBefore`): Signal counts in UTF-16 code units, as
  signal_client.py:87-88 says and `markdown_to_signal` does, but `_render_mentions` slices at
  the offset by code points (envelope.py:78-81). The tag then lands behind the placeholder,
  which stays, in the place of another character or at the end.
- `is_audio` and `_audio_format` go by the file name also if a content type is there
  (media.py:107, 130), so that a video called clip.mp4 is relayed as audio; media.py:61 says
  "fallback when contentType absent". `Media` models it as it is, and `AudioWithinCap` says only
  that nothing known as unsupported is relayed (`KnownUnsupported`).
- The terminators a paragraph begins with match neither alternative of `_SENTENCE_SPLIT`
  (chunking.py:21) and are lost if the paragraph has to be split; "3.14" becomes "3. 14".
- "Media on `complete` is delivered after the text", the voice note included
  (src/README.md:389), but `dispatch_callback` sends the voice note first, and the text only if
  that failed (dispatch.py:288-294). The code's own comment and its tests agree with the code,
  and so does `VoiceSuppressesText`. Only `attachments` come after the text.

## Not modelled

Left out of the modelled parts:

- a start that fails, and the exit status of `run`;
- file names (`_safe_filename`, `_target_name`) and temporary directories;
- that the account is found as a part of other tags too (envelope.py:95), such as a number
  that begins with its own: identifiers are model values, none of them part of another;
- carriage returns in `chunk_message`, and that it refuses a limit below one;
- in `markdown_to_signal`, language tags of other characters than letters and underscores;
- the quote and the display names of an envelope, on which nothing is decided;
- `remove_reaction`, which has no caller;
- what the worker does with a message.

Not planned: configuration, logging, container files (no behaviour of their own), wording
and formatting, TLS and HTTP themselves.
