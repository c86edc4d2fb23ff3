# Formal models of libzrtp in crypto_opal

The repository is a VoIP client stack: OPAL and PTLib (vendored), GmSSL and
libSRTP (vendored) and **libzrtp**, which negotiates the media keys. The
concurrent, timed and failure-prone logic of the product is in
`src/libzrtp/trunk`; these models are about it. Paths below are relative to
`src/libzrtp/trunk` unless they begin with another directory of `src/`.

Contents: [inventory](#inventory), [modules](#modules),
[runs](#runs-what-each-checks-and-shows), [bounds](#bounds-and-why-they-are-enough),
[fairness](#fairness), [proofs](#proofs), [findings](#findings),
[limits](#what-is-not-modelled), [plan](#plan).

## Inventory

A process has one `zrtp_global_t`, with one scheduler thread. A session
(`zrtp_session_t`, a call) has up to `ZRTP_MAX_STREAMS_PER_SESSION` streams
(`zrtp_stream_t`, audio and video). The application runs media threads that call
`zrtp_process_rtp`, `zrtp_process_srtp` (and the RTCP pair), and user threads
that start, secure, clear and stop streams. All of them and the scheduler thread
work on the same stream.

| component | state | operations | talks to | what is hard | correct means |
|---|---|---|---|---|---|
| scheduler (`src/zrtp_iface_scheduler.c`) | sorted list of delayed calls, list mutex, counting semaphore, `_is_enabled`/`_is_busy` per task, `is_running`, `is_working` | `on_call_later`, `on_cancel_call_later`, `on_wait_call_later`, `init`, `down`, `sched_loop` | called by every state handler; calls the retry callbacks | interleaving of clients with the loop, a semaphore decremented from two sides, shutdown | no lost wake-up, order, nothing runs for a stopped stream, stop and down return |
| handshake (`src/zrtp_engine.c`, `zrtp_initiator.c`, `zrtp_responder.c`) | stream state (17 states here), mode, peer messages, retry tasks | user calls, one handler per message and state, retry callbacks | scheduler, protocol, session (`zrtpsess`), network | lost, duplicated, delayed and stale messages, simultaneous Commits, timers firing while they are cancelled | both sides secure with one confirmed, fresh key; one initiator, one responder; every wait ends |
| protocol context (`src/zrtp_protocol.c`) | `stream->protocol` (role, keys), retained secrets of the session | init, destroy, set public value, key derivation, process Confirm, roll-over of secrets | handshake, cache, SRTP | destroy cancels all timers; secrets rolled over at different times on the two sides | role fits state; secrets of both sides match again after a loss |
| message helpers (`src/zrtp_utils.c`) | RTP sequence estimate | build, send, parse, cancel | network | sequence number wrap | index estimate right within half the range |
| mode and concurrency (`src/zrtp_utils_proto.c`) | states of the session's streams | choose mode, `_zrtp_can_start_stream`, find concurrent stream | handshake of other streams | Commits that cross on two streams; reads other streams without their mutexes | one DH or Preshared exchange at a time, one session key, no stream waits for ever |
| contexts (`src/zrtp.c`) | lists of sessions and streams, their mutexes | init, down, session init/down, attach | all | lock order, teardown while callbacks run and other sessions are walked | no ring of locks, nothing used after it is freed |
| secrets cache (`src/zrtp_cache*.c`) | rs1, rs2, MitM secret, verified flag by ZID pair; a file updated in place | get, put, set flags, store | protocol | crash or failed write inside a store; crash between the two endpoints' updates | the file has what was last stored, no replaced secret comes back; both sides pick the same secret; no false alert |
| SRTP (`src/zrtp_srtp_builtin.c`, or `libsrtp-master`) | newest index of each direction, replay nodes by SSRC in two lists shared by all streams | protect, unprotect | media threads | wrap of the sequence number, window edge, nodes shared and freed by other threads | both sides give a packet one index; it is accepted at most once, and none inside the window is refused |
| PBX, SAS relay (`src/zrtp_pbx.c`) | enrolment state, relay task | enrol, relay SAS | handshake in SECURE | another message exchange over SECURE | relayed SAS of the right call |
| OPAL glue (`opal-3.10.11_arm/src/zrtp`, `.../rtp/zrtpudp.cxx`) | session per RTP session | filter packets, start, stop | libzrtp | thread lifetime | stop before destroy |
| crypto, RNG, strings, encodings, SDES, logs | mostly none | pure functions | all | big-number arithmetic | out of TLC's reach |

`PROJECT.json` lists these with their status, and under `hazards` the places at
which a test would hardly find an error.

## Modules

| module | models |
|---|---|
| `ZrtpScheduler` | the scheduler thread, the client threads, cancellation, stop and shutdown, in one life of the library |
| `ZrtpSchedulerLives` | `zrtp_init` and `zrtp_down` in turn, and the threads of `sched_loop` they leave behind |
| `ZrtpHandshake` | the state machine of two endpoints with one stream, their timers, and a network that loses, delays, duplicates and reorders |
| `ZrtpAgreement` | what the handshake promises, without any message |
| `ZrtpStreams` | several streams of one session: which may run, which wait, ties between streams |
| `ZrtpSessions` | sessions, streams and the four kinds of mutexes around them in one process |
| `ZrtpSecrets` | the retained secrets of two endpoints over many calls |
| `ZrtpCacheFile` | the cache file, with crashes, failed writes, and writes that are lost unnoticed |
| `ZrtpSrtp` | packet indexes, replay windows and the nodes that hold them |
| `ZrtpScheduler_proofs`, `ZrtpHandshake_proofs`, `ZrtpKeys_proofs`, `ZrtpStreams_proofs`, `ZrtpSessions_proofs`, `ZrtpSecrets_proofs`, `ZrtpCacheFile_proofs`, `ZrtpSrtp_proofs` | theorems; `ZrtpKeys_proofs` has those about the keys of the handshake |
| `MCZrtp...` | instances for TLC |

They meet at these seams. A handshake step in `ZrtpHandshake` has the timers that
`ZrtpScheduler` serves; `ZrtpStreams` takes the exchange of one stream as a few
steps and adds the others; `ZrtpSecrets` takes from an exchange only what reads
and writes retained secrets, and its cache entry is a peer's entry of
`ZrtpCacheFile`, whose loss after a crash is `LoseCache` there; `ZrtpSrtp` starts
where the handshake enters SECURE and ends where it leaves it; `ZrtpSessions` has the
locks that the steps of all others take. The composition that is stated as a
refinement is handshake to agreement.

### ZrtpScheduler

`tasks_head`, `count`, `protector`, `is_running`, `is_working` are the fields of
the scheduler; `is_enabled[s][t]`, `is_busy[s][t]` those of every
`zrtp_retry_task_t`; `stream_protector[s]` is the mutex of a stream. `pc` is the
place of a thread, which is cut wherever another thread can come in: at every
lock and unlock, every semaphore operation and every access to a shared flag
outside a lock.

| action | code |
|---|---|
| `StartTask` | `_zrtp_machine_start_send_and_resend_*`, which calls `zrtp_sched_call_later` |
| `ClientCancel`, `Stop`, `CancelLock`, `CancelScan` | `_zrtp_cancel_send_packet_later`, `zrtp_stream_stop`, `on_cancel_call_later` |
| `WaitNotBusy`, `Wipe`, `Attach` | `on_wait_call_later`, the end of `zrtp_stream_stop`, `zrtp_stream_attach` |
| `LoopStart` ... `ClearBusy` | `sched_loop`, statement by statement |
| `CallbackReturn`, `CallbackResend`, `CallbackGiveUp` | what a retry callback does to the scheduler |
| `DhCheck` ... `DhCommit` | `_initiating_secure`, the only callback that takes the stream's mutex |
| `DownStop`, `DownFree` | `zrtp_def_scheduler_down` |

Abstractions. Time is relative: `wake_at` is what is left of the timeout and
`Tick` lets a unit pass, so no bound on time is needed. A callback is what it
does to the list, the flags and the mutexes; what it does to the stream is in
`ZrtpHandshake`. Each stream has one client thread (the calls of several are
serialised by the stream mutex). No handler starts a task that is still in the list
(`TimersMatchState` of `ZrtpHandshake` shows that every state is left with its
timer cancelled). `zrtp_down` comes when all streams are closed, as
`include/zrtp.h:430-432` asks. The Linux build is modelled, with one semaphore
object per `sem_t`. `Started` names the calls that clients start; what callbacks
start is not bounded by it. `Over` is the end: the library is down and `sched_loop` has left.

The module is one life of the library. `zrtp_def_scheduler_init` looks neither at `is_working` nor for
an older thread, and `zrtp_def_scheduler_down` takes `is_working = 0` of a thread that has not started
yet for that of one that has left. So a `zrtp_init` may find a thread of the life before at its first
step, and set `is_running` under it. `ZrtpSchedulerLives` has this: any number of inits and downs, the threads of
`sched_loop`, and of the loop what touches the two flags, the semaphore and the mutex. The
properties of `ZrtpScheduler` are claims about one life, or about lives whose last thread has left.

### ZrtpHandshake and ZrtpAgreement

`ep[e]` has the stream's `state`, `pubkeyscheme` (which merges `stream->mode`),
whether the peer's Hello is known, the role of `protocol`, the nonce of the own
Commit (`hv`), the derived `key`, the session's `zrtpsess`, the seven retry
tasks `timer` (flag, `retrys`, how many calls are in the list) and `running`, the
task the scheduler has taken but not yet called. `net` is a set that only
grows: a handler may or may not find a message, as often and as late as it
likes, which is loss, delay, duplication and reordering at once; a resend adds
nothing to it.

Every handler of a message in a state is a disjunct of a `Receive...` action
(`ReceiveCommit` stands for six handlers, one for each group of states that treat
a Commit the same way). The state entry functions (`_zrtp_machine_enter_*`) are
operators on the record, so a handler is a composition of the calls the code
makes, in their order: `EnterPendingSecure` initialises the protocol, which
cancels all timers if one exists, then sets the state.

A key is named by what goes into its derivation and can differ between two
exchanges: the initiator, the nonce, and the session key. An exchange of type DH
has no nonce of its own, since `dhpart` and `hvi` are made once per stream.
`HashSession` is the hash of `zrtpsess` on GoClear. Confirms carry
the key whose HMAC they have; `Genuine` is the check of it. Error,
ErrorAck, HelloAck, Conf2Ack and GoClearAck carry nothing that ties them to an
exchange, and neither does the model's.

Two schedulings: `Spec` lets any handler run between the moment the scheduler has
taken a call from its list and the moment the callback runs; `PromptSpec` does
not.

`ZrtpAgreement` has four actions: an endpoint confirms a key; it goes secure with
one that every endpoint has confirmed, which it has not used before and which is
that of any other secure endpoint; it leaves; its stream is started again, after which
the two last conditions are not promised any more (see the
[findings](#findings)). `ZrtpHandshake!AgreementSpec` is the
refinement: `confirmed` is read off the Confirms on the network, `secureWith` off
the states, `restarted` off the count of starts, `used` is a history variable.

### ZrtpStreams

`ep[e][s]` has the state, mode, own `hv`, key and `concurrent` of stream `s`, whether
its Commit (or a later message) is being resent and whether its dh task is
waiting; `sess[e]` is the session key, named by the Commit it comes from;
`decided[e][s]` is what a handler has found out and not done yet, so that the
handlers of two streams can interleave inside; `commits` are all Commits sent,
which arrive late, twice, or never.

| action | code |
|---|---|
| `StreamSecure`, `Retry` | `_zrtp_machine_start_initiating_secure`; `_initiating_secure` from the scheduler: choice of mode, `_zrtp_can_start_stream`, wait or go on |
| `GoOn` | `_zrtp_machine_enter_initiatingsecure`, or `_zrtp_machine_enter_pendingsecure` with the start of the concurrent stream |
| `ReceiveCommit` | `_zrtp_machine_preparse_commit`: role, `Yields` (the tie between streams), `EnterPending` |
| `Exchange` | DHPart1, DHPart2, Confirm1, Confirm2, Conf2Ack, taken from the state of the peer that sends them |
| `TimeOut` | a resend, or the dh task, that gives up |

The handlers of the streams of an endpoint interleave between check and change of state:
`zrtp_stream_secure` runs "in parallel" to the main loop (`src/zrtp_engine.c:503`), media threads and the
scheduler serve the streams at the same time, and the check of `src/zrtp_responder.c:441` is outside
`init_protector`. `init_protector` is in the model where the code has it (`InitFree`). `raced` is a history: a
stream was checked and went on while another stream of its endpoint was between its own check and what follows. With
that, two exchanges may run at once (`MCZrtpStreams_overlap`, which checks `OneExchange` as it stands).
`OneExchangeUnlessRaced`, `SameSessionUnlessRaced` and `NoneFailsUnlessRaced` say that nothing else leads there:
not crossing, late or repeated Commits, not ties on one stream or between two, not time-outs. They are what a team
that puts `init_protector` around the other checks could rely on.

### ZrtpSessions

`sessions_head`, `alive` (memory and mutexes exist), `secrets` (allocated),
`attached` (streams not in state NONE), `concurrent[x]`, the dh tasks (`enabled`,
`queue`, `busy`), the holder `owner[m]` of each mutex, and `th[t]`, where a
thread is and what it is about. Mutexes: `sessions_protector`, and
`streams_protector` and `init_protector` of each session, `stream_protector` of each
stream. A section that takes no other mutex is one step.

| action | code |
|---|---|
| `SessionInit`, `ListAdd`; `StreamAttach`, `AttachFind`, `AttachInit` | `zrtp_session_init`; `zrtp_stream_attach`, whose last part runs after the unlock |
| `SessionDown` ... `DownFree` with `StopLock`, `StopWipe` | `zrtp_session_down` and the `zrtp_stream_stop` of each stream |
| `Message`, `MessageLock` | `zrtp_process_srtp`, or a user call, up to one of `_zrtp_prepare_secrets` (`Prepare`), a start, the check of a Commit, `zrtp_verified_set` |
| `VerifyLock` ... `VerifyEnd`, `UserVerifies` | `zrtp_verified_set` |
| `StartLock`, `WalkLock`, `WalkSession`, `WalkEnd`, `StartDenied`, `StartAccepted` | `_zrtp_machine_start_initiating_secure`, `_initiating_secure` and `_zrtp_can_start_stream`; a start that is accepted starts the concurrent stream |
| `CommitDenied`, `CommitAccepted`, `Respond` | `_zrtp_machine_preparse_commit` and the start of the concurrent stream in `_zrtp_machine_enter_pendingsecure` |
| `SchedPop`, `DhLock`, `DhEnd` | the dh task in `sched_loop` |

Whether another stream denies a start depends on its state, which is in `ZrtpStreams`:
here both outcomes are possible. The application makes no other call on a session
while it takes it down (`include/zrtp.h:484`); it does make calls on other sessions, whose walks
look at this one, and the scheduler does not ask.

### ZrtpSecrets

`cache[e]` is the entry for the peer (current and previous secret, expired, verified), `sess[e][c]` the
session of call `c`: the secrets it loaded, `cached`, `matches`, `wrongs`, the alert and
the secret chosen. A secret is named by what it was derived from, so two equal
names are equal secrets.

| action | code |
|---|---|
| `Begin`, `End` | `zrtp_session_init`, `zrtp_session_down`, on one side or both; a call breaks by ending between any two steps |
| `Prepare` | `_zrtp_prepare_secrets` |
| `Derive` | `_derive_s0`: `Choose`, `RS1Matches`, `FallsBack`, `DropVerified` |
| `Confirm1`, `Confirm2`, `Conf2Ack` | the V flag and `_zrtp_machine_enter_secure` of each side in turn: `Wrongs`, `Alert`, `RollOver`, `StoreNow` |
| `Multistream` | a further stream of the call, whose Confirm has its own V |
| `Verify` | `zrtp_verified_set` by the user, who has compared the SAS |
| `LoseCache` | what `ZrtpCacheFile` allows after a crash |

`stored` and `vouched` are histories: the calls in which a side has put its rs1, and the
secrets its user has reason to trust.

`NoFalseAlarm` counts the calls that one side stored and the other did not. A call with `cache_ttl` 0
is one of them: `_zrtp_machine_enter_secure` then puts the rs1 it has loaded once more
(`src/zrtp_protocol.c:1060-1063`), and `zrtp_cache_put` makes it rs2 as well, so the older secret
is gone. It takes four calls to see this (a good one, one stored by one side, one with ttl 0 finished
by the same side, and the one that raises the alert): with `MaxCalls = 4` and
`MaxLosses = 0` TLC finds it as soon as the history leaves these calls out, and no violation with them.

### ZrtpCacheFile

The two lists, their dirty flags and `needs_rewriting` are the memory; `file` is a
sequence of cells (version, counter, entries, counter, entries), one for each field that
the reader takes at once. Positions are computed as `flush_elem_` computes them.

| action | code |
|---|---|
| `Create`, `Destroy` | `zrtp_cache_file_create` with `zrtp_cache_read_from_file`, `zrtp_cache_file_destroy` |
| `Put`, `PutMitm`, `SetVerified`, `TouchUnknown` | `cache_put`, its MitM form, `zrtp_file_cache_set_verified`, `zrtp_file_cache_reset_since` |
| `Store` (`StoreOpen` ... `StoreRsCount`) | `zrtp_cache_store_to_file`, one step for what is written between two calls of `fseek` |
| `Crash` | the process dies between any two steps |

`Faults` names what may go wrong besides. `"write"`: an `fopen` or a checked `fwrite` returns its failure, the store
ends there. `"flush"`: `fwrite` has filled a buffer of stdio and said that all is well, `_is_dirty` has been
cleared (`src/zrtp_cache_file.c:744`), and the bytes are lost at the next `fseek` or at `fclose`, whose results
nobody looks at. The same goes for version and counts; of the count 0 that opens a block not even the `fwrite` is checked (797, 835). `Reaches` is the choice:
the cell is written, or it is not and `lost` is set. The store goes on and returns ok either way. `lost` is cleared when
a store with `needs_rewriting` opens the file with `w+`, which empties it. In between nothing is claimed of the file: a
failed `fseek` also leaves the position behind, part of a cell may be written, and a hole reads as zeros,
none of which is followed. What a restart reads may be missing entries or be refused. So the three properties of the run say
`~lost`, and `StoredWhenOk`, what a caller takes `zrtp_status_ok` for, is refuted (`MCZrtpCacheFile_flush`).

### ZrtpSrtp

`next`, `highOut`, `highIn` are the sender's next packet and the newest index of
each direction; `out` and `inc` map an SSRC key to a replay node (owner and window); `net` has
the packets that may still arrive; `checking` is a packet between
`zrtp_srtp_rp_check` and `zrtp_srtp_rp_add`, which are separate sections.

| action | code |
|---|---|
| `SenderSecure`, `ReceiverSecure` | `_zrtp_machine_enter_secure`: new keys, new SRTP context |
| `SenderLeave`, `ReceiverLeave` | `_zrtp_protocol_destroy`: `remove_rp_nodes_by_srtp_ctx` |
| `Send` (`SendRtp`, `SendRtcp`) | `zrtp_process_rtp`, `zrtp_srtp_protect` and the RTCP pair |
| `Receive`, `Finish` | `zrtp_process_srtp`, `zrtp_srtp_unprotect` up to the check of the window; authentication and the entry in the window |

`SameByte` is the set of streams whose SSRCs share the one byte that `zrtp_process_rtcp` looks at.
Media calls do not take the stream's mutex (`src/zrtp_engine.c:239`), so `ReceiverLeave` may come between
`Receive` and `Finish` and free the node that `zrtp_srtp_unprotect` uses; what happens then is undefined, and the stream
takes no further packet in the model. `NodeHeld` says that this does not happen, and is refuted by `MCZrtpSrtp_held`;
`FreedByItsStream` says that only the end of SECURE of the same stream does it.

## Runs: what each checks and shows

| run | properties | shows |
|---|---|---|
| `scheduler` | `TypeOK`, `NoLostWakeup`, `BoundedSurplus`, `ListSorted`, `NoEntryAfterTermination`, `NoUseAfterDown` | two streams, two tasks, 1.6M states: every interleaving of add, cancel, loop, stop and down |
| `scheduler_live` | `NoLostWakeup`, `CallServedOrJams`, `StopReturnsOrJams`, `DownReturns` | two streams, one with the dh task, which takes the stream's mutex and cancels and starts tasks from the scheduler thread: a shutdown ends, and a stop ends unless it jams with the dh callback. A jam starves the calls of all other streams, and nothing else starves a call |
| `handshake` | `TieBroken`, `KeysAgree`, `RoleMatchesState`, `AgreementSpec` | 0.4M states, with clears from both sides and stale messages of earlier exchanges: one initiator after simultaneous Commits; refinement of `ZrtpAgreement` |
| `handshake_live` | `TypeOK`, `TimersMatchState`, `RoleMatchesState`, `WaitsEnd` | every scheduling, GoClear from both sides; waits end if only the scheduler threads are fair |
| `streams` | `TypeOK`, `OneExchangeUnlessRaced`, `SameSessionUnlessRaced`, `NoneFailsUnlessRaced`, `WaitersServed` | a thread for each stream, Commits that cross on one stream and on two: one exchange at a time, one session key, all streams get secure, until two checks overlap |
| `sessions` | `TypeOK`, `JamsOnlyInDown`, `WalkMeetsLive` | 1.4M states (half of it by symmetry): no ring of waiting threads but the one of `zrtp_session_down`, no walk over freed sessions |
| `secrets` | `TypeOK`, `SameSecret`, `NoFalseAlarm`, `VerifiedIsVouched` | three calls, each broken anywhere, on either side: both always take the same secret |
| `cachefile` | `TypeOK`, `InSync`, `NoStaleSecret`, `StaysReadable` | 2.1M states: crashes, failed writes and lost writes in any step of a store |
| `srtp` | `TypeOK`, `IndexAgrees`, `AcceptedOnce`, `NoneRefused`, `IndexNeverReused`, `FreedByItsStream` | 1.3M states: wraps of the sequence number, window edges, key changes, two streams, and ends of SECURE while a packet is checked |
| `scheduler_stop`, `secrets_crossed`, `srtp_shared` | one each | the first three [findings](#findings) |

`AgreementSpec` is checked under `PromptSpec`. With the callback window it does
not hold: a hello callback taken from the list before the Hello exchange ended,
run when the stream is SECURE and with its retries used up, puts the stream to
NO_ZRTP (`MCZrtpHandshake_passive.cfg`); a Multistream Commit repeated to it then
makes it a responder again with the key it had.

What a restart takes away is said in the properties. `KeysAgree` and
`ZrtpAgreement` promise one key to both sides, and no key twice, only as long as
no stream was started again: then a Commit and a Confirm2 of an exchange that failed
may come back and be taken for the current one, because the session key was
not hashed in between (with three starts and two nonces the two sides are secure
with different keys). `TieBroken` speaks of behaviours without a restart and without a
clear: the Commit of the first start or of an earlier exchange may still arrive, and both endpoints then
answer a Commit as responders, until their users stop the streams.
`MCZrtpHandshake_restart.cfg` is the same run with two starts, two nonces and one endpoint that
may clear (158,729 states, no violation); two starts with clears from both sides were checked once by hand (7.5M
states). They are not in the list because the theorems cover them.

Further configurations, not in the list of runs, each show a counterexample to
one property, which states a sentence of the repository:

| configuration | property | what it quotes |
|---|---|---|
| `MCZrtpScheduler_wait` | `NoCallAfterWait` | `include/zrtp_iface.h:164`: "any delay call for the stream will not be performed after on_wait_call_later()" |
| `MCZrtpScheduler_errorack` | `NoEntryAfterTermination` | `include/zrtp_engine.h:270`: the flag prevents "re-adding tasks after their termination" |
| `MCZrtpSchedulerLives` | `NoUseAfterDown` | `src/zrtp_iface_scheduler.c:236`: "Stop main thread", and 252: "Then destroy tasks queue and realease all other resources" |
| `MCZrtpHandshake_passive` | `PassiveTasksSkipped` | `include/zrtp_iface.h:75`: "Callback handlers skip passive tasks" |
| `MCZrtpHandshake_dhwins` | `DhCommitWins` | `src/zrtp_responder.c:418`: a DH Commit "should win competition in any case" |
| `MCZrtpStreams_overlap` | `OneExchange` | `include/zrtp_engine.h:215`: "only one DH stream can be run at a time between two ZRTP endpoints" |
| `MCZrtpStreams_presh` | `WaitersServed` | with `Preshared` on both sides; `src/zrtp_responder.c:186`: "we can resume the other one" |
| `MCZrtpCacheFile_destroy` | `DestroyInSync` | `src/zrtp_cache_file.c:510`: "it should be already in sync" |
| `MCZrtpCacheFile_flush` | `StoredWhenOk` | `src/zrtp_cache_file.c:865`: `return zrtp_status_ok` |
| `MCZrtpSrtp_held` | `NodeHeld` | `src/zrtp_engine.c:389`: `zrtp_stream_clear` "can be called in parallel to the main processing loop" |
| `MCZrtpSecrets_postponed` | `StoredAfterVerified` | `src/zrtp_protocol.c:1043`: "postpone storing the cache until after the user verify the SAS" |
| `MCZrtpSessions_attach` | `SlotsDistinct` | `include/zrtp_engine.h:222`: "All operations with sessions and streams are protected by mutexes" |
| `MCZrtpSessions_secrets` | `SecretsHeld` | the same |
| `MCZrtpSessions_ties` | `ConcurrentHeld` | the same |

For every property of a passing run a mutant of a mapped definition is given in
`PROJECT.json` under which the run finds it violated (a dropped `sem_post`, a
session key that is not hashed, a Confirm2 taken unchecked, an estimate that
forgets the wrap backwards, a session freed before it is unlinked, ...). They are the
operators commented "Variant" in the modules; no specification uses them.

## Bounds, and why they are enough

| constant | code | value | why |
|---|---|---|---|
| `MaxQueue` | unbounded list | 2 | no new task above it, but callbacks and `DhCommit` add further; an insertion before, between and after others happens. The theorems need no bound |
| `Delays` | 10 ms to seconds | {1, 2} | only the order of wake-ups matters |
| `Streams`, `Tasks` of the scheduler | 2 per session, 9 tasks | 2, 2 | hello and confirm stand for all tasks whose callback takes no mutex, dh and commit for the one that does, errorack for the one whose flag is never cleared |
| `Started` | every task of every stream | all; in `scheduler_live` the dh task of one stream and the commit task of the other | what is left to find there is what the thread of one does to the other; callbacks add the commit task of the first. The theorems need no bound |
| `Loops`, `MaxUnits` of `ZrtpSchedulerLives` | one thread for each `zrtp_init` | 2, 2 | a counterexample needs no more |
| `HelloMax`, `HelloMaxExt` | 20, 60 | 1, 2 | distinguish first call, resend, exhausted, and that WAIT_HELLOACK waits longer |
| `T2Max`, `ErrorMax`, `ErrorAckMax` | 10, 10, 3 | 1 | a resend does not change the network, so more of them repeat states |
| `MaxStarts` | unbounded | 1 or 2 | 2 gives stale messages of an earlier start. The theorems need no bound |
| `MaxNonces` | random | 0 to 2 | Multistream Commits in the whole run; 2 gives both sides one each, or a repetition. The theorems need no bound |
| `Streams` of `ZrtpStreams` | `ZRTP_MAX_STREAMS_PER_SESSION`, 2 (`include/zrtp_config_user.h:78`) | {x, y} | exact |
| `MaxCommits`, `MaxTimeouts` | unbounded | 6, 2 | two streams on two sides need at most 4 Commits, two more are for starts after a tie; a timeout on either side |
| `Sessions`, `Streams` of `ZrtpSessions` | unbounded, 2 each | 2, 1 each | a ring needs one walk from each side and a close; further sessions are further walks |
| `Users`, `Media` | any | 1, 2 | with the scheduler four threads hold and want mutexes; two `zrtp_session_down` of different sessions at a time are not in the run |
| `MaxCalls` | unbounded | 3 | a call whose secret both store, one that breaks, and the call that has to bridge it; the cache keeps two secrets |
| `MaxLive`, `MaxLosses` | unbounded | 1, 1 | overlapping calls of one pair are in `secrets_crossed` (2) |
| `Peers`, `MaxPuts` | unbounded | 2, 3 | two places in each list and one entry replaced, or a MitM entry that moves two regular ones; 4 with all faults is too large. The theorems need no bound |
| `Half`, `Width`, `RtcpLast` | 32768, 128, 0x7fffffff | 4, 2, 3 | every relation of index, wrap and window edge happens; the theorems need no values |
| `Reach` | the network | 4 = `Half` | the most that RFC 3711's estimate stands |
| `MaxNumber`, `MaxKeys`, `Starts` | unbounded, unbounded, random | 18, 2, {6} | from number 6 of 8 the sequence number wraps, in one stream or both |

Symmetry is used where a run has no liveness property: `Streams` in `scheduler`
and `srtp`, `Endpoints` in `secrets`, `Peers` in `cachefile`, `Media` in `sessions`. The properties
name no element of these sets. (`StaysReadable` of `cachefile` is a property of
single steps.) `CHECK_DEADLOCK FALSE` is set where the system may
rest: endpoints in ERROR, CLEAR or NO_ZRTP with starts and nonces used up, calls
and packets used up, and the two hangs that `scheduler_live` and `sessions` speak of.

## Fairness

Scheduler: weak fairness of the steps of running threads; strong fairness of the
steps that need a mutex (`Look` and `Callback` of the loop, `CancelLock` of each thread), because the holders
keep it for a short section again and again and the operating system serves a
waiter in the end; time passes (`Tick`). Clients need not start tasks, cancel or stop, and nobody
need call `zrtp_down`; the fairness of `DownFree` is that of the thread inside it.
`DhLock` is part of `Callback`, so `StopReturns` is given a fair mutex, and
fails all the same in `scheduler_stop`, since the mutex is never free again.

Handshake: `WF_vars(Scheduler(e))` alone. No message need ever arrive, no user
need act. `WaitsEnd` speaks of the states that have a timer. PENDINGSECURE,
WAIT_CONFIRM2 and WAIT_HELLO have none: a responder whose peer has died stays
until its user stops the stream, and the code promises nothing else.

Streams: weak fairness of `Progress(e, s)`: a handler that has begun goes on, the
scheduler calls the dh task, and what one side resends gets through in the end. Users
need not act and Commits that nobody resends need not arrive. `WaitersServed` speaks
of behaviours in which no resend has given up, which is what "gets through"
excludes up to `MaxTimeouts` otherwise, and no two checks have overlapped (`raced`).

## Proofs

Every theorem is of the specification that TLC checks, with the constants left
open, and rests only on the named assumption of its module and on what its own
ASSUME says.

### ZrtpScheduler_proofs

It proves, for any set of streams, any set of tasks, any
delays and any `MaxQueue`, from `SchedulerAssumption` only (streams and tasks are not empty, delays are
positive, `LOOP` and `NONE` are no streams or tasks, the dh task comes with the commit
task):

| theorem | statement |
|---|---|
| `TypeCorrect` | `Spec => []TypeOK` |
| `WakeupNeverLost` | `Spec => []NoLostWakeup` |
| `SurplusBounded` | `Spec => []BoundedSurplus` |
| `NothingUsedAfterDown` | `Spec => []NoUseAfterDown`, in one life of the library |
| `ListStaysSorted` | `Spec => []ListSorted` |
| `OnlyEscapesAfterTermination` | a stopped stream has no entry in the list but of errorack and, with the dh task, of commit |
| `NoneAfterTermination` | `Spec => []NoEntryAfterTermination`, if neither `"errorack"` nor `"dh"` is in `Tasks` |
| `NothingPoppedAfterStop` | `Spec => NoPopAfterStop`: of a stopped stream `sched_loop` takes no call from the list but of these two tasks |

The two exceptions are real. The flag of errorack is never cleared
(`MCZrtpScheduler_errorack`). A dh callback that was taken from the list before the stop (the
window of `src/zrtp_iface_scheduler.c:169`) starts the commit task of a stream that is gone:
TLC finds it with `Tasks = {dh, commit}` and one stream.

The argument.

- `TypeInv` strengthens `TypeOK` by which places each kind of thread can be at
  and by: in the places where the loop has a call, `task2run` is one. Without
  the last, `SetBusy` would index by `NONE`. Insertion and removal are proved to keep a
  sequence of entries by `InsertAtProperties`, `RemoveAtProperties`, `TickProperties`,
  with `MinIsLeast` for the place of the insertion (a non-empty set of naturals has a least one, from the well-foundedness of `<`).
- `SemInv` is `count + Held` within `Len(tasks_head)` and one more, where `Held` is
  the unit `sched_loop` has taken and not given back. The two halves are
  inductive only together: a cancel removes an entry and a unit, or, when
  `count` is 0, an entry only, and then the upper half is kept because the units
  it then has are `Held` alone; dropping a unit on an empty list keeps the lower half.
  `DownStop` adds one unit, once.
- `DownInv` ties `is_working` to the place of the loop, and has that after a
  shutdown began `is_running` is down and all client threads are gone. `DownFree` waits
  for `~is_working`, so the loop is at "new" or "exit"; from "new" it can only
  reach "top" and "exit", as `is_running` is down. It stays down in one life only: the next `zrtp_init` raises it
  under such a loop, and the property is lost (`MCZrtpSchedulerLives.cfg`).

- `ListSorted` rests on the place of the insertion: all entries before it are earlier, the one at
  it is not. `OnlyEscapesAfterTermination` ties every entry of the list, and every call the
  loop has taken, to the flag of its task and to the state of its stream.

`NothingPoppedAfterStop` is the limit of what `MCZrtpScheduler_wait.cfg` shows: besides these two tasks, a
callback that runs after `zrtp_stream_stop` is one that `sched_loop` had taken from the list before it.

Each invariant has its `...Init` and `...Next` lemma, with one step per action.

### ZrtpHandshake_proofs

For any limits, starts and nonces, from `HandshakeAssumption` (two endpoints; the
limits are naturals; `NONE` is no timer, role, mode or key):

| theorem | statement |
|---|---|
| `TimersAlwaysMatchState` | `Spec => []TimersMatchState` |
| `RoleAlwaysMatchesState` | `Spec => []RoleMatchesState` |
| `PromptMatchesState` | `PromptSpec =>` both |

The handlers are compositions of operators on the record of an endpoint, so the proof
follows them: a lemma for every operator (`CancelAll`, `ProtocolInit`, the entry functions,
`Resend`) says what it does to timers, role and state; from them one lemma per action
says which record the handler leaves. `HandshakeInv` adds to the two properties the types,
that the callback of errorack runs in PENDINGERROR only, and that the
key of an endpoint is of its own session level.

### ZrtpKeys_proofs

| theorem | statement |
|---|---|
| `TypesAlwaysOK` | `Spec => []TypeOK` |
| `SecureAlwaysConfirmed` | `Spec => []SecureIsConfirmed`: the key of an endpoint in SECURE has been confirmed by both |
| `OneKeyOfEveryLevel` | `PromptSpec => []PromptInv` |
| `KeysAlwaysAgree` | `PromptSpec => []KeysAgree` |
| `ImplementsAgreement` | `PromptSpec => AgreementSpec` |
| `TieAlwaysBroken` | `PromptSpec => []TieBroken` |

The argument.

- `CommonInv` holds under every scheduling. `ConfirmInv`: the key of an endpoint that waits for
  Conf2Ack is confirmed by itself, that of one in WAIT_CONFIRMACK or SECURE by both. `CountInv`:
  no two Multistream Commits have one nonce, so their number bounds the times a session
  key was hashed, and `KeysInv` is the bound of `TypeOK`.
- `KeysAgree` is far from inductive: Confirms stay on the network for ever. `LevelInv` counts
  how often the session key of a key was hashed (its level) and says of an endpoint that was
  started once: it confirms at most one key of each level, none beyond its own level, and
  outside the last states of an exchange it is beyond the level of every key it has confirmed or used.
  A stale Confirm is then of a level that is over, and does not fit.
- `ImplementsAgreement` follows step by step: a step into SECURE is `Secure`, one that sends a
  Confirm is `Confirm`, out of SECURE `Leave`, a start `Restart`, all others stutter.
- `TieInv`, of an endpoint that was started once and has not cleared: in the idle states it has sent
  neither Commit nor DHPart1; the winner of a tie is no responder once it has sent a Commit; who has sent
  DHPart1 is no initiator; a responder has the Commit of its peer, and in the states after
  DHPart1 an initiator has the DHPart1.

The last four are theorems of `PromptSpec`: under `Spec` the late hello callback breaks
`KeysAgree` and the refinement, as said [above](#runs-what-each-checks-and-shows).

### ZrtpStreams_proofs

For any number of streams, Commits and timeouts, from `StreamsAssumption`:

| theorem | statement | assumes |
|---|---|---|
| `TypesAlwaysOK` | `Spec => []TypeOK` | |
| `OneExchangeAtATime` | `Spec => []OneExchangeUnlessRaced` | `Preshared = {}` |
| `OneSessionKey` | `Spec => []SameSessionUnlessRaced` | `Preshared = {}` |
| `NoExchangeFails` | `Spec => []NoneFailsUnlessRaced` | `Preshared = {}` |

The run has two streams, as `ZRTP_MAX_STREAMS_PER_SESSION` says; the theorems show that this limit is
not what the three properties depend on. `raced` is part of the statements, not an assumption: the specification has
all interleavings, and the overlap of two checks is the only one that breaks them. `Preshared` is not in
the run with two streams either: with three, TLC finds two exchanges at once (a
Preshared stream that was stopped is not resumed, and takes the Confirm1 of its peer later).

- All three invariants are kept as long as `~raced`. A step that sets `raced` leaves nothing to show, and one that does
  not tells that no other stream of the endpoint has a decision pending (`DecidesAlone`).
- `ExchangeInv` is about a decision that was made and not carried out: it names the one other stream that is
  then stopped (`RespondFits`), or there is none (`StartFits`).
- `SessionInv` adds: an endpoint that waits for DHPart2 or has the session key starts no DH exchange; a DH Commit of an
  endpoint that is still on its way finds its stream with the same hvi, or past it; and
  when only one side has the session key, the other waits in PENDINGSECURE with the same hvi.
  Three streams and two timeouts of it were checked with TLC before (9.1M states).
- `KeysFit` is about the two ends of one stream: a Multistream Commit is sent once, and who sent it keeps its nonce until it is
  answered (`Offers`); who waits for Confirm2 has answered a Commit that the peer still stands by (`Answers`); from DHPart2 on
  both ends have the same key (`Confirms`). With `SessionInv`, which says that the hvi and the session key are the
  same, every Confirm fits. It was checked with TLC on the instance of the run first. It is kept while no resend has given up (`timeouts = 0`), which is
  what `NoneFails` speaks of.

### ZrtpSessions_proofs

For any number of sessions, streams and threads, from `SessionsAssumption` (kinds of threads and
constants that stand for nothing are disjoint) and `NoMutexAssumption`:

| theorem | statement |
|---|---|
| `TypesAlwaysOK` | `Spec => []TypeOK` |
| `SessionsInvariant` | `Spec => []SessionsInv` |
| `WalksMeetLive` | `Spec => []WalkMeetsLive`: a walk over `sessions_head` meets only sessions that exist |
| `JamsNeedDown` | `Spec => []JamsOnlyInDown`: a ring of threads that wait for each other goes through `zrtp_session_down` and the dh task in progress |
| `SecretsGoBeforeUnlink` | `Spec => []SecretsHeldUntilUnlink`: a session without secrets that `zrtp_verified_set` meets is one whose `zrtp_session_down` waits for this walk to unlink it |

The argument. `SessionsInv` says of each thread what its place implies (`ThreadsFit`) and that it
holds exactly the mutexes its place says (`MutexesFit`). With these:

- `Alone` and `Listed`: the thread that makes or closes a session is alone with it, what has
  attached streams is in the list, and what is in the list is alive. `WalksMeetLive` follows,
  because the list does not change while `sessions_protector` is held, and who frees a session has unlinked it.
- A thread waits for at most one mutex, and outside `zrtp_session_down` only upwards in the order
  `stream_protector`, `init_protector`, `sessions_protector`, `streams_protector`; whose holder of the last
  is a thread in `zrtp_session_down`. So a ring leads there, and from there it leads on only through the wait for the
  dh task.
- One kind of thread seems to break this order: a start that resumes another stream, which holds one
  `init_protector` and might ask for another. `Meets` says that such a thread meets its own stream
  on its walk, which denies the start, so it never gets that far. `Undisturbed`: nobody else
  writes `concurrent` of a stream that is about to start.
- `SecretsFit`, on top of `SessionsInv`: a session in the list has its secrets, or a thread is between
  freeing them and unlinking it; one on its way into the list has them. So what
  `MCZrtpSessions_secrets.cfg` shows comes from the order of these two steps in `zrtp_session_down` alone.

### ZrtpSecrets_proofs

For any number of calls, lost caches and values of `cache_ttl`, from `SecretsAssumption` and
`NoSecretAssumption` (`NONE`, a missing secret, is no secret):

| theorem | statement | assumes |
|---|---|---|
| `TypesAlwaysOK` | `Spec => []TypeOK` | `MaxLive = 1` |
| `SecretsInvariant` | `Spec => []SecretsInv` | `MaxLive = 1` |
| `SameSecretAlways` | `Spec => []SameSecret` | `MaxLive = 1` |
| `VerifiedAlwaysVouched` | `Spec => []VerifiedIsVouched` | `MaxLive = 1` |
| `NoAlarmIsFalse` | `Spec => []NoFalseAlarm` | `MaxLive = 1` |

`MaxLive = 1` says that the calls of a pair come one after the other. `SameSecret` needs it:
`MCZrtpSecrets_crossed.cfg` shows two overlapping calls that leave the two sides with different choices
for ever. The others use it because then at most one session has an alert, and the loop
of `zrtp_verified_set` over all sessions puts at most one secret (`PutOne`).

The argument. Each endpoint finds its choice alone, from its two secrets and the two of its peer, so the
two choices may differ only when the two pairs are crossed (rs1 of each is rs2 of the other), and `SecretsInv`
has to exclude that over any number of calls that broke on either side. Of each endpoint it says:

- `OneCall`, `ValuesFit`, `LoadFit`: who has a session, which calls its secrets may be from, and that
  the secrets it has loaded are those of its entry until it stores.
- `OrderFit`: the current secret is at least as new as the previous one. Crossed secrets would have
  to be newer than each other.
- `ChosenFit`: `chosen` is what `Choose` gives for what both have loaded.
- `KnowFit` and `CoverFit`: a secret is unknown when the peer neither has nor ever will have it (the random stand-in for a
  missing one is). Until an endpoint knows the secrets its peer has now, the peer has no others.
- `VouchFit`: with the verified flag the current secret is vouched for, and the previous one is vouched for or unknown
  to the peer. The second half is what `Derive` needs when `FallsBack` makes the previous secret stand in.

`NoFalseAlarm` counts calls, and an entry has no counter. `AlarmInv` says what the count means for
the entries, as long as no cache is lost:

- `Near(k)`: of the calls up to k, one was stored by both sides and at most one since then by one
  side only. `Even(k)`: none since then. `LastCall` relates them to the call before: a broken call after
  `Even` leaves `Near`, one after `Near` leaves neither.
- `EvenFit`: after `Even` calls the current secrets of the two entries are the same, or were before this call
  stored a new one (`Before`).
- `NearFit`: after `Near` calls, and before this one is stored, the two entries `Agree`: each side finds its rs1
  at the peer, or its rs2 is the peer's rs1, or its entry has expired.
- `LoadedFit`, `StoreFit`: the two sessions have loaded these entries, also one that is already down;
  who has stored the call has its secret, or an expired one with a ttl of 0.
- `QuietFit`: so after `Near` calls no session has an alert, which also means that it stores its secret when it
  enters SECURE, and `zrtp_verified_set` has nothing to put.

`NextCallFits` is the step from one call to the next: by `LastCall`, `EvenFit` of this call gives `NearFit` of
the next when only one side stored it.

`SecretsInv` was checked with TLC on the instance of the run first, `AlarmInv` with three calls and no lost cache
(315,117 states).

### ZrtpCacheFile_proofs

For any set of peers, any `MaxPuts`, any `Faults`, with automatic stores and without,
from `CacheAssumption` and `NoFileAssumption` (`NONE`, a file that does not exist, is no sequence of cells):

| theorem | statement | assumes |
|---|---|---|
| `TypesAlwaysOK` | `Spec => []TypeOK` | |
| `CacheInvariant` | `Spec => []CacheInv` | |
| `StoredIsRead` | `Spec => []InSync` | |
| `ReplacedStaysAway` | `Spec => []NoStaleSecret` | |
| `FileStaysReadable` | `Spec => StaysReadable` | |
| `StatusTellsTruth` | `Spec => []StoredWhenOk`: after a store that returned ok the file reads as what memory held | `"flush" \notin Faults` |
| `DestroyLosesNothing` | `Spec => DestroyKeepsAll`: a destroy that stores nothing leaves a file that reads as what memory held | `"write" \notin Faults`, `"flush" \notin Faults` |
| `DestroyInSyncWithoutFaults` | `Spec => []DestroyInSync` | `Faults = {}` |

The argument. A store writes only the entries that are dirty, or all with `needs_rewriting`, each at the place
that its rank in its list gives it; and a crash may come after any write, which may itself be lost. `CacheInv` has two halves.
`MemoryInv` holds always: types, what a running store implies, and `CountsFit`, by which no count in the file is larger than the
number of puts, so that also what a restart reads from a damaged file is of the right type. `FileInv` holds as long as
no write was lost. A store with `needs_rewriting` empties the file and writes all entries, so it establishes
`FileInv` from `MemoryInv` alone: that is where a file is whole again. `FileInv` is:

- `InPlace`: an entry that needs no write, or that the running store has been past, is in the file at its place.
  A put of a new peer, which moves nothing, keeps this; a new MitM entry, which moves the regular block, sets
  `needs_rewriting`. At the end of a store `InPlace` is `InSync`.
- `Progress`: the cells between which the running store is, in particular that the count
  before the block that is being written is 0.
- `Visible`: for `NoStaleSecret`. While a block is written a reader finds the count 0. Before,
  it may find a count at the place of the regular block that an earlier, interrupted store left there;
  each cell behind it that is an entry is one that memory had since the last complete store.
- `VersionFirst`: a file that is not empty begins with the version.
- `NoMitmCount`: for `StaysReadable`, without MitM entries the cell of the MitM count is 0.
- `LoadedHeld`: what a restart reads are entries that memory had since the last complete store.
- `LastStoreOk`, for the theorems about destroy: with `cache_auto_store` and no failed write the last store has succeeded whenever no
  operation is running and the library is up; so `InSync` holds at every `zrtp_cache_file_destroy`. A crash in the
  middle of a store does not matter for this, because it leaves nothing in memory. The two theorems
  about destroy say what the comment `MCZrtpCacheFile_destroy.cfg` refutes is worth.

It was checked with TLC on the instance of the run first.

### ZrtpSrtp_proofs

For any set of streams, any `Half` (so any width of the sequence numbers), any
window width, any number of packets and keys, from `SrtpAssumption` and `SameByte = {}`:

| theorem | statement | assumes |
|---|---|---|
| `TypeCorrect` | `Spec => []TypeOK` | `SameByte = {}` |
| `IndexesAgree` | `Spec => []IndexAgrees` | `SameByte = {}` |
| `TakenOnce` | `Spec => []AcceptedOnce` | `SameByte = {}` |
| `WantedTaken` | `Spec => []NoneRefused` | `SameByte = {}` |
| `IndexOnce` | `Spec => []IndexNeverReused` | `SameByte = {}` |
| `FreedByOwner` | `Spec => FreedByItsStream` | `SameByte = {}` |

`srtp_shared` shows that `AcceptedOnce` needs `SameByte = {}`. The reach of the network
(`Reach <= Half`) is in `SrtpAssumption`.

The argument.

- The arithmetic is in lemmas. `EstimateCorrect`: an index that differs by less than `Half` from the newest
  one is recovered from its residue; by cases of the wrap (`Divides`, `Apart`).
  `AddIsWindow`, `AddKeepsOut`, `AddHolds`, `KeptOut`: what the shifting window
  holds after a new index, and that what it refuses is either in it or further back than `Width`.
- `IndexInv`: on the sending side the newest index is that of the last packet,
  on the receiving side the newest that came in, and what is on the network is within
  `Reach` of it. `IndexAgrees` follows, and is not inductive without it.
- `ReceiverInv`: a node exists only in SECURE, belongs to the stream it is found by, its window refuses
  every index taken under the key and holds nothing else; a packet that has passed the check
  still passes it when it is entered. `SenderInv`: the same for the sender,
  whose indexes grow.
- `GoodInv` is `AcceptedOnce`, `NoneRefused` and `IndexNeverReused` themselves, which are about history variables. `IInv` is the conjunction with `TypeOK`; one lemma per action, one frame
  lemma per conjunct.

### Only model-checked

All liveness properties, which need ENABLED and are out of the prover's reach. Every safety invariant of
the runs is a theorem, under the assumptions its table names.

## Findings

Shown by a run each:

1. `scheduler_stop`. `zrtp_stream_stop` waits for `dh_task._is_busy` with the stream mutex
   held; the dh callback waits for this mutex (`src/zrtp_engine.c:434`). Both hang.
2. `secrets_crossed`. Two overlapping calls of one pair may be stored in opposite
   orders on the two sides. Each side then finds its rs1 to be the peer's rs2, takes its own
   (`src/zrtp_protocol.c:374`), and every later exchange fails its Confirm.
3. `srtp_shared`. `zrtp_process_rtcp` and `zrtp_process_srtcp` read one byte of the SSRC
   (`src/zrtp_engine.c:80` and 124), so RTCP of two streams may share a replay node, which goes
   with the stream that made it; the other takes packets again.

Shown by a further configuration each:

4. `MCZrtpScheduler_wait`. `sched_loop` unlocks the list (`src/zrtp_iface_scheduler.c:167`) before it
   sets `_is_busy` (170). A stop in between finds the call neither in the list nor
   busy, and wipes the stream; the callback then runs on it.
5. `MCZrtpScheduler_errorack`. Cancelling all tasks does not clear `_is_enabled` of the
   errorack task (`src/zrtp_utils.c:600-608`), so a running callback queues it
   again for a stream that is being stopped.
6. `MCZrtpHandshake_passive`. The resend callbacks compare `_retrys` with the limit before they
   look at `_is_enabled`, so one that has been cancelled in the window still moves
   the stream to NO_ZRTP or ERROR.
7. `MCZrtpHandshake_dhwins`. An endpoint that has a session key ignores a DH Commit
   (`src/zrtp_responder.c:431-434`) while its own Multistream Commit is out. When only one side
   completed the exchange before, they ask for different modes for ever, and both time out.
8. `MCZrtpStreams_presh`. A stream that was stopped to break a tie is started again
   only by a DH exchange (`src/zrtp_responder.c:178`); with Preshared it stays in INITIATINGSECURE.
9. `MCZrtpCacheFile_destroy`. With `cache_auto_store` a store that failed is not repeated
   when the cache is destroyed.
10. `MCZrtpSecrets_postponed`. A second stream of the call, whose Confirm has V = 0, calls
    `zrtp_verified_set`, which stores the secret that raised the alert.
11. `MCZrtpSessions_attach`. `zrtp_stream_attach` sets the state of the stream it has found
    after the unlock (`src/zrtp.c:430`), so two calls get one stream.
12. `MCZrtpSessions_secrets`. `zrtp_session_down` frees the secrets (`src/zrtp.c:383`) before it unlinks the
    session (401); a `zrtp_verified_set` in between may store one.
13. `MCZrtpSessions_ties`. `stream->concurrent` may be of another session, whose
    `zrtp_session_down` does not clear it; it is then started after it is gone
    (`src/zrtp_responder.c:189`).
14. `MCZrtpSchedulerLives`. `zrtp_def_scheduler_down` returns when `is_working` is 0, as it is before the thread has
    started (`src/zrtp_iface_scheduler.c:247`); the next init sets `is_running` (211) and makes a second thread. At the next
    down the first of the two to leave clears `is_working` (181), and semaphore and mutex are destroyed under the other.
15. `MCZrtpStreams_overlap`. The check of a Commit (`src/zrtp_responder.c:441`) is outside `init_protector`
    (`src/zrtp_engine.c:490`), so two streams may be checked before either goes on, and both run DH exchanges.
    With the same overlap the two sides may take different session keys, and Confirms fail.
16. `MCZrtpCacheFile_flush`. A write that is lost when stdio flushes its buffer (`fseek` at `src/zrtp_cache_file.c:732`, 813, 832
    and 853, `fclose` at 698) leaves the store with `zrtp_status_ok`, the entry clean and the file behind memory; the
    next store skips the entry, and a restart reads the secret that was replaced, or cannot read the file.
17. `MCZrtpSrtp_held`. `_zrtp_protocol_destroy` removes the replay nodes while `zrtp_srtp_unprotect`, which runs
    without the stream's mutex (`src/zrtp_engine.c:239`), uses one.

The jam of finding 1 does not stay with its stream: the process has one scheduler thread, so no call of any other
stream is taken from then on. `CallServedOrJams` is what is left of the promise.

Seen while modelling, with no configuration of their own:

- A dh callback taken from the list before its stream is stopped starts the commit task of a stream that is gone.
- After a stream is started again, a Commit and a Confirm2 of an exchange that failed can
  bring back a session key that was never hashed: an endpoint is secure again with
  a key it has used, and with three starts the two sides with different ones.
- With three streams and Preshared on both sides, a stream that was stopped and not resumed
  takes a Confirm1 later, and two exchanges run at once.
- A Preshared responder has the session key from the Commit on, so a timeout leaves the
  sides with different ones.
- A responder in PENDINGSECURE whose initiator has given up keeps all other streams of the pair from starting.
- A crash inside a store can leave a file with MitM entries that cannot be read;
  `zrtp_init` fails until it is removed.
- The first call of a pair, broken after one side stored, or two broken calls in a row, give a false
  alert; `wrongs` stays set, so a Multistream stream of the call raises it again.
- The RTCP counter is tested before it is incremented, so one packet with index 0 goes out after
  `0x7fffffff`, which the receiver refuses.
- The estimate of the index uses packets that are not authenticated yet.

## What is not modelled

- In the handshake: passive mode and licences, MiTM roles, PBX and SAS relay;
  failures of allocation, of the crypto functions and of sending (a failed send is
  a lost message to the peer, except that it does not count as a retry); the
  check of `hvi` against DHPART2 (the endpoints are honest and make them once);
  version and capability negotiation; the RTP part of the packets. A handler is one
  step of `ZrtpHandshake`: that resend callbacks, `zrtp_stream_start` and the state test before the
  lock in `src/zrtp_initiator.c:157` run without the mutex is in no module.
- In the scheduler: the Windows and kernel builds, the sasrelay task (which
  `on_wait_call_later` does not wait for).
- In `ZrtpSessions`: which of the outcomes of a look at other streams a state allows, calls that the application makes on
  a session it is taking down, and configurations with two streams per session,
  whose states are too many.
- In `ZrtpSrtp`: ciphers and tags (a packet is authentic if key and index agree), DTMF
  and padding, `src/zrtp_srtp_dm.c` with libSRTP.
- The database cache and its SQLite backend; PBX enrolment and SAS relay, which need a third party;
  driven discovery, which no configuration here compiles; SDES, crypto primitives, strings, encodings, logs, the OPAL
  glue and all vendored code (OPAL, PTLib, GmSSL, libSRTP), which are most of the
  lines of the repository: the part that is modelled is a small share of them, and of the core of libzrtp the larger one.

## Plan

Done: the eight models above, and the proofs about the scheduler, the handshake, the streams, the sessions, the retained secrets, the cache file and SRTP.

To do, in this order:

1. The resend callbacks and the media path of `src/zrtp_initiator.c:157` as steps without the mutex.
2. PBX enrolment and SAS relay, with a third party.

To check: `tlc -workers 2 -config <run>.cfg <module>` for each row of `runs` in
`PROJECT.json`; `tlapm <module>.tla` for each module of theorems.
