# TLA+ models and proofs for libcw

libcw is a C++ library for interactive audio and MIDI programs: an I/O server
(audio, MIDI, serial, socket, web UI, timers), a signal-flow network, and the
threads, queues, logs, files and numerics under them.  This directory models
its concurrent and stateful core in TLA+, checks the models with TLC on small
instances, and proves the most important results with TLAPS for every instance.
Source paths are relative to the repository (`src/core/...`).

## 1. Inventory

| Part | State | Operations | What is hard | What makes it correct |
|---|---|---|---|---|
| `nbmpscq` (`core/cwNbMpScQueue`) | blocks (`full_flag`, `index`, `eleN`), `cleanBlkN`, linked nodes, `head`, `tail`, `peek` | `push` from any thread; `get`, `advance`, `peek`, `peek_reset` from one | lock-free allocation, linking and recycling | a node in use shares no memory; FIFO; counters exact; nothing is lost; a full queue recovers |
| `thread` (`core/cwThread`) | `stateId`, `doFlags`, `cycleCnt`, `cycleIdx`, condition variable | `create`, `pause`, `unpause`, `state`, `destroy` from a controller; the worker loop | two words written by two threads without a lock; timeouts | a paused thread does not run; a request is not lost; `destroy` ends |
| `mutex` (`core/cwMutex`) | pthread mutex and condition variable | lock, timed lock, unlock, wait, signal | a zero timeout means forever | a lost signal is survived by the timeout |
| worker pools (`core/cwThreadMach`: `thread_mach`, `thread_tasks`, `thread_ftasks`, `thread_atasks`, `thread_stasks`) | task array, next task index, done count, worker states or futex words | `run`, worker loop, `destroy` | late workers of a run that timed out; commands overwritten by late status | each task runs once per run; `run` returns after all; `destroy` ends |
| `MpScNbCircQueue`, `MpScNbQueue`, `MpScQueue`, `SpScBuf`, `SpScQueueTmpl` | rings and indexes | push, pop | wrap-around; slot freed while it is read | FIFO, no overwrite |
| `log` (`core/cwLog`) | level, flags, queue | `msg` from any thread, `exec` from one | overflow switches to direct output for good | order, no loss |
| `websock`, `websockSrv` (`io/cwWebSock`) | queue, message list per protocol, sessions | `send` from any thread, `exec`, callbacks of libwebsockets | messages shared by sessions, freed after the last reader | every session of the protocol gets each message once, in order |
| `ui` (`io/cwUi`) | widget tree, ids, sessions | create, destroy, value and echo messages | messages racing with creation | ids unique, parents exist |
| `io` (`io/cwIo`) | threads, timers, devices, audio groups, mutex | create, start, stop, exec; driver callbacks | callbacks from many threads, one lock; audio groups start when all devices are ready | callbacks are exclusive; a cycle starts with all its devices ready |
| `audio::buf` (`io/cwAudioBuf`) | ring per channel: `ii`, `oi`, `fn` | `update` from the driver, `getBuf`/`advance` from the application | two threads, wrap-around, over- and underflow | samples in order; fullness agrees with the indexes |
| `midi::device` (`io/cwMidiDevice`, `io/cwMidiFileDev`) | messages of all files, first, last and next message, state, position; ring of received messages | load, enable, seek, set end, start, stop, pause; the thread; `getBuffer`/`clearBuffer` from the audio thread | the application changes, without a lock, what the thread reads; a ring of two threads | messages leave in order, each once, from the first to the last; a window of the ring stays what it is |
| `midi parser`, `midi_state` | running status, system-exclusive buffer, note and pedal state | parse, ready-made messages | byte streams cut anywhere | complete messages in order |
| `flow` (`flow/cwFlow*`) | network, variables, presets, changed flags | create, exec cycle, set values from other threads | values set between and during cycles | a processor sees each change once |
| `io_flow`, `io_components` | program state, preset, record/play position | load, start, stop, callbacks | life cycle across threads | legal call sequences stay legal |
| performance tools (`cw/*`) | score and key state, detectors | reset, exec | long input sequences | a detector fires once per match |
| data and numerics (objects, variants, lexer, text, files, DSP) | -- | parse, format, transform | floating point and formats | covered by unit tests |

How they interact.  `io` creates `thread`s for its user threads, timers and
audio groups and stops them with `pause` and `destroy`.  `log`, `websock` and
the UI output share `nbmpscq`: any thread pushes, the main loop takes.  The
driver threads of audio, MIDI and sockets call into `io` and `audio::buf`; the
flow network runs inside an audio-group callback and may spread its processors
over a worker pool.

The hazards that follow from this are listed, at their lines, under `hazards`
in `PROJECT.json`.

## 2. Plan

Order, most important first; each module is parameterised by CONSTANTS with a
named ASSUME, has one action per handler or per shared access, and uses no
RECURSIVE operator.

1. `MpScFifo`, `NbMpScQueue` with proofs -- done.  The queue is the one structure
   every thread of the program goes through.
2. `ThreadState` with proofs -- done: the life cycle of every thread of `io`.
3. `SampleFifo`, `AudioBuf` with proofs -- done: the per-channel ring between the
   driver and the application.
4. `TaskRun`, `SpinTasks`, `CondTasks` with proofs -- done: `thread_stasks`, the pool that
   flow uses, and `thread_tasks`, against the same abstract run. `thread_ftasks` (futex) and
   `thread_atasks` (atomics) are used by their tests only.
5. `FlowVars` with proofs -- done: how a change reaches the processors and the UI.
6. `WebSock` with proofs -- done: message lists and sessions.
7. `IoServer` with proofs -- done: who is in the application when.
8. `AudioGroup` with proofs -- done: readiness of devices, calls of the application.
9. `MidiParser` with proofs -- done.
10. `MidiDevice` with proofs -- done: the playback thread and the ring it fills.
11. Proofs of what the liveness properties rest on -- done, except for `AudioGroup`.
12. `Log` (overflow, draining, order), `CircQueue` and `SpScBuf`, record/play
    -- open.

## 3. Modules

| Module | Models | Role |
|---|---|---|
| `MpScFifo` | what a multi-producer queue promises | abstract specification |
| `NbMpScQueue`, `NbMpScQueueProofs` | `core/cwNbMpScQueue.cpp` | detailed specification; theorems, refinement of `MpScFifo` |
| `ThreadState`, `ThreadStateProofs` | `core/cwThread.cpp`, the condition variable of `core/cwMutex.cpp` | specification; theorems |
| `TaskRun` | what `run()` of a worker pool promises | abstract specification |
| `SpinTasks`, `SpinTasksProofs` | `thread_stasks` in `core/cwThreadMach.cpp` | detailed specification; theorems, refinement of `TaskRun` |
| `CondTasks`, `CondTasksProofs` | `thread_tasks` in `core/cwThreadMach.cpp` with the threads of `core/cwThread.cpp` | detailed specification; theorems, refinement of `TaskRun` |
| `SampleFifo` | what a channel of an audio buffer promises | abstract specification |
| `AudioBuf`, `AudioProofs` | `io/cwAudioBuf.cpp` | detailed specification; theorems, refinement of `SampleFifo` |
| `FlowVars` | variables, notification and UI list of `flow/cwFlowTypes.cpp`, the cycle of `flow/cwFlow.cpp` and `flow/cwFlowNet.cpp` | specification; theorems in `IoServerProofs`, second part |
| `WebSock` | `io/cwWebSock.cpp` | specification, on the abstract behaviour of `NbMpScQueue`; theorems in `ThreadStateProofs`, second part |
| `IoServer`, `IoServerProofs` | callbacks, threads, timers, one-time threads, start, pause and stop of `io/cwIo.cpp` | specification, on the abstract behaviour of `ThreadState`; theorems |
| `AudioGroup` | audio groups of `io/cwIo.cpp`, `io/cwAudioDeviceFile.cpp` | specification, on a ring counted in cycles; theorems in `AudioProofs`, second part |
| `MidiParser`, `MidiParserProofs` | `core/cwMidiParser.cpp` | specification; theorems |
| `MidiDevice`, `MidiDeviceProofs` | the thread and the ring of `io/cwMidiDevice.cpp`, playback in `io/cwMidiFileDev.cpp` | specification; theorems |
| `MC...` | | bounds and values of the runs |

In the specifications of lock-free code one action is one access to memory that
another thread can see, sequentially consistent as the code's default atomics
are, together with the thread-local work next to it.  A variable `pc` (`wpc`,
`cpc`, `gpc`) says where each thread is between two accesses.  Variables that are the
code's have the code's names; the others are history: they record what happened
so that a property can speak of it, and no guard reads them, but for those that
are bounds.

### 3.1 The queue

`nbmpscq` carves nodes out of a fixed list of blocks and links them.  A node is
named by its block and the offset where it starts, so two allocations that
overlap are visible as such, and a node that is reused is the same name again.

| Code | Actions |
|---|---|
| `push`: size check, walk over the blocks | `PushBegin`, `PushScan` (`full_flag.load`), `NextBlock` |
| allocation | `PushAlloc` (`index.fetch_add`) |
| block found full | `PushMark` (`full_flag.exchange`), `PushAnnounce` (`cleanBlkN.fetch_add`) |
| header, copy, `eleN.fetch_add` | `PushWrite` |
| insertion | `PushSwap` (`head.exchange`), `PushLink` (`prev->next.store`) |
| `advance` | `Advance`, `AdvanceNone` (empty), `AdvanceCheck` (`cleanBlkN.load`) |
| `_clean` | `CleanSkip`, `CleanClaim`, `CleanEle`, `CleanIndex`, `CleanFull` |
| `get`, `peek`, `peek_reset` | `InitBlob` within `Advance`, `Peek`, `PeekReset` |

`raced` becomes TRUE when a block is reset while an allocation in it is in use.
From then on the memory of two nodes may be the same and the content of either
is undefined; the invariants are therefore stated, checked and proved for the
states up to that point, and that such a reset can happen is a finding of its own
(`queue_reset`).

### 3.2 The thread

`stateId` is written by the worker only; `doFlags` is written by the controller
and cleared by the worker after it has stored `kPausedThId`.  The worker's loop is
`Top` (is the thread paused?), `Wake`, `Woken`, `Start` (the pause state), `Func`,
`FuncFalse`, `FuncPause` (the callback returns true, false, or has paused its own
thread), `Ran`, `Cycle`, `Pausing`, `Clear`, `Exit`.  The controller's calls are
`Begin`, `Set`, `Request`, `Signal` (`pause()` and `unpause()`), `Destroy`, and
`Poll`, `Again`, `TimeOut` (`_waitForState()`).  A timeout may come at any look, a
signal is lost when the worker does not wait, and `pthread_cond_timedwait()` may
return for no reason.

### 3.3 The worker pool

Thread 0 is the caller of `run()` and `destroy()`.  `Take`, `Compare`, `Exec` and
`Done` are `_run_one_task()`, which workers and the caller share; `Begin`, `Lock`,
`WaitState`, `Wait`, `Got` and `Check` are `_worker_thread_func()` with
`_worker_wait()` and `_set_worker_state()`, whose two stores are two actions; `Run`,
`ResetDone`, `SetTasks`, `SetTaskN`, `Loop`, `Wake`, `WakeState` are `run()`; `Destroy`,
`Exit`, `ExitState`, `Join` are `destroy()`.  The number of runs is not bounded.

`CondTasks` has the same caller and workers for `thread_tasks`, on `cw::thread`: `Wait`,
`Start`, `Ran`, `Pausing`, `Clear` are the loop of a worker's thread, `Take`, `Compare`,
`Exec`, `Done`, `IsLast`, `Signal`, `SelfPause` its callback `_threadFunc()`, which pauses
its own thread, `Run` to `Awake` are `run()`, and `Destroy`, `Exit`, `Join`, `JoinTimeOut`
are `destroy()`, whose wait for a worker may run out after 100 ms wherever the worker is;
`slow` remembers one that ran out on a worker that was not at rest.  The wait of `run()` may
end without a signal (`EndWait`): by its limit, or spuriously.

### 3.4 The audio rings

A device has a ring per channel and direction.  `cmApCh`'s `ii`, `oi`, `fn` and `b` are
functions of the direction and the channel.  A sample is its number in the stream
of its channel, so a sample that is lost, repeated, overwritten or read from a
wrong place shows.  What changes the value of a sample (gain, tone, mute, meters,
the channel flags) is left out, and so are the time stamps.

| Code | Actions |
|---|---|
| a call of `update()` with a packet | `Update` |
| input packet, one channel after the other: fullness test, copy, `ii` and `fn` | `LoadIn`, `CopyIn`, `CountIn` |
| output packet: fullness test, shortened or zeroed packet, copy, `oi` and `fn` | `LoadOut`, `CopyOut`, `CountOut` |
| `isDeviceReady()` | `IsDeviceReady` |
| `get()` and what the client does with the pointers | `Work` |
| `advance(kInFl)`, `advance(kOutFl)`, per channel | `AdvanceIn`, `AdvanceOut` |

Input and output have a driver thread each, as the header allows; the ALSA driver
calls both from one thread, which is a subset of these behaviours.  The client calls
in the order `io`'s audio groups do.  `IsDeviceReady` looks at all channels in one
step: the driver only adds to input rings and only takes from output rings, so a
channel that was found ready stays ready while the next ones are looked at.
`primeOutput()`, which no caller in the repository uses, is part of `Init`, by
`PrimeCycles`.

### 3.5 Flow variables

A value that is set is a count of how often.  `VarSet` is `var_set()` and its list of
things to do (`Targets`): link the variable, then schedule and link each variable it
feeds; the application's `set_variable_value()` then schedules the variable itself.

| Code | Actions |
|---|---|
| `_mod_var_map_update()` | `Sched` (`modVarRecurseFl`), `Check` (`modN.load`), `Reserve` (`modVarMapFullCnt.fetch_add`), `TakeHead` (`modVarMapHeadIdx.fetch_add`), `Slot`, `Mark` (`modN.fetch_add`) |
| `var_send_to_ui()` | `Link` (`ui_var_link_fl.fetch_add`), `Exchange` (`ui_var_head.exchange`), `Chain` |
| `proc_exec()` and `proc_notify()` | `Enter`, `Load`, `Tell`, `Unmark`, `Release`, `Leave`; in between `ProcSet`, what the processor sets |
| `exec_cycle()` of flow and of a network | `BeginCycle`, `NextStage`, `EndCycle` |
| `_make_flow_to_ui_callback()` | `FlushFirst`, `FlushShow`, `FlushUnlink`, `FlushUnflag`, `FlushHead`, `FlushStub` |
| `set_variable_value()`, `send_ui_updates()` | `AppSet`, `SendUiUpdates` |

A stage is a set of processors that are executed together: one processor of a
network, or the voices of a poly processor, which its worker threads run.  With
`UiAsync` FALSE the application holds the callback mutex of `io` while it sets a
value, and so does the thread that executes a cycle.  Variables that are notified
by hand (`manualNotifyVarA`) keep no state and are left out.

### 3.6 The websocket

The queue is the abstract one: messages are numbered as they are sent, `popped` is
what `advance()` has taken, `peek` is the iterator.  `exec()` is `EndServing`, `Clean`
(`_cleanProtocolStateList()`, per protocol, and `peek_reset()`), then `Link` and
`Request` for each new message and each session, until `PeekEnd`.  While sockets are
served libwebsockets calls back: `Established`, `Closed`, `Writeable`, `WriteFails`
(the write failed after messages for others were skipped, and the session closes).
A socket whose peer does not read is not served until the next time.

### 3.7 The I/O server

`_ioCallback()` is `Ask` (`startedFl`), `Lock`, `LockTimeOut`, `Return`.  Its callers are
threads of the thread machine (`ThreadBegin` and `TimerBegin`), drivers (`DriverBegin`),
one-time threads (`ThreadBegin`, then `JobDone` and `JobExit`) and `exec()` (`ExecBegin`).
`cw::thread` is reduced to its state and its request, but the two stores with which a
thread enters its pause are two actions (`ThreadEnd`, `Clear`), so that a request that is
stored in between is lost here as in the code.

| Code | Actions |
|---|---|
| `start()`, `pause()`, `stop()` | `Api`, for each thread `Request` and then `Arrived` or `WaitTimeOut`, `FinishStart` (which calls `stop()` after a failure), `FinishStop` |
| `exec()`: `_thread_once_cleanup()`, callback | `Exec`, the same steps, `FinishJobs`; `ExecBegin` |
| `threadRunOnce()` | `RunOnce`, then `Arrived`, or `OnceTimeOut` and the wait of its error path, `FinishJobs` |
| `destroy()`: the thread machine, then the forced clean-up of the jobs | `Destroy`, the same steps, `FinishDestroy` twice |
| `timerCreate()`, `timerStart()`, `timerStop()`, `timerDestroy()` | `TimerCreate`, `TimerStart`, `TimerStop`, `TimerDestroy` |

A wait for a thread may run out at any step, wherever the thread is (in its sleep, in the
callback, waiting for the mutex, before its request or after), and also if it has just
got there.  The application's thread makes these calls outside its callback or inside.
A timer's thread that uses an array which `timerCreate()` has released reads anything
(`base`, `gen`).  Nothing is modelled after `destroy()` has returned.

### 3.8 Audio groups

`AddDevice` builds the lists of a group.  `_audioDeviceCallback()` of a driver thread is
`Packet` (hardware), `Load` and `Store` (`_audioDeviceUpdateReadiness()`), `Notify`, `Decr`
and `PutBack` (`_audioGroupDecrReadyCount()`), `Signal`, and `Sync`, `Execute`, `Tell`,
`Synced` (`_audioDevSync()` and the file driver's `deviceExecute()`); `FileWait` to
`FileRun` are the thread of the file driver, and `GroupWait`, `BufIsReady`, `Advance` that
of the group.  Both threads may also wake without having been told (`FileSpurious`,
`GroupSpurious`), which `waitOnCondVar()` passes on as a signal, or by their limit
(`FileTimeOut`, `GroupTimeOut`).  The counts that the code calls atomic are loaded and
stored in two steps, as they are; the store and the update of the rings next to it are one
step, because no thread reads both.

### 3.9 The MIDI parser

One action is a byte of `parseMidiData()`, with the callbacks it makes, the end of
the call (`EndCall`), or `midiTriple()`.  Any byte may come at any time: a status that cuts
a message short, data without a status, a real-time or any other status inside a
system-exclusive message, one whose end is lost, and an end of nothing.  `heard`
follows the stream by the standard and `due` has what is complete and was not given
to the client, so `InStreamOrder` compares the parser with the standard; it does as long
as system-exclusive messages come whole (`proper`), since the parser treats the others
differently (section 6).  `crowded` remembers that a byte met a buffer without room for it,
which is where an assertion can fail.

### 3.10 The MIDI device

A message is its port, its place in its file and its time.  `Load` draws any order that
is sorted by time, since `std::sort()` promises no more.  Time is counted in small
units and stands still at `Top`, when everything is due.

| Code | Actions |
|---|---|
| `_thread_func()` | `Look` (is the file device playing?), `Time` (`elapsedMicros()`), then `Wake` or `Input` (`poll()` of the ALSA ports) |
| `file_dev::exec()` | `Eof` or `Exec`, `Scan` for each message that is due, `Scanned` or, if the assertion after the loop fails, `Abort`; `Sleep` |
| `_packetize_and_transmit_msgs()` | `Pack` (next message), `Flush` and `Flushed` (next message is of another port), `Packed` |
| `_callback()`, the ring | `Cell` for each message, `Store` (`buf_ii.store`) |
| `getBuffer()`, `clearBuffer()` of the audio thread | `GetBuffer`, `ClearBuffer` |
| `load_messages`, `portEnable()`, `seekToMsg()`, `setEndMsg()` | `Load`, `LoadFails` (the file cannot be opened), `LoadUnder`, `PortEnable`, `SeekToMsg`, `SetEndMsg` |
| `start()`, `stop()`, `pause()` | `Start`, `Stop`, `Pause`, `Unpause` |

No lock is held anywhere.  `calm` says that playing has not been disturbed since
`start()`: only then is it defined what must be played (`plan`).  A load releases the array
the thread reads.  One that is over before the thread comes to `exec()` is `Load`, also
while it plays; one that meets the thread in `exec()`, or may, is `LoadUnder`, and what
follows it is undefined and not modelled.  The other calls may come at any time, but each
is one step.  After `Abort` there are no steps.  A ring of which the device has logged that
it is full is not followed further.

## 4. Runs

| Run | What it checks and shows |
|---|---|
| `queue` | In every interleaving of two producers and the consumer, up to a bad reset: nodes in use do not overlap, messages come out in order and all of them do, `cleanBlkN` is exact up to what is under way, any number of peeks return the stored records in order, a full queue gets room again if messages are left when its last block is announced |
| `queue_reset` | Finding: `_clean` resets a block a producer is still allocating from |
| `thread_calls` | In every interleaving of the worker and a controller: pauses are quiet, cycle limits are exact, no run starts without a request, requests are answered |
| `tasks_runs` | Any number of runs on two workers of `thread_stasks`: the pool implements `TaskRun`, `run()` ends |
| `pool_runs` | The same for `thread_tasks`, also after a run that overlapped another or was given up; `destroy()` leaves nobody inside the pool, unless one of its waits ran out on a worker that was not at rest |
| `audio_ring` | In every interleaving of the two driver threads and the client, with over- and underflows: `fn` agrees with indexes and content, client and driver use the right samples, every ring implements `SampleFifo`, channels part only after a counted fault |
| `flow_notify` | A source, two voices executed concurrently, a mixer, feedback and settings by the application: each processor is told the last value of its variables before it executes, and the UI gets the last value of each it shows |
| `websock_send` | Two sessions of a protocol that open, close, fail and lag at any time: messages are written once and in order, none is removed early, no list refers to memory that was given back, all are sent if no session opens or lags at a bad time |
| `io_calls` | Two timers, a driver, a job and the application, with waits that run out anywhere: synchronous callbacks exclude one another, a successful `pause()` or `stop()` is quiet, a stopped timer is late once at most until its array is moved, calls return without their time limit unless a request was lost |
| `audio_calls` | A hardware input and a file at its clock, with a wait that ends spuriously or by its limit: the file is read once per tick at most, unless an update crossed an execution and the thread then woke untold; the calls of the application go on |
| `midi_parse` | Any bytes, cut into calls anywhere: complete messages in order, none held back, as long as system-exclusive messages come whole; the assertions fail in the two cases of section 6 only |
| `midi_play` | Two files, loaded (or not, when that fails), enabled, sought and ended by the application while the thread plays and ALSA ports are polled: undisturbed, the messages that were set to be played leave in order, each once, and all of them, unless the assertion on the message after the last one aborts; what the audio thread reads from the ring is what was delivered |

Each property states in a comment, in its module, what it says about the code.
A type invariant that is proved (section 5) is not checked again by a run.

**Bounds.**  `queue`: two blocks of two units and nodes of one and two units make all cases
of an allocation happen -- fits, starts inside and ends outside, starts outside -- in a
block that is full, cleaned and used again; two pushes per producer make four nodes for four
units of memory, so pushes fail and are tried again. Peeks are not bounded: walks of all
four records, with links missing, happen. `queue_reset` needs blocks of one node only.
`thread_calls`: four operations are enough for a pause, an unpause, a repeat of either after
a timeout, and a destroy; the cycle limit of two, with callbacks counted to three, tells
exact from one too many and one too few. `tasks_runs`: two workers, arrays of one and two
tasks, a worker woken after every task; `next_task_idx` is counted to 2, past both task
counts. `pool_runs`: the same calls, and one run that finds a worker not at rest
(`MaxRash`). `audio_ring`: rings of eight samples, client buffers of two, input packets of
three and four: the third packet overflows a ring the client has not emptied and wraps
inside a packet, an output packet of four finds four, two or no samples, and three packets
go around the ring.  Two channels are the fewest that can part. `flow_notify`: four
settings, so that one variable is set twice and two voices schedule variables of one
processor at once; head indexes count to 12, a multiple of every map's size.
`websock_send`: three messages and two sessions, to one or to all. `io_calls`: the two
timers are also the threads of the thread machine (a thread made by `threadCreate()` is a
timer without its flags; the theorems are for any number of both); with two slots the array
is moved once under the first timer, and five calls are enough to create and start two
timers and stop, or to stop, start and stop again after a wait that ran out.  `audio_calls`:
rings of two cycles, and one wait that ends untold (`MaxUntold`), by its limit or
spuriously: one is enough to find a tick too many.  `midi_parse`: ten units for messages of
three, so that neither fills the buffer exactly; an end of nothing comes while `msgCnt` is
at most two (`MaxStale`), because each one leaves it as it is and it only grows; the state
is finite without a bound on the stream. `midi_play`: two files with messages of the same
time, a message that is due at once and one that is due later, a ring of three cells, which
holds two messages and wraps at once, and ALSA packets of one and two messages.  Four calls
that change what is played are enough to seek, set the end, load another file and disable a
port; with the ring, of which the calls know nothing, one is.

**Constraints.**  `queue` does not go past `raced`, and `tasks_runs` does not go past
`Known`: neither history variable ever returns to the value the properties ask for, so no
state left out could violate one of the invariants.  `tasks_runs` checks liveness under the
constraint `Known`; `RunEnds` is conditional on `settled`, which is false for ever in each
state left out for that reason.

**Fairness.** Queue: a producer that is inside `push()` goes on, and the consumer polls:
`exec()` of the log and of the websocket are called from the main loop for the life of the
program. Nobody has to push. Thread: the worker goes on, except that its wait on the
condition variable ends for certain only when it was signaled or has a time limit; the
controller goes on inside a call; nobody has to call, and the callback returns. Pools: every
thread is scheduled, the tasks return, nobody has to call `run()` or `destroy()`. Flow:
every thread is scheduled and the audio group, or `exec()`, goes on executing cycles; nobody
has to set a value.  MIDI device: its thread is scheduled, `poll()` has a limit, and time
passes; nobody has to call anything. These are weak fairness of a thread's own steps. Three
need strong fairness: a websocket session that is polled again and again is found writable
in the end (its peer reads); `exec()` of `io` and its return happen again and again although
other calls come between them (no wait for a thread has to run out); a hardware stream sends
a packet again and again although the driver thread is often busy.

The audio rings and the MIDI parser have no liveness property: whether input comes is
up to the device.

**Deadlock** is checked where the system goes on for ever, in `audio_calls`; the others
may stop -- producers and controllers stop calling, a destroyed thread, pool or server has
no step, packets end at `MaxPkt`, a failed assertion aborts the program.

## 5. Proofs

All theorems hold for every value of the constants that satisfies the named assumption of
the module (`QueueAssumption`, `ThreadAssumption`, `SpinAssumption`, `AudioBufAssumption`,
`IoAssumption`, `AudioGroupAssumption`, `MidiParserAssumption`, `MidiDeviceAssumption`:
times in a file do not fall, packets are not empty, sizes are natural numbers, bounds
included).  The bounds of the runs (`MaxPush`, `MaxOps`, ...) are constants too, so the
proofs cover any bound. A proof module may hold the theorems of two components that belong
together; the second one's specification then has names of its own (`WsSpec`, `FlowSpec`,
`GroupSpec`).  Beyond the assumptions, a theorem has the hypothesis it states: `OneSends`
for the websocket.

Liveness is beyond the prover, but what it rests on is not.  A property that something
happens in the end can fail in two ways: the scheduling starves it, which the fairness
excludes, or the system reaches a state from which nobody will do it any more: a signal
that nobody is left to give, a request that was overwritten, a counter that never
reaches its limit.  That no such state is reached is an invariant, and for most of the
liveness properties it is proved, for every size: the theorems that say what a
property rests on, below.

- **`NbMpScQueueProofs`.**  `TypeCorrect`; `QuietInvariant`, the inductive invariant behind
  the rest; `FifoAlways`, `NoOverlapAlways`, `ListIntactAlways`; and `QuietRefinesFifo`,
  that the queue without a bad reset implements `MpScFifo`, where `PushSwap` is the push and
  `Advance` the take.  Order and no-overlap are not inductive by themselves: that a message
  taken is the one pushed needs that its node was written before the swap and not since,
  which needs that no other allocation shares its memory, which needs that every node in use
  lies below its block's `index`, which a reset breaks unless no node is in use.  `QuietInv`
  is the conjunction of these facts: the chain from the tail is duplicate-free and linked up
  to what producers still owe, each pending node is owned by one producer and in no chain,
  extents in a block are disjoint and below `index`, and each node in the chain carries the
  message that `sent` has at its position.  `CleanAlwaysExact` (`CleanAccounting`) needs
  none of that and holds after a bad reset as well: each step moves one block between the
  full ones, the marked ones and the one being reset. `PeekAlwaysInOrder` follows the peek
  along the chain of `QuietInv`. `ElementsCounted` and `NothingLeftBehindAlways` are what
  `DeliversAll` and `FullIsTemporary` rest on: `eleN` is the number of nodes in the list and
  of those written but not exchanged yet, so that a full block whose nodes were taken is one
  that `_clean` resets and `cleanBlkN` sends `advance()` to; and an empty list with nobody
  about to link was taken to its end.
- **`ThreadStateProofs`.**  `TypeCorrect`; `NoGhostRunAlways` for every controller and
  callback: it needs that a request to run in `doFlags`, or in the worker's hands, is one
  that stands (`asked`).  `QuietAlways` and `CycleExactAlways` for a strict controller, one
  that waits in every call and was not timed out: they need what `strict` means at each step
  of a call, namely that the worker has finished with the request before the next call
  begins, or is between its two stores. `RequestAlwaysStands` is what `RequestAnswered`
  rests on: while a settled controller waits, its request stands and the worker is on the
  way that leads to it.
- **`WebSock`, in `ThreadStateProofs`.**  `WebSockTypeCorrect`, `NeverDangles`
  (`NoDangling`), `NothingLost` (`NoneLost`) and `AlwaysInOrder` (`InOrder`), for any
  number of messages and sessions of one protocol that sends (`OneSends`): with two
  they are false (section 6), and in the program only the UI sends.  The argument
  counts again: the count of a listed message is the number of sessions it was
  written to or skipped for, unless one of these was closed since (`lossy`), so that a
  message whose count reaches the number of sessions was due to nobody else; and
  the list is cleaned from its head, in step with the queue.  Even the type of the count
  needs an invariant: it stays within the number of sessions ever opened.
  `NoSessionForgotten` and `NothingEverStuck` are what `AllSent` rests on: while the server
  is calm, a session that lacks a message is to be called back, and when none is, the
  next clean-up empties the list.  `ServeInv` counts calls back against messages.
- **`SpinTasksProofs`.**  `TypeCorrect`, `NoStrayAlways` and `TasksOnce`, the refinement
  of `TaskRun`.  The argument counts: while the arguments are known, indexes in the
  hands of threads are different and below `next`, each task that began has one of
  them, and `done_cnt` plus the tasks being executed is at most the number that
  began.  Hence `done_cnt` reaches `taskN` only when all tasks of the run ended, and
  nobody is inside one.  A worker of the run before that takes an index between two
  stores of `run()` is why `CallInv` speaks of each store separately, and why
  `Known` is needed: with new arguments and a late worker the claim is false.
  `NoTaskEverForgotten` is what `RunEnds` rests on: each index below `next` is counted in
  `done_cnt` or in the hands of a thread, so that a run that is not done has an index left
  for the caller, or a thread with a task.
- **`CondTasksProofs`.**  `CondTypeCorrect`, `DestroyAlwaysSafe` (`DestroyIsSafe`: also when
  waits run out anywhere, up to one that runs out on a worker that is not at rest, under
  which the pool is released) and `CondTasksOnce`, that `thread_tasks` implements `TaskRun`
  up to a run that overlapped another or was given up.  `run()` does not look at `done_cnt`
  when it is woken, so it has to follow from the signal: there is one only after the last
  task (`CondDone`), and a worker that is still inside the callback then finds no index
  below `taskN` and pauses itself.  `SignalNeverLost` is what `RunEnds` rests on here: while
  `run()` is blocked and nothing was signaled, some worker has a task, ended the last one,
  or will take an index while there are tasks left.
- **`AudioBuf`, in `AudioProofs`.**  In two layers.  `GaugeInv` gives `TypeCorrect` and
  `FullAlwaysExact` for all sizes: a thread that found room or samples still finds
  them when it uses them (`RoomInv`), because the other thread only makes more; hence
  every change of `fn` stays inside the ring, and the difference of the indexes is `fn`
  up to whole turns.  `ContentInv` gives `ClientWindowAlways`, `DriverWindowAlways` and
  `RingsImplementFifo`: what was taken is followed in the ring by the `fn` samples that
  are left, a packet or the client's work is written behind them before it is
  counted, and an index of the client is a multiple of its step.  The last part needs
  `Whole`, that the ring's length is a multiple of the step, which `setup()` intends
  and does not ensure (section 6); the two window properties say so themselves, the
  refinement has it as an assumption.  The lemmas on `Holds` and `Fills` are about one
  ring and carry the wrap-around.  `FaultAlwaysFirst` (`FaultFirst`): channels of a
  direction that have not counted a fault have moved by the same packets and steps,
  those a call has reached one further.

- **`IoServerProofs`.**  `IoTypeCorrect`, `CallbacksExclude`, `PauseIsQuiet`, for any number
  of threads, timers, drivers and jobs, and with waits that run out anywhere.  Quiet needs
  more than that `startedFl` is down: a thread that has passed the look at it must have been
  waited for, so the invariant says for each thread, while `pause()` or `stop()` is under
  way and has not failed, that it is paused or still on the list, and, while nothing is
  started, that a thread that is not at rest has not asked since.  One thread is excepted
  (`hasty`): `thread::pause()` returns at once for a thread whose state is paused, also when
  the request of a `start()` that gave up on it is still before it. `LateOnceAlways` holds
  for every slot until `timerCreate()` moves the array away from under the thread of a timer
  in it, which is where the code is wrong (section 6): a thread that knows the slot and is
  late can only be the last that used it. `CallsAnswered` is what `CallsEnd` rests on: the
  thread that a call waits for is there or has ended, or has the request still before it at
  a place from which it gets there, or the request was lost between the two stores of a
  pause, which is shown to happen to requests to run or to end only.
- **`FlowVars`, in `IoServerProofs`.**  `FlowTypeCorrect` for every network, also with
  asynchronous sets.  `ChangesAlwaysTold` (`ChangesToldInTime`) under `FlowSync`, the
  application holds the callback mutex and a processor does not set what it wants to be told
  of, which `modVarRecurseFl` would skip; and for behaviours in which the head index does
  not wrap in a map whose size does not divide 2^32 (`Unwrapped`): there the property is
  false (section 6).  `ChangeInv` has three layers.  `PhaseInv` and `SourceInv` say who may
  be at work: the application between cycles, the processors of one stage in them, so that a
  variable is scheduled by one thread at a time and while its processor is idle, which is
  what makes the unlocked test of `modN` safe.  `MapInv` is the ring: the count is that of
  the variables marked or about to be, so it never exceeds the map and nothing is given up;
  the head is the tail plus the slots handed out; threads between taking a slot and writing
  it have different ones, none of them that of a variable already there.  `SeenInv` is the
  purpose: a variable of a processor is seen, or marked, or still on somebody's list.
  `UiListAlwaysSound` (`UiListSound`), under the same two conditions: in a map that gives a
  slot up the rest of `var_set()`, which links the variable for the UI, would be left out.
  `UiInv` adds three parts.  `FlaggedInv`: only variables with `ui_var_link_fl` set are
  being linked, each by one thread.  `ListInv`: some sequence is the list in the order in
  which the head was exchanged.  While threads push (`PushList`) the pointer to a variable
  is its predecessor's, missing until its thread stores it, and the thread still knows the
  predecessor; while the list is emptied (`PopList`) the sequence is what is left of it, and
  nobody pushes.  `ShownInv`: the UI has seen the value of a variable, or it is flagged, or
  a thread still has to link it.  The property walks the list with a recursive function,
  `ListNode`; the proof gives the function that walks the sequence and shows that the two
  agree, by a least index at which they would not (`NodeIs`).
- **`AudioGroup`, in `AudioProofs`.**  `GroupTypes` and `TicksCounted`, for any devices, and
  `OnePerTickAlways`, for a file driver with one device.  `TicksCounted` counts: executions
  less updates of a device are what its ready count says, up to the thread between its
  load and its store, until an execution stores its count over an update it has not seen,
  which leaves a tick too many.  With one device that does no harm while the thread wakes
  only when told, because each signal has an execution of its own before it; with
  several devices the signal of another is enough to find that tick (section 6).
- **`MidiParserProofs`.**  `AssertionsHold` and `BufferNotOverrun`, for any buffer and
  message sizes: `state`, `dataIdx` and `dataCnt` agree, and what is in the buffer is either
  channel messages, counted by `msgCnt`, or bytes of one system-exclusive message. They are
  for any bytes, up to the states in `crowded`, in which the assertions do fail.
  `AlwaysInStreamOrder` (`InStreamOrder`) for streams whose system-exclusive messages come
  whole (`proper`): what is due is what is in the buffer, and the message the parser is
  inside has as many bytes as the standard has seen of it.
- **`MidiDeviceProofs`.**  `MidiTypeCorrect`, for which `PlaceOK` is needed: between two
  steps of the scan and of the packets the indexes the thread holds are in range
  although the application moves `next_wr_msg_idx` and `next_rd_msg_idx` under it.
  `RingExactAlways`, for any ring size: the messages between `buf_oi` and `buf_ii` are
  `due` (`DueOK`), the window of the audio thread is its beginning (`WinOK`), and the
  cells that `_callback()` has written behind `buf_ii` are its packet and do not reach
  `buf_oi`, measured from the `buf_oi` it read at the beginning (`PacketOK`); the audio
  thread has only moved forward since.  `Written` and `Dist` carry the wrap-around.
  `PlaysInOrderAlways` (`PlaysInOrder`): while nobody disturbs the playing, what was
  played are the indexes of the plan below the place of the thread, and a packet is
  the messages of one port that follow; the scan ends at a message that is later than
  now, at the end of the array or behind the last message set, so that the assertion
  fails in this last case only.  `NothingLeftOutAlways` is what `AllPlayed` rests
  on: what is still to be played is what `exec()` finds from `next_wr_msg_idx` on, it does
  not take the array for played before, and since the array is in order of time, which
  is proved of every array `Sorted` admits, the unsigned time to the next message has
  not wrapped.

Only model-checked: the properties under fairness themselves (`DeliversAll`,
`FullIsTemporary`, `RequestAnswered`, `RunEnds`, `UiCatchesUp`, `AllSent`, `CallsEnd`,
`GroupRuns`, `AllPlayed`), which need a temporal argument about fairness and ENABLED that
the prover does not treat.  What they rest on is proved, for `UiCatchesUp` as
`UiListAlwaysSound`, except for `GroupRuns`: two driver threads that put back the ready
count of a device at the same time may lose it, and it takes the next packet to
restore it, so that no invariant says of a single state that the calls go on.  Every
safety property of the runs is stated by a theorem.

## 6. Findings

1. **A block is reset under a producer** (`queue_reset`).  `_clean` takes a full
   block with `eleN` 0 for unused, but a producer that has read `full_flag` and added
   to `index` counts its element only later.  The messages that are pushed next
   overwrite each other.

Found by model checking while the models were written, and not kept as runs:

- `cleanBlkN` is negative: `push` sets the flag before the counter; a `_clean` in between
  claims the block first, and `advance()` reports `kInvalidStateRC`.
- The queue stays full: blocks are cleaned by `advance()` only.  When the last message
  is taken before a failing push marks the remaining blocks, and the consumer asks
  `is_empty()` first, as the logger does (`core/cwLog.cpp:150`), nobody cleans: hence the
  condition `Left` of `FullIsTemporary`, without which it is violated.
- `destroy()` is erased: the worker stores `kPausedThId` and then clears `doFlags`.  A
  request made in between is lost, and `destroy()` times out.
- `thread_stasks::run()` spins for ever: `next_task_idx` is reset before `done_cnt`; a late
  worker that executes task 0 in between is not counted.
- Channels part: `update()` tests each channel's fullness when it comes to it.  An
  `advance()` in between makes it drop or cut a packet for one channel only; the
  channels are then a packet apart until the device is set up again.
- `thread_tasks`: `run()` called while a worker is on its way to its pause (right after
  another run, as its test does) may hang until its limit: the worker overwrites the request
  to run with its own to pause.  `destroy()` in that place times out and leaves the worker
  behind.  A worker that is in a task for longer than 100 ms does the same:
  `thread_tasks::_destroy()` logs the failure and releases the mutex and the array the
  worker uses (`core/cwThreadMach.cpp:246-267`).  A spurious wakeup, or the late signal of a
  run that was given up, makes `run()` return `kOkRC` early: it does not look at `done_cnt`.
  `run()` with no task waits for ever.
- Flow: when `modVarMapHeadIdx` wraps at 2^32 and `modVarMapN` does not divide it, head
  and tail part and a change is told of the wrong variable (`Word` 4 with a map of 3
  violates `ChangesToldInTime`).  If the application sets values asynchronously (`UiAsync`),
  a variable may be linked while the list is emptied: `UiListSound` and `UiCatchesUp` are
  violated, and the variable is never sent to the UI again.
- Websocket: a message is removed when it was written to as many sessions as there are
  now, and sessions are asked to be written when a message is linked.  A session that
  opens in between, or one that lags so that two requests become one, is never asked
  again; `exec()` links nothing behind a message it has seen before, so the list and the
  queue stay as they are (`AllSent` without its condition).
- Websocket: the head of a list is compared with the oldest message of the queue by
  ids that each protocol counts for itself.  With two protocols that send
  (`ProtocolN` 2) `NoDangling` is violated; in the program only the UI sends.
- `io`: with more than one timer, `timerCreate()` releases the array that the threads of
  older timers use; `LateOnce` without its condition `Moved` is violated.
- `io`: a request to run or to end that `start()`, `threadRunOnce()`, `exec()` or
  `destroy()` stores while a thread is between the two stores of its pause is lost; the call
  ends by its limit only (`Lost` in `CallsEnd`).
- `io`: after a `start()` that gave up on a thread, `pause()` and `stop()` take the thread
  for paused, succeed, and the thread then meets the old request, runs, and may be in the
  application (`hasty` in `QuietWhenPaused`).
- `io`: a `stop()` or `pause()` in a callback that a thread waits behind fails unless the
  limit of the mutex is shorter than its own, and fails for ever once a timer was destroyed
  and its thread has ended; `startedFl` then stays set.
- `io`: `threadRunOnce()` releases the record of its thread when its wait ran out
  (`io/cwIo.cpp:2770-2776`), and `exec()` that of a thread that has set `doneFl` and is not
  out of its callback when the wait for it ran out: neither looks at what
  `thread::destroy()` returns.  `thread_mach::_destroy()` likewise releases the machine
  although a thread did not end, and the server keeps its handle
  (`core/cwThreadMach.cpp:61-82`).
- Audio file driver: when an execution loads its count before an update and stores it after,
  the device has a tick too many.  A spurious wake of the thread, which
  `mutex::waitOnCondVar()` does not tell from a signal (`core/cwMutex.cpp:170-206`), or,
  with several devices on the driver's clock, the tick of another one, then runs it once
  more.
- MIDI device: the assertion of `io/cwMidiFileDev.cpp:840`, that the next message is later
  than now, fails when a last message is set and the one after it is due too, as in a
  chord: the program aborts, before the messages just taken are sent.  `PlaysInOrder` and
  `AllPlayed` name the case.
- MIDI device: when a file cannot be opened, `_load_messages()` has closed the old file of
  the port but leaves its messages in the array, and the port enabled: they are played on
  (`io/cwMidiFileDev.cpp:484-498`).
- MIDI parser: a status inside a system-exclusive message that has filled the buffer to
  within a message of its end, which the standard allows for real-time statuses and which
  a lost end brings about, has the bytes transmitted and the status stored without room;
  the assertion of `core/cwMidiParser.cpp:103` fails.  An end of nothing that meets a full
  buffer fails that of line 269.  `NoAssertFails` names both (`crowded`).
- MIDI parser: an end of nothing sends the messages in the buffer as a system-exclusive
  one, empties it and leaves `msgCnt` as it is; the next transmission of channel messages
  reads that many from an empty buffer (`core/cwMidiParser.cpp:85-93`).

Read in the code and not given a run:

- The peek iterator is not moved by `advance()`; it may stand on a record that was
  taken and overwritten.  `PeekInOrder` covers the walks between two advances.
- `pause()` decides on the state it read on entry: after a timeout, or without
  `kWaitFl`, it returns `kOkRC` for a thread whose request to run is still pending
  (hence the condition `strict`).
- `pause()` stores `cycleCnt` also when it pauses, though the header says the
  argument is ignored then.
- `pauseMicros` below 1000 makes the wait unlimited, and `destroy()` does not signal.
- `thread::pause(h)` with its default arguments unpauses; `socksrv::stop` and the
  `stop` of the audio file device call it so.
- `thread_stasks`: a worker that reads `state_id` between the two stores of
  `_set_worker_state()`, or stores `kWaitOpId` over `kExitOpId`, never exits and
  `destroy()` joins for ever; a thread that has not set `created_fl` is not joined
  and its memory is released; `timeOutMs` is not used; the index wraps after 2^32
  turns of the loop in `run()`.
- `_cmApIoInitialize` adds `n % dspFrameCnt` to `n`, which rounds up to a multiple only
  if the remainder is half of `dspFrameCnt`.  With any other remainder the client's window
  ends past the ring, where `get()` gives a plain pointer.  The same follows from
  `primeOutput()` when the primed silence is not a multiple of `dspFrameCnt`.
- An empty output channel zeroes the whole interleaved packet, also what the channels
  before it have put there, whose samples are gone.
- An output channel with fewer samples than the packet shortens the packet for the
  channels that follow.
- `muteFlags()` reports the tone flag.
- `_audioGroupDecrReadyCount` stores the old value of `readyCnt--` back, so the ready
  counts never go down; the test of the rings in the group's thread makes up for it.
- `_audioGroupAddDevice` finds the end of a list with a loop over the head itself: of three
  devices in a direction the first is dropped, and `get()` and `advance()` never see it.
- The file driver calls `_update_device(d,true)` for a device without the internal clock,
  too (`io/cwAudioDeviceFile.cpp:593`): mixed with devices that have it, such a device
  is written twice per tick.  `readyCnt` is loaded and stored in two steps
  there, although the comments say "atomic incr".
- `_timerCreate` takes the slot of a deleted timer without clearing `deletedFl`, so the new
  timer cannot be started and its thread ends at once; a thread that has ended makes every
  later `pause()` and `stop()` of `io` fail.
- `io::_destroy()` destroys the callback mutex before the drivers are stopped
  (`io/cwIo.cpp:2426`), and `_threadRelease` reads the link after the end of its list.
- The MIDI parser counts every end of a system-exclusive message as an error; a status of
  the system inside such a message ends it, although the standard allows it for real time,
  and one whose end is lost stays in the buffer with what follows: either violates
  `InStreamOrder` without its condition `proper`.  `midiTriple()` takes 0xff for "no data"
  and drops the reset status.  The program uses `midiTriple()` and `transmit()` only.
- MIDI device: `start()`, a seek or a load while the thread is inside `exec()` moves the
  indexes it works with, or releases the array it reads (`io/cwMidiFileDev.cpp:372`);
  nothing locks.
- MIDI device: that the ring is full is only logged; the copying goes on, and the audio
  thread then finds the ring empty or reads messages that were written over.
- MIDI device: `pause()` goes back to the position at which the thread planned to wake,
  so what follows a pause comes early by the time it had left to sleep;
  `elapsed_micros` has 32 bits and wraps after 71 minutes.

## 7. Not modelled

The parts listed `not_modelled` in `PROJECT.json`: drivers, files and sockets are thin
wrappers of the operating system; parsing, text and objects are sequential and have unit
tests; signal processing is floating-point arithmetic, and most of the flow processors are.
`MpScNbCircQueue`, `MpScNbQueue` and `MpScQueue` have no caller but tests; the log's
overflow and the record/play application are open.  Of the MIDI device: ALSA itself, latency
measurement, reports, and the ring after it was full.  Within the modelled parts: memory is
sequentially consistent (most of the code uses the default order of `std::atomic`, or
acquire and release, and the plain fields it shares are read next to atomics); `create()` is
the initial state; logging and memory allocation are left out; counters are not 32 bits
wide, but for `modVarMapHeadIdx`.  Of `flow`: building a network, presets, values and the
processors themselves.  Of `io`: the parsing of the configuration, `quitFl`, meters, serial
ports, sockets and MIDI devices except as callers, and what happens after `destroy()` has
returned.  Of the websocket: the service of libwebsockets and `recv`.
