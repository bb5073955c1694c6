# A verification of grabit

grabit takes screenshots and records the screen on Wayland. This directory holds TLA+ models of
the parts of it that are hard to test, the TLC runs that check them on small instances, and
proofs, checked by TLAPS, of the properties that matter most for every size. Paths below are
relative to the repository's `src/` directory.

`PROJECT.json` lists the components, the runs, the map from definitions to source lines, the
hazards and the findings.

## The system

One binary; each invocation does one thing and ends, except a recording, a pin, the persistent
tray and the clipboard server, which live on as processes of their own.

| part | code | state it keeps | operations | how it meets the others | what is hard | what makes it correct |
|---|---|---|---|---|---|---|
| frame pipeline | `record/ring.c`, `pw.c`, `loop.c` | frame pool, ring, encoder thread, clock, stream flags | capture, push, pop, evict, pause, resume, stop | main thread, encoder thread and PipeWire thread under two mutexes; atomic flags set by signal handlers | three threads, wakeups, a full ring, an exhausted pool, stalls | no buffer has two users, no lost wakeup, frames in order and in time, every frame accounted for, a stop ends it |
| recording session | `record/record.c`, `segments.c`, `ffmpeg.c`, `publish.c` | segments, ffmpeg children, files | begin, pause, resume, stop, abort, join, compress, upload | forks ffmpeg, feeds it through a pipe, signals from outside | every call can fail halfway; children die at any time; signals during waits | footage is never lost, nothing incomplete is published, an abort leaves nothing |
| recording tray | `tray/tray.c`, `sni.c`, `menu*.c` | shared flags, menu label | pause, stop, abort from a menu; label updates | a forked process; signals both ways; D-Bus to the tray host | inherited handlers, merged signals, either side dying, a host that comes and goes | a request is served once, labels catch up, no orphan, the icon is known |
| pid-file lock | `util/proc.c`, `record/pid.c`, `tray/apptray.c` | file, inode lock, content | toggle: stop the running one or start | any number of invocations through the file system | every system call is an interleaving point; crashes | one recording at a time, and it can be found |
| recording controls | `record/controls*.c`, `overlay.c` | bar, handle, expansion, rise, two buffers each | hover, press, touch, animate | writes the flags that signals write | a surface destroyed under the pointer, animations turned round, frame callbacks | a recording is never left without its controls, a press is meant |
| setup and screencasts | `record/setup.c`, `compose.c`, `screencast.c`, `sc_*.c`, `pw.c` | session, stream, size, pool | choose a source, open, negotiate, bind, close | D-Bus, Wayland, a PipeWire thread | an announcement before the answer, a renegotiation at any time | no frame larger than its buffer, no announcement missed |
| capture | `capture/*.c` | one frame per output, a session per recording | freeze, screencopy, ext-image-copy, KWin's pipe | Wayland events, a pipe and the bus | resized or stopped sessions, short pipes, timeouts | a picture that is handed on is whole |
| taking and saving | `main.c`, `app/*.c`, `capture/save.c`, `paths.c` | temporary file, path, preview | capture, save, upload, copy, show, ocr | files in the pictures and the runtime directory; children | failures, cancelled selections, signals, two at once | a capture is never lost, nothing is left behind |
| region selector | `region/*.c` | region, annotations and their selection, tool, undo and redo stacks, surfaces, caches | press, drag, key, undo, redo, nudge, cancel, confirm | Wayland input and two timers in one poll loop | long sequences of gestures; timers and keys in the middle of a drag; cached drawing | undo and redo are inverse and miss nothing, an annotation has one owner, the screen is current |
| keybinds | `region/keybinds*.c`, `keycapture*.c` | values, keymap | capture, store, parse, dispatch | configuration, the selector | precedence of explicit bindings and defaults | what is bound fires |
| pins and cards | `pin/*.c` | socket, lock, pid file, window per output | open, grab, release, close, replace, drag | datagrams and files between processes | start against broadcast, outputs that go, redraws | a pin that runs can be reached, a card gives way, what changes is drawn |
| plugins | `plugin/*.c` | work tree, link, checksum, lock | install, update, remove, run | git, a build, a download as children | a kill between two steps, a new version in between | a command never runs an unverified binary |
| clipboard | `clipboard/*.c` | selection, a child that serves it | offer, send, cancel | forked server, one byte through a pipe | timeout against late answer, partial writes | the report matches the selection |
| configuration | `config/*.c`, `region/edit_persist.c` | config.toml and state.toml | load, set, unset, reset, remember | files without a lock; lines the user wrote | two writers, a kill, a reader and an editor of TOML that differ | settings are what was last asked, the file stays readable |
| upload | `upload/*.c` | response, chunk position | preflight, upload, retry smaller | HTTP | a rejected chunk | a url only for a whole file |
| menu bar | `menu/*.c` | tab, bar, hover | unfold, choose, annotate | the selector's loop and surfaces | animations and redraws | it comes to rest, and is drawn as it is |
| monitors | `wl/*.c` | outputs, serial, logical sizes | three roundtrips, registry events | every part that needs an output | order of announcements, monitors that come and go | what is believed of the monitors is true |
| window managers, ocr, notify, sound, pixels, helpers | `wm/`, `ocr/`, `notify/`, `sound/`, `capture/`, `util/` | little | request and answer, conversion | D-Bus, sockets, children | framing | - |

## The modules

| module | what it is | EXTENDS |
|---|---|---|
| `FrameRing` | source, encoder and main thread around the pool and the ring | |
| `FrameTrace` | FrameRing with histories: the frames' sequence numbers, segments and fates | `FrameRing` |
| `FrameQueue` | what the ring promises: a bounded queue that gives up its oldest frame | |
| `FrameRingQueue` | the refinement mapping from FrameRing to FrameQueue | `FrameRing` |
| `CaptureClock` | when the frames of a recording are taken, and what time counts | |
| `Controls` | bar and handle of a recording | |
| `CastStream` | sessions with KWin and Mutter, the PipeWire stream and its pool | |
| `Footage` | the three above and the frames' histories | `FrameTrace`, `CaptureClock`, `CastStream`, `Controls` |
| `RecSession` | segments, children, files, signals and results of one recording | |
| `RecTray` | recorder and tray process, signals between them, the label at the host | |
| `PidLock` | any number of `grabit --record` (or `--tray`) and the pid file | |
| `Recording` | the three above | `RecSession`, `RecTray`, `PidLock` |
| `RegionEdit` | the annotation editor of the region selector: gestures, selection, undo and redo | |
| `PinIpc` | sockets and locks of pins, and the commands that broadcast to them | |
| `ShowCard` | the cards of `--show` that replace each other | |
| `Pins` | the two above | `PinIpc`, `ShowCard` |
| `Plugins` | install, update, remove and run, with kills and new versions | |
| `Upload` | preflight, single and chunked uploads | |
| `Clipboard` | commands, their children and the selection | |
| `Shot` | a capture from its start to its file | |
| `Settings` | config.toml and state.toml under concurrent invocations | |
| `ConfigText` | the lines of config.toml as they are edited and read | |
| `Keybinds`, `MCKeybinds` | capture, parse and dispatch of key bindings; a small keymap | `Keybinds` |
| `Commands` | the seven families above | `Plugins` .. `MCKeybinds` |
| `Grab` | the three capture protocols | |
| `Screen` | one surface of the selector, its cache, and the menu bar | |
| `TrayHost` | the icon on the session bus | |
| `WlOutputs` | the monitors a process knows of | |
| `PinWindow` | the window of a pin on all outputs | |
| `Desktop` | the five above | `Grab` .. `PinWindow` |
| `FrameRingProofs` | theorems about the ring, the pool and the threads around them; the ring implements the queue | `FrameRingQueue` |
| `RegionEditProofs` | theorems about the undo history of the editor | `RegionEdit` |
| `FootageProofs` | theorems of the frame pipeline's records, clock and cast, and of the controls | `Footage`, `FrameRingProofs` |
| `RecordingProofs`, `PinsProofs`, `CommandProofs`, `DesktopProofs` | theorems of the parts of each | `Recording`, `Pins`, `Commands`, `Desktop` |
| `OutputsProofs` | theorems of the monitors a process knows of | `Desktop`, `DesktopProofs` |

A module with a state machine has one action per critical section, system call or handler, named
after it. Operators called *Slip* in their comments are plausible bugs: each is a variant of the
definition after it and is not part of the specification; for each checked property one of them
is known to break it.

`Footage`, `Recording`, `Pins`, `Commands` and `Desktop` put parts together that share no state: processes,
files and surfaces of their own. Each behaviour of such a module is one of one part (the
variables of the others stand still), so its run asks the questions of all parts at once without
multiplying their states. Where parts do interact (the frame pipeline's three threads, the
recorder with its tray and its children, the pins with the broadcasts, commands with each other
through files) they are in one module and interleave.

**FrameRing.** `busy` is `buf_pool.busy`; `slots`, `head`, `tail`, `stopped` are `struct ring`;
`srcPc`, `encPc` and `mainPc` are where the three threads are. The same module is a wlr recording
(`PipeWire = FALSE`, the source is the main thread between two rounds of `rec_capture_loop`) and a
PipeWire one (the source is `on_process`). A critical section under `ring.mu` or `pool.mu` is one
step. A frame is known by its buffer; pixels and sizes are left out, deadlines are in CaptureClock.

**FrameTrace** adds counters and, for each frame, its sequence number, its segment and whether the
clock was paused when it was captured. It bounds the attempts and the segments.

**CaptureClock.** `clk` is `struct rec_clock` with `frame_idx` and the deadline. Time passes at any
point, so any call may stall; a pause, a stop and the loss of the connection may come at any point
too. History counts frames, segments and the ticks in which a segment was open.

**RecSession** follows `record_toggle` from the first `seg_begin` to its end. A child is `run`,
`killed`, `ok`, `bad` or `reaped`; a file is `none`, `part` or `whole`. The encoder thread is a
flag; `FrameRing` has the detail. `stop`, `pause` and `abort` can be set by a signal at any step,
and `on_abort_signal` is two steps, as its two stores are.

**RecTray** has a set of pending signals per process, as the kernel does, so two signals of a kind
merge. Which handler runs depends on how far the child has come. With `Broadcast` the user pauses
with `pkill`, with `RecorderMayCrash` the recorder may die at any point.

**PidLock** has every system call as a step: open, flock, ftruncate, write, read, kill, close,
unlink. An inode is named by the process that created it; `ex` and `sh` are its flock state.

**RegionEdit** has one action per branch of the handlers of button, motion, key, axis, touch and
timer events (`ginp_button_event` alone is twenty of them). `doc` is what is edited, `ui` the
flags of `struct ro_state` on which the branches depend. Coordinates are abstracted: an annotation
has a position and one number for size and colour, a region is one of a few rectangles, and what
lies under the pointer is chosen by the event. Presses and releases need not alternate, since the
toolbar, a panel or a second device may take one of a pair. An undo item keeps its index into the
list of annotations, as in the code; the group number becomes nesting. `lapse` records that an
edit was lost to the history, which the code does in three ways: the region changes with no
snapshot armed (`Lapse`), the history is walked in the middle of a gesture (`Busy`), and an abort
puts back one of several moved annotations (`SeveralMoved`). `HistoryIsSound` holds all the same;
`EverythingUndoable` is stated for the behaviours without them.

**PinIpc.** A pin is a pid with its socket and its lock file; both names can be unlinked by the
clean-up of a broadcast (`pin_ipc.c:182`), and the pid comes back with another life. A broadcast
lists the directory, tests each lock, sends, and goes on; every system call is a step. `raced`
names the pins a broadcast looked at while they were starting.

**ShowCard.** Each new card kills the one that the pid file names, forks, and its child locks the
file; a card that ends clears the name after having looked whose it is. All of it interleaves.

**PinWindow.** `win` is `struct pin_state` with the known outputs, on one axis. Redraws obey the
frame callbacks and may find no free buffer; motion comes in halves of pixels; outputs come and go
between any two events, and the loop notices at the end of a round.

**Plugins.** A plugin is a work tree with a binary and a link that makes it a command. Every step
of install, update and removal is one at which the process may be killed, and the author publishes
manifest and binary in either order. `plugChecked` are the binaries that were verified.

**Upload** has the server answer as it likes, "too large" too, and keeps what it took.
**Clipboard** has the command wait up to its timeout for a byte of its child, and any copy take the
selection at any time.

**Shot.** Invocations that use the same name meet in the pictures and among the temporary files.
A file is absent, partly written or whole, and somebody's; an action ends in success, failure, a
cancelled selection or a signal at any step.

**Settings** has each read, patch, rename and clear of the two files as a step of one of two
invocations, which may be killed. **ConfigText** has one command after another, and instead the
lines: how `cfg_file_edit` tells headers and keys in text that a user has written, how the TOML
reader does, and how the two meet. A line is a header, a key or something else, with a comment
behind it or not; the characters are abstracted to what `line_is_section`, `line_key` and
`is_bare_safe` tell apart.

**Keybinds.** Values are sequences of bindings; parsing, the pushing out of equal defaults, and
the order in which the actions are asked are operators, captures are actions. `MCKeybinds` gives
it the smallest keymap in which defaults differ in a modifier only.

**Grab.** Every event of wlr-screencopy, of an ext-image-copy session and its frames, and both
ends of KWin's pipe, with failures and timeouts. **Screen** is one surface with its two buffers,
frame callback and cached picture, plus the tab and the bar of `--menu`. **TrayHost** has the
watcher and the host come and go, with queues of messages in order. **Controls** has the surfaces,
callbacks and buffers of bar and handle and their two animations. **CastStream** has the PipeWire
thread renegotiate and deliver beside the main thread. **WlOutputs** has a queue of requests and
one of events, and monitors that move, come and go during and after the start.

## The runs

| run | question | result |
|---|---|---|
| `FrameRingDirect` | buffers, wakeups, encoder and end of a wlr recording | hold, and a stop always ends it |
| `FrameRingQueue` | does the ring of a PipeWire recording implement the queue | it does; and it ends once the loop is left |
| `FrameRingStreamStop` | does a stop always end a PipeWire recording | violated: see findings |
| `Footage` | are a wlr recording's frames written in order, all accounted for, no paused time, and taken in time; a sound cast; controls at rest and presses that are meant | yes |
| `Recording` | session: is footage kept, does it end as asked, does a stop end it; tray: pauses, labels, ends, a crash; lock: one recording, findable, and one that is told to stop ends | hold, with any child or call failing, short of the cases named below |
| `RegionEdit` | are undo and redo inverse, complete and free of double owners, for any order of events | yes |
| `Pins` | is a pin that runs reached, does a close reach it, does a card give way | yes, short of pins that raced |
| `Commands` | verified plugins, whole uploads, honest copies, kept captures, surviving settings, a config.toml that follows the commands, honoured bindings | hold, short of the cases named below |
| `Desktop` | whole frames, a current screen, a known icon, known monitors, a pin's surfaces and redraws | hold |
| `SetIsRead` | is a value that was set there when the file is read again | violated: see findings |
| `ControlsTap` | does a tap on the handle open the bar | violated: see findings |
| `KeysFire` | does what was captured for an action fire it | violated: see findings |

Each module keeps its type invariant beside its properties; those of FrameRing and PidLock are
proved (`Typing`, `PidTyping`).

**Bounds.** `RingCap` 3 and `PoolSize` 3 or 4 instead of 16 and up to 17: enough for the
ring to wrap, to be full while the pool is not exhausted, and to be exhausted while the ring is
not full (`PoolSize = RingCap`). `FailLimit` 1 or 0 instead of 30: one tolerated failure and one
that ends the loop. FrameRing needs no other bound, its state is finite. FrameTrace needs
`MaxAttempts` 6 (a ring that wraps and evicts) and `MaxSegments` 2. CaptureClock: `Period` 2 and
`MaxTicks` 13, so that a stall of more than four periods fits with a frame on either side, and
`MaxParts` 2, one resumption. RecSession: `MaxSegs` 2,
one child finishing while another runs, and a join. PidLock: three processes, one that ends, one
that enters and one that finds both. RegionEdit: two annotations, the
fewest that can be reordered, moved or deleted together; three groups to undo (two additions and an
edit of both); one change of the region and one of a size among them; two things at once
(`MaxAtOnce`: a drag and a held key), and no new edit after a lapse.

Pins: one pid with two lives, so that a name can outlive its pin and be taken again, two
broadcasts that clean up behind each other, a queue of one message, so that it is full; three
shows, one that is replaced, one that replaces and one that comes between. PinWindow: two outputs,
one of them plugged in later or unplugged, widths of one pixel, and `MaxMotion` 2, a pixel and
what is left of it. Plugins: two operations and two versions. Upload: sizes up to 7 in chunks of
2 and 5, so that a chunk divides the file, does not, is the file, and is halved twice. Three
copies; two captures with four file names; two invocations that change settings, with values of
their own. ConfigText: files of three lines, a section between two keys, and two commands.
Keybinds: two symbols, a mouse button, two captures, bindings and watches. Grab: two
outputs, two widths, two frames, an image of 2 with up to 3 in the pipe, a patience of 2. Screen:
animations of two ticks and two annotations. TrayHost: a host that starts twice, two calls that
wait. Controls: two ticks. CastStream: three sizes. WlOutputs: two monitors, two changes of the
arrangement. What does not depend on these bounds is proved for all
values where the proofs below reach.

**CHECK_DEADLOCK FALSE** appears where the system really stops: in Footage when the bound on
attempts is used up, in RegionEdit when the selector is finished, in Pins, Commands, Desktop and the
runs of their parts when a command has ended or a bound is reached. The other runs are checked for
deadlock: FrameRing and the parts of Recording have an explicit step for being over.

**Fairness.** Weak fairness of each thread and process: the scheduler runs them, mutexes are held
for a copy of a struct, handlers return. For ffmpeg: it reads its pipe or dies, and ends after
the end of its input (`Child`, `Tool`), but nothing says it fails on its own (`ChildFails` is not
fair). The tray host answers (`HostFetches`). A pin that runs serves its socket and a broadcast
goes on (`PinIpcFair`). What the user does is never fair, nor is the source:
nobody promises that a stream slows down. PidLock has no fairness for starting or for stopping,
only for the system calls of a process that is on its way and for a stop flag that is set. The
other modules state safety only; what comes to rest is stated of the states in which nothing is on
its way (`ControlsAtRest`, `HostIsServed`, `BarSettles`).

## Findings

1. `StopEndsRecording` (FrameRingStreamStop). Pausing a PipeWire recording drains the ring before
   it pauses the stream, in a loop that does not look at the stop flag. A stream at least as fast
   as the encoder keeps the ring from ever being empty; the pause never completes and no stop is
   seen (`record/loop.c:257`, `record/segments.c:59`).
2. `SetIsRead`. `cfg_file_edit` takes a line for a header only if it ends with the bracket
   (`config/patch.c:48`). With `[s] # note` in the file, `grabit set s.b x` adds a second `[s]`,
   and with a dotted `s.a = 1` a `[s]` of its own: the file cannot be parsed any more, and the next load sets it
   aside. A decimal number in place of a bare one stays bare and is dropped by the loader
   (`config/config.c:84`).
3. `TapOpensBar` (ControlsTap). `touch_up` folds the bar whenever a finger lifts, also the one that
   opened it (`record/controls_input.c:149`): after a tap no button can be reached, where
   `OPTIONS.md` says that it opens the bar.
4. `CapturedFires` (KeysFire). Only the bindings of an action push equal defaults out, not those of
   a tool; a default that wants no Shift wins over an explicit binding with Shift; a mouse button
   captured for most actions is never asked for (`region/keybinds.c:113`).

## What the code does and its documentation does not say

This behaviour is in the models, and the properties are stated beside it. No run is about it.

- A further signal while ffmpeg joins or recompresses is forwarded to it as SIGINT, because the stop
  flag is still set (`util/proc.c:86`): the segments are kept, but a partial file has the final
  name. `EndsAsAsked` leaves that file out (`FinalizedNotPartial` states it).
- `pkill -USR1 -x grabit` reaches recorder and tray, and both flip the shared flag
  (`tray/tray.c:38`; `Broadcast` of RecTray).
- `unlink_pid_file` closes, then unlinks (`record/pid.c:34`): a process that locks in between loses
  its name and a third one records beside it. `OneRecordingUnlessOverlap` starts where no teardown
  overlaps; `OneRecording` is the claim without that.
- `region_drag_active` does not count the drag of a new region (`region/input_gesture.c:42`): Escape
  or the right button then ends the selector (`CancelAbortsDrag`).
- The three lapses of `RegionEdit` lose an edit. A release of the undo or a nudge key counts only
  if the modifiers are still those of the press (`region/input_keyboard.c:93`): with Ctrl let go
  before z, undo repeats until nothing is left.
- For the reason of the first finding, frames that PipeWire delivers between the pause and the pause
  of the stream are encoded, in the ending segment or the next; `PausedTimeNeverWritten` is about
  wlr.
- A resumption that fails leaves the clock with the start of the segment before: the pause counts as
  recorded, and the bit rate of a compression is too low (`record/loop.c:138`; `unbegun`).
- A SIGTERM from `tray_stop` that arrives before `install_signals` is taken by the inherited handler,
  and the recorder waits for a child that goes on (`tray/tray.c:125`; `TrayHandlesInherited`).
- The shared lock of a process that only asks for the owner makes another one's exclusive lock fail
  (`util/proc.c:170`; `LockRefused`): that one gives up although nobody records.
- AboutToShow always answers that nothing changed (`tray/menu.c:71`): two toggles between two steps
  of the clock leave the label of the first.
- A broadcast that finds the socket of a pin whose lock is not yet taken unlinks both
  (`pin/pin_ipc.c:182`; `raced`): that pin is never reached.
- `clip_write_all` clears O_NONBLOCK, so the limit on a stalled reader (`CLIP_WRITE_STALL_MS`)
  is never reached.
- The path of a capture is chosen before an interactive selection (`paths.c:276`; `clash` of Shot):
  two invocations may write the same file.
- A key that another command changes between the read and the rename is lost (`config/patch.c:223`,
  `config/config.c:217`; `unsure` of Settings).
- A resize told in the dispatch that brings the frame cuts the region out of the old buffer with the
  new size (`capture/ext_image_copy.c:172`; `late` of Grab).
- A stream that is renegotiated to a smaller size is accepted while ffmpeg was told the first one
  (`record/pw.c:63`): the bytes fit, the picture does not.
- `record_toggle` destroys ring and pool before `pw_capture_close` stops the PipeWire thread
  (`record/record.c:331`).
- A handle that had not begun to rise when the bar was opened stays behind, with nothing in it
  (`record/controls.c:417`).
- The menu bar compares the address of an output of a connection that is closed before the selector
  opens its own (`menu/menu.c:130`): whether the bar is on an output at all is up to the
  allocator (`same` of Screen).
- Without the logical sizes of xdg-output, a size computed once from the scale is not computed again when
  the mode changes (`wl/output.c:149`; `KnownWhenSeen` of WlOutputs leaves that case out).

## The proofs

Each theorem holds for every value of the constants that satisfies the named assumption of its
module; none assumes fairness. Where a module puts parts together (`Footage`, `Recording`, `Pins`,
`Commands`, `Desktop`) a step of the whole is a step of each part or leaves it alone, so each part
has an inductive invariant of its own and the theorem is about the specification the run checks.
Each invariant was checked by TLC before it was proved.

**`FrameRingProofs`**, for every `RingCap >= 2`, `PoolSize >= 1`, `FailLimit` and both sources:
`Typing`, `OneHolder`, `NoWakeupLost`, `PauseDrains`, `OneEncoder`. The properties are not
inductive: that the encoder never holds a queued buffer needs to know which threads hold buffers
at which program counter, and that a pause leaves nothing behind needs to know when an encoder
may have ended. `IInv` adds these: `HandsMatchPc`, `MainKnowsEncoder`, `MainKnowsSource`,
`FailuresBounded`, `EndedMeansEmpty`. Lemmas about `Window`, the set of queued entries, carry
the arithmetic of the ring: what a push, a push onto a full ring and a pop do to it.

Its second part proves the refinement `Spec => ImplementsQueue` on top of `IInv`: the
entries from `tail` to `head`, read as a sequence, are the queue. A push appends, a push onto a full
ring drops the first and appends, a pop takes the first, and every other step of the three threads
stutters; the lemmas are about the index arithmetic modulo `RingCap`.

**`FootageProofs`.** *Frames* (`FrameInv`): `Accounting`, and `OrderOfCapture` from `Order`: what is
written, being encoded, queued and held by the source has increasing numbers in this order, below
the next one. `PauseIsNotFilmed` adds that no frame on its way is of a paused moment; it is stated
under `~PipeWire`, as the callback of a PipeWire recording may be between its look at `paused` and
its push when the pause comes. *Clock* (`ClockInv`): `TimeIsKept` for every period. The claim relates
frames, segments and ticks, and to be inductive it needs how far the index may be ahead of the
time (`ShotsHaveTime`), when a frame that is waited for is due (`WaitIsDue`), and how much a burst
may still catch up (`BurstEnds`). `Span(n) == n * Period` keeps the multiplication away from the
solver. *Cast* (`CastInv`): `CastIsHeard`, as only a bound stream fills buffers and Mutter is
started when its signal is listened for. *Controls* (`CtlInv`): `ControlsComeToRest` for any lengths of
the motions, and `PressesAreMeant`. Each operation is taken as a function of a record of the
controls, and the invariant has a part per question: an open bar is there and one that is gone has folded
(`BarIsThere`), the picture of a configured surface is right or a draw of it is due (`BarIsDue`,
`HandleIsDue`), and the controls are told where the pointer is (`HandOk`).

**`RecordingProofs`.** `NoFootageLost` and `RecordingsEndAsAsked` from `SessInv`, for any number of
segments. It says the order of the stores of a signal and of the loop's reads (`AbortOrder`), what is
open at each place of `record_toggle` (`Control`), that a child that is not reaped is the current one
or pending and never both (`ChildrenHeld`), which segments have footage that a stop must keep
(`ShotIsKnown`), where each file is between a segment, the joined file and the compressed one
(`FilesHeld`), and what an end leaves (`EndIsKnown`). `RequestsAreFollowed` (`TrayInv`) is stated under
`~Broadcast`: when the user signals with `pkill`, the tray is told no more than the recorder.
The pid file, for any set of processes and both teardown orders: `PidTyping`, `OneRecorder`
and `Findable` from `PidInv`, and `LockInRecording` for the whole recording: what a process has open follows from where it is, who records holds
the exclusive lock on it, and until a teardown overlaps everybody who has the file open to lock it has the
one the path names. That a lock has at most one holder is the type of `ex`; that two recorders
would then hold the same lock is the argument.

**`PinsProofs`.** `ServingPinsAreReachable` (`PinInv`): until two starts raced for a name, a pin
keeps its socket and its lock file under their names while it serves, and a broadcast that looks at
it finds the file locked with its pid in it. `CardsMakeRoom` (`CardInv`): the card that is up is the
one the file names, unless its own handlers were not there yet; a command that comes after it is on
the way to read it, and a signal that was sent is remembered until the loop looks.

**`CommandProofs`.** `CopiedMeansOwned` (`ClipInv`: a child that says it is ready owns the selection, and
the pipe says what became of the child). `OnlyVerifiedRuns` (`PlugInv`: who changes anything
holds the lock, an unfinished install has no command, and from the verification on the binary is
one whose checksum was compared). `ReportedIsWhole` (`UpInv`: the pieces the server has follow each
other, `start` is where they end, and only the last one is marked so), for every size of file and chunk.
`BindingsFire` holds for any values of the configuration: it needs that each default fires its own
action (`DefaultsAssumption`, which the run evaluates for the tables of the code), and that
an action which is first among the defaults is first among fewer bindings (`FirstOfFewer`). `PicturesSurvive` (`ShotInv`): who wrote a file that is still there has it as its path
from the moment it opened it, and nobody else uses the path of an invocation that met nobody. Each step
of one invocation changes one file at most, and it is shown once that the others keep theirs
(`ShotGoesOn`). That a free number exists is the pigeonhole principle: there are more numbers than
invocations (`ShotAssumption`), each has one file at most, and the user has number 0.
`SettingsOutlive` (`SetInv`), for any number of invocations and any values: what an invocation has
read is what the files still say, unless it has it `stale`. The key that may be in both files,
`edit.color`, needs more: which of them shows while a `set` has yet to clear state.toml (`Clears`),
once an `unset` has cleared it (`Undoes`), and when a value in config.toml is covered, so that what
another invocation puts there changes nothing (`Hidden`, `PutOf`, `PutBeside`). Each write leaves
those who read before it with what it wrote stale (`Spares`, `OthersOk`). The proof found an error
of the model that two invocations cannot reach: with three, an `unset` that had cleared the state, a
capture that wrote it again and a load that set config.toml aside, the save of an absent file
(`EditSaves`) counted the key as sure although the invocation had it stale. `unsure` holds it now.

**`DesktopProofs`.**

- `HostGetsAnswers` (`TrayInv`). Counting is the argument: a host that runs and does not know the icon
  has a registration under way or the icon has the news of it, and what it is owed is the number of
  its calls in the icon's mailbox and of replies in its own. `Waiting`, a cardinality of
  positions, stands for a fold; its lemmas say what appending and taking do to it.
- `GrabsAreWhole` (`WlrInv`, `ExtInv`, `KwinInv`). For ext-image-copy the invariant follows the size along
  the queue of events: at each `ready` still to be read, the width the client will have by then
  is that of the frame.
- `ScreenStaysCurrent` (`ScreenInv`). A cache that counts as current is the picture of the list but for what is
  dragged, and while the bar moves a frame was asked for, or is coming and will be drawn, or the
  loop will wake and ask.
- `SurfacesFollowOutputs` and `ChangesAreDrawn` (`WinInv`). `WindowOk` says of one window that its
  surfaces are those that are wanted, unless the loop has yet to look, that the pointer is on one of them,
  and that each shows the pin or will. It is kept by every operation, taken as a function from a
  window to a window. That the clamps give numbers needs that a finite set of numbers has a least
  one (`LeastExists`, from the well-foundedness of inclusion). `PinWindowAssumption` says that there are
  finitely many outputs, at integer positions.

**`OutputsProofs`.** `OutputsStayKnown`, for any finite set of monitors, from `OutInv`. Its core is
`Follows`: what the record of a live output says is true, or the truth is on its way, as a request that
is not answered, an event that is not read or the removal of the monitor. `InTime` says that for a
monitor heard of in the first roundtrip it arrives before the end of the roundtrip that waits for it:
ahead of the `synced`, or asked for ahead of the `sync`. The rest is about the two queues. One
roundtrip is under way at a time (`SyncOk`); a monitor is announced once, bound before its size is
asked for (`BoundFirst`), and told of before it is removed (`HeadOk`); the last that is told of a
place and of a size is true (`LastTrue`); and whatever is told is followed by a done (`ThenDone`), so
a picture taken at the present serial is right or the serial is about to move (`PictureOk`). The
lemmas say what each of these keeps when a queue loses its head or grows at its end, and the steps
are taken one monitor at a time. That the n-th live output exists is an argument on
cardinalities; that the box around all of them is one uses `LeastExists`. The list is filtered as a
set of places (`LiveAt`) and not with `SelectSeq`, whose recursive definition cannot be reasoned about here.

**`RegionEditProofs`.** `HistoryIsSound` and `EverythingUndoable`, for any number of annotations,
positions, sizes and regions and any `MaxAtOnce`. The undo and the redo stack hold groups of edits that name annotations by their
place in the list, so a group means something only for the list it was recorded with.

- The invariant (`DocOk`) follows the list of ids alone, since no edit of a position or size changes
  it. `GroupFits` says of a group that walking it from its last item, each item finds the list it was
  recorded for and leaves the next one; `Fitting` says of the whole document that the undo stack
  fits from the top down, starting with the list as it is, and the redo stack likewise. With it goes that an
  id is held in one place (the list or one item) and that the list is ascending at every point of every
  walk.
- That undo and redo are inverse is a fact about one item (`Inverted` undoes `Applied` where it fits),
  lifted to a group, as the inverse group is recorded in the order the items are applied and walked
  backwards, and then to any number of undos or redos.
- Every event keeps `DocOk`: it changes no id, or it pushes a group that fits. The hard one is
  `region_delete_selected`, whose group puts back several annotations at their old places: the lemmas on
  `InOrder`, the ascending enumeration of a set of places, show that removing the selected ones
  from the back and inserting them from the front pass through the same lists.
- `ApplyGroup`, `Undos` and `Redos` are recursive functions over an interval. The induction theorems of the
  library cannot be used with these provers, so `Steps` derives induction from the well-foundedness of `<`
  as a statement about sets, and `WalkExists` that such functions exist.
- `EverythingUndoable` is about what is seen, the positions, sizes, colours and the region (`Sight`), so
  ids do not suffice. `Shows(g, p, q)` says that walking the group `g` takes the picture `p` to `q`, each
  item recording what a redo needs to draw the same; `Told` says of the undo stack that its groups
  lead from a picture, one to the next, to the picture the selector opened with.
- In the middle of a gesture the list and the history disagree: a move is recorded when it ends, a size or
  colour when its first change is made, with more changes to come. The invariant (`TInv`) therefore
  says of every list the gesture may leave or be taken back to (`Future`: moved annotations where they
  were grabbed, sized ones with any size) that with the region as it was when the
  gesture began the stack tells the way from that picture to the opening. It also needs that no
  gesture goes on while a text is typed (`TextAlone`), and holds for as long as there is no `lapse`.
- `UndoTells` and `RedoTells` move one group between the stacks and keep this; `StraightUndone` counts the
  undos down to the opening. There is one lemma for each kind of edit, and one for the presses, drags,
  keys, history events and aborts, since these differ in what they leave under way.

What TLAPS does not reach here: liveness (no rule for fairness in this prover), so `StopEndsRecording`,
`StopReachesEnd`, `LabelCatchesUp`, `TrayEnds`, `ToldEnds`, `CloseReachesPins` and
`LeavingLoopEndsRecording` stay with TLC. So does `TextFollowsCommands`, which rests on library
operators that are recursive (`FlattenSeq`, `SortSeq`, folds over the lines of a file).

## What is not modelled

- Pixels, encodings and file formats (`capture/pixels.c`, `png.c`, `jpeg.c`, `webp.c`, `tonemap.c`,
  `transform.c`): numeric data without control, better served by golden tests.
- Drawing and layout: `record/compose.c`, `overlay.c`, `region/annotate_paint.c`,
  `toolbar_icons.c`, `pin/text_card.c`, thumbnails, icons, the geometry of the menu.
- The window managers (`wm/*`): one request to a socket and a parse of the answer, nothing kept.
- OCR and translation, notifications and sound: one subprocess, request or message each; the files
  around them are in Shot.
- The command line parser, the help and the schema of the settings; the sxcu template language; TOML
  values of several lines (`cfg_file_edit` knows none either).
- Toplevels (`wl/toplevel.c`) and colour management (`wl/color.c`).
- In the selector: the mode without annotations, toolbar dragging, the hex field and swatches, the
  magnifier, snap animation. The timers of undo and nudge are in RegionEdit.
- Among the hazards in `PROJECT.json`, those with a note have no property, or not for every case.

## Plan

Proofs: every safety invariant and action property of the passing runs but `TextFollowsCommands` is a theorem;
what is added to the models is to be proved with it.

In the models: the rest of the region selector, the framing of the window managers' sockets, TOML
values of several lines.
