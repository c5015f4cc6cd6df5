# A TLA+ verification of espos-p4-cockpit

espos-p4-cockpit is the firmware of a touch panel for boats: an ESP32-P4 that
subscribes to a Signal K server, renders layouts pushed to it over HTTP with
LVGL, raises alarms, plays chimes and spoken replies, and shows remote web
applications as an MJPEG stream. This directory holds TLA+ models of its core
logic, TLC configurations that check them on small instances, and theorems
TLAPS checks for every value of the constants.

Paths below are relative to `src/`; `jlp/` stands for `main/jlp/`, `hal/` for
`components/cockpit_hal/`.

## 1. Inventory

### Tasks

The firmware is a handful of FreeRTOS tasks around one *UI task*. The UI task
owns LVGL; every other task hands it work with `cockpit_hal::ui::post`, a FIFO
of lambdas drained one after the other (`hal/src/ui.cpp`). A lambda posted from
the UI task itself runs at once.

| task | runs | talks to |
|---|---|---|
| UI | layouts, widgets, registries, overlays, dimmer | everything, by being posted to |
| SignalK stream (espOS) | `on_update`, `on_notification` | UI queue |
| httpd | the JLP API (`jlp/net/http_api.cpp`) | UI queue and a semaphore per request; audio port; stream diagnostic |
| fetch tasks | REST seeds and zones, applicationData, drop-here | UI queue |
| wake discovery | asks the server's wake service whether it is ready | the satellite's wake host |
| stream session | MJPEG decode, render hand-over, ACK | UI queue, `render_sem` |
| audio | clips one by one | codec mutex |
| voice (espOS satellite) | captures, spoken replies | codec mutex, capture mutexes |

### Components

| component | state | operations | what makes it hard | what makes it correct |
|---|---|---|---|---|
| notifications registry (`jlp/notifications_registry.*`) | live paths, acknowledged severities, self-clear and reassert marks | `apply`, `acknowledge` | the echo of our own ACK looks like a clear by the source; streams drop deltas | an ACK never hides an escalation; a genuine clear re-arms |
| alert overlay (`jlp/alert_overlay.*`) | shown path, threshold | `on_change`, `rebuild`, ACK, `configure` | several alarms, observers, tap guard | shows the registry's most severe unacknowledged alarm; beeps for fresh ones only |
| screen: dimmer, wake overlay, banner, badge, sun state | backlight, visibility and z-order of each overlay | polls, touches, deltas | four owners of one z-order | an alarm is on top and lit; dark only by night |
| brightness (`app_main.cpp`, `@brightness` slider) | setting, backlight | API write, drag, release | two tasks, one posts and one runs at once; a drag writes the display past the dimmer | backlight follows the setting |
| HTTP hop (`http_api.cpp`) | a request's state, the UI queue, the snapshot's busy flag | `POST /layout`, `POST /select`, `GET /hello`, `GET /snapshot` | handler gives up while its lambda is queued or running; `/hello` reads the name on another task than the screens | a 504 means what it says; one snapshot at a time; the names of `/hello` enclose its screens |
| layout manager and store (`jlp/layout/*`, `layout_fetch.cpp`, `subject_registry.cpp`) | live widgets, subjects, subscriptions, the stored blob | validate, build, swap, collect, persist, boot, fetch | subjects outlive layouts; power fails between steps | a persisted push is what boots; kinds agree; a live path is subscribed while the table has room |
| subject feed (`subject_registry.cpp`, `zone_fetch.cpp`) | readings of bound paths | delta, seed | two roads to one subject, outages | a quiet path is read; subjects settle on the server's readings |
| toggle, slider (`widget_factory.cpp`, `sk_put.cpp`) | what is shown, drag, timer | gesture, PUT, echo, layout swap | echoes cross gestures; PUTs are rejected or not sent; a swap deletes the widget in a drag | ends on the server's reading |
| anchor dial and track | watch, ring buffer, bands | observers, rebuild | ring arithmetic, resets, null readings | up when raised, alive when dropped, newest points in order, whatever the null of a raise leaves behind |
| stream widget and client (`widget_factory.cpp`, `stream_client.cpp`) | owner, sessions, epoch, buffers | show, hide, retry, decode, render, pause, soak | starts, stops and stalls race | one decoder; a shown frame is not overwritten or freed, though memory is reused |
| audio port (`hal/src/waveshare_audio.cpp`) | codec rate, two microphone handles and their users | chime, reply, capture, gain, probe, mute | one clock for play and record | no close under a read; every capture comes back |
| clip queue (same file) | queue of four clips | `play_pcm`, `play_cue`, take | evict and resend are not atomic, chimes come from several tasks | a cue yields only to a cue, or to a chime that crosses its eviction |
| button, drop-here (`widget_factory.cpp`, `jlp/net/drop_here.cpp`) | pressed, hold timer, `press_fired`, drop tasks | press, hold, release, press lost, rebuild, GET and PUT of the position | LVGL learns late that a finger has left; a task overlaps the next gesture | a press is followed by its release; the anchor ends as asked |
| UI timers (`hal/src/ui.cpp`) | handle table, LVGL's timers, the callback under way | start, cancel, fire | callbacks cancel and start timers; handles and addresses recycle | a client's timer is its own; a one-shot runs once |
| zone registry, label tint (`jlp/zone_registry.*`, `zone_fetch.cpp`, `widget_factory.cpp`) | zones and description of a path, the tile's color and name | meta, seed, value, page swap | meta and value take separate roads; edges and points | the color is that of the zones held now |
| voice control (`jlp/audio/voice_control.*`, its widgets) | volume and mutes: set, stored, driven, shown | gestures, NVS writes, boot, push-to-talk | a page or the power goes mid-gesture | what was set survives; no talk without a finger |
| wake discovery (`jlp/net/wake_discover.cpp`) | the server it ran for, the wake host | connect, attempt, retry, success | the server changes while the task runs | the wake host follows the server |
| other passive widgets, board and panel drivers, CI | | | drawing and I/O | not modelled |

`PROJECT.json` lists every component with its status and every hazard with its
line and the properties that cover it.

## 2. Modules

| module | models | composed with |
|---|---|---|
| `NotificationsRegistry` | the registry's operations, without a `Next` | extended by `AlertOverlay` |
| `AlertPanel` | abstract: what the alarm display promises | implemented by `AlertOverlay` (`PanelSpec`), used by `PanelScreen` |
| `AlertOverlay` | sources, server, stream, UI queue, registry, overlay, chime, ACK and its echo | |
| `PanelScreen` | the glass and the backlight, over an alarm display as `AlertPanel` has it | |
| `BrightnessControl` | the setting, its callback and the slider | |
| `PushService` | abstract: what `POST /layout` promises a client | implemented by `UiHop` (`PushSpec`) |
| `UiHop` | the httpd task, the UI queue, one hop per request | |
| `LayoutManager` | layouts, subjects, store, boot, fetch, power loss | |
| `SubjectFeed` | deltas and REST seeds on their way to the subjects | |
| `WakeDiscovery` | the discovery task, the servers and the satellite's wake host | |
| `BoundControl` | toggle and slider against a server | |
| `ButtonWidget` | a page of buttons under one finger, the drop tasks, the server's anchor | |
| `ZoneDisplay` | zones and values on their way to a label's color and name | |
| `VoiceControl` | mute switches, two volume sliders, push-to-talk, NVS, power loss | |
| `TimerService` | abstract: what a client of the UI timers may count on | implemented by `UiTimers` (`TimersServe`) |
| `UiTimers` | `make_timer` and `cancel_timer` over LVGL's list, with callbacks that use both | |
| `AnchorWatch` | dial, track, its plugin | |
| `StreamWidget` | widgets, client, sessions, diagnostic, voice pause | |
| `AudioPort` | the full-duplex port and everybody who uses it | |
| `ClipQueue` | the clip queue, its producers and the audio task | |
| `MC*` | instances for TLC; four of them hold several modules side by side | `MCControls`, `MCLayoutManager`, `MCUiHop`, `MCAudioPort` |
| `*Proofs` | theorems and proofs | |

### How state and actions correspond to the code

* A lambda of the UI queue is one action: the UI task runs it to its end, with
  every observer it fires (`Deliver` in `AlertOverlay` is `on_notification`,
  `apply`, `fire_observers`, `on_change` and `rebuild`). Where the code of one
  lambda is read by another task half-way, it is cut there (`UiHop` cuts the
  apply of a layout at the swap and at the name, which `/hello` reads from the
  httpd task).
* A region under a mutex that does not wait inside is one action; a wait is an
  action of its own (`AudioPort`: `BeginTake`, `SuspendClose`, `GainClose`).
* Time stamps are ages that saturate at the window that reads them; a timeout
  is an action that may happen whenever the wait is on.
* Texts, colours, geometry and log lines are left out; severities, rates,
  brightness and readings are small numbers.
* `map` in `PROJECT.json` names the lines of every definition that stands for
  code. Definitions marked external stand for espOS, LVGL, the Signal K server
  and its plugins, as `src/` uses them.
* Operators whose comment begins with "Mutant:" are not part of a model. Each
  is a plausible slip of the definition it precedes; a property is kept only
  if it fails when the slip replaces the definition.
* Modules that share no state are checked by one run where they live on the same
  task or hang on the same event: the widgets a finger works, what a server sets
  going, what the UI task does for others, the two ends of the speaker. A
  variable `page` or `part` chooses, in the initial state, which one a behaviour
  is of; the others stay as they began, so the state space is the sum of theirs
  and no property of one depends on another.
* Variables commented "history" only record what happened, for a property.

## 3. Runs

Every passing run passes. The conditions named are part of the statements or of
the instance; what happens without them is in "Known divergences" below.

| run | instance and bounds | shows |
|---|---|---|
| `AlertOnePath` | one path, severities 2 and 4, two texts, inbox of 2, windows of 2 and 1 ticks, ACKs and stream lost at any point, fair UI task | the overlay shows what registry and threshold call for (`OverlayInSync`), no ACK hides an escalation (`AckCoversAlarm`), the path implements `AlertPanel` (`PanelSpec`), an alarm the server holds reaches the operator (`AlarmReachesOperator`) |
| `AlertTwoPaths` | two symmetric paths, a stream that loses nothing | `GenuineClearRearms`, `ChimeOnlyForFreshAlarm`, `NoMissedChime` |
| `Screen` | one path at severities 1, 2 and 4, dimming on and off, two brightness levels, set or previewed by a drag, fair polls | `Inv` (a dark panel is covered, the backlight is the one asked for unless the slider showed a value since; its first tap meets the wake overlay unless the alert was rebuilt in the dark), `RaisedAlarmIsSeen`, `DarkEnds` (by day and by a touch) |
| `Controls`, page "bound" | a toggle or a slider, three gestures, two foreign writes, a PUT not sent or a layout swapped at any point; the toggle's PUTs may be rejected | `ControlsInv` (`KnobUnderFinger`, `LastWordStands`), `ShowsTruthInTheEnd` |
| page "brightness" | three levels, up to three lambdas under way | `BrightnessInv` (`LastApiWriteWins`, `BacklightAccountedFor`) |
| page "button" | a momentary, a drop and a raise button, all with a hold of two ticks, two drop tasks, two positions | `ButtonInv` (`ReleaseFollowsPress`, `AnchorAsAsked`), `HoldIsHeld` |
| page "zones" | five lists of zones, with points, gaps and overlaps, three readings, two reports, one seed | `ControlsInv` (`TintIsTrue`, `ZonesSettle`) |
| page "voice" | two levels, two sliders on one setting, failing writes, one power loss | `ControlsInv` (`SettingsSurvive`, `TalkNeedsFinger`, `WidgetsAgree`) |
| `UiHop`, part "hop" | three requests of any kind, fetched layouts, the httpd task fair, the UI task not | `SingleFlight`, `PushService` implemented (`PushSpec`), `HandlersFinish`, `HelloBrackets` (the name `/hello` reads before the screens is of no later layout, the one it reads after them of no earlier one) |
| part "timers" | two clients, three handles that wrap, three addresses that are reused | `TimerInv`, `TimerService` implemented (`TimersServe`) |
| `Layout`, part "layout" | five layouts over three paths, a table of two, which fills, queue of two, power loss anywhere | `KeptPush`, `LiveKindsAgree`, `UnfedOnlyIfFull` (a live path without a subscription finds the table full) |
| part "feed" | a quiet and a lively path bound at any time, two changes, one outage, each at any point | `StaleOnlyIfMissedOrOvertaken`: a bound path is read, though quiet, and stays stale only where its change or seed was lost or a seed was overtaken |
| part "wake" | two servers selected and lost, six times, wake services that come and go, failing requests | `NetInv` (`FeedSettles`: a bound subject at rest has the server's reading; `WakeAnswered`), `WakeFollowsServer` |
| `Anchor` | two watches, three swings, a rebuild, four points, three bands; the raise's null is ignored, as in the code | `Inv` (`TrackIsNewest`, `EverySegmentDrawnOnce`, `NoFalseUp`: a page under a watch does not read ANCHOR UP once no reading is under way), `DialComesAlive` |
| `Stream` | one widget and the diagnostic, two sessions that reuse each other's memory, one event per behaviour of three: a stalled renderer, a failed start or a voice pause, fair tasks | `Inv` (`PixelsLive`: the frame on screen lies in the widget's own running session; `FrameStable`), `OneDecoder`, `StartedOwns`, `PictureComes` (a widget shown streams, and resumes after a pause), `SessionEnds` |
| `Audio`, part "port" | two captures on their own handles, two rates, one kind of upset per behaviour: a failing clock or codec, a read that outlasts the drain, a capture started out of turn, a gain change | `Inv` (`NeverBothOpen`, `ReceiveUp`, `SamplesAreNative`, `StreamAtItsRate`), `MicComesBack`, `NoCloseUnderRead`, each under the upsets it names; `CodecChangesHands` under all |
| part "clips" | the real queue of four, six clips, chimes from any task at any point of a cue | `ClipInv` (`ChimesInOrder`, `BuffersAccounted`), `CuesSound` (a cue yields only to an earlier cue or to a later chime that takes the place its eviction made; a queued one is played) |
| `Blank` | as `Layout`, a table of three | `NeverBlank` is violated |
| `Precedence` | as `Layout`, a table of three | `PushTakesPrecedence` is violated |
| `Muted` | as `Audio`, without upsets | `MutedIsQuiet` is violated |

`Inv` and its kin are a module's type invariant with the invariants named. The
type invariants of `AlertOverlay`, `UiHop` and `LayoutManager`, of which no run
speaks, are proved (section 4).

*Why the bounds are enough.* The hazards need two of a thing to meet: two
alarms, two requests, two drags, an echo and a gesture. The bounds allow that
and mostly one more, and queues at least as long as the interleaving needs, so
that the interesting event can fall before, between and after the others. Ring
buffers, tables and queues are small enough to fill and wrap. For
safety the bounds do not matter in the end: every safety property of a passing
run has a theorem that covers every other instance (section 4), so the one widget
of `Stream` (with the diagnostic, a second owner), the one path of `AlertOnePath`
and the ring of four of `Anchor` are only where TLC looked first. For liveness the
instances are all there is. Symmetry is used in `AlertTwoPaths` only, which checks
no liveness.

### Known divergences

Statements that a comment or document of the repository makes and the code does
not keep. Three are checked by runs that expect the violation. Where a definition
is not checked by a run it stands in its module under "What the comments say and
the code does not do"; add it to the run's `.cfg`, with the change named, and TLC prints the counterexample.

| definition, run | change | the code does | the repository says |
|---|---|---|---|
| `GenuineClearRearms`, `AlertTwoPaths` | `Lossy = TRUE` | takes a clear inside the window for the echo of an ACK that was lost; the same alarm stays hidden when it comes back (`notifications_registry.cpp:80`) | "only a clear we did NOT cause re-arms it" (`notifications_registry.h:193-195`) |
| `EchoKeepsAck`, `AlertTwoPaths` | none | an alert queued before the ACK erases the self-clear mark, the echo then counts as a clear (`notifications_registry.cpp:107`) | the same lines |
| `ReassertsOnlyIfNeverCleared`, `AlertTwoPaths` | `ReassertWindow = 3`, one path | a genuine clear after the echo leaves `ack_clear_echo_at_`, a later raise counts as reasserted for good (`notifications_registry.cpp:113`) | the window "can't confuse a condition that genuinely cleared and came back later" (`notifications_registry.cpp:16-19`) |
| `BelowThresholdStaysSilent`, `AlertTwoPaths` | `SourceStates = {2, 4}`, `MinStates = {4}` | compares `min_state` with the most severe path, not with the one that rose (`alert_overlay.cpp:155`) | "a below-threshold escalation doesn't beep" (`alert_overlay.cpp:149-150`) |
| `AckIsNoEscalation`, `AlertTwoPaths` | none | an ACK fires the observers with the flags of the last delta (`notifications_registry.cpp:217`) | flags are reset "so a previous escalation doesn't bleed into a later non-event" (`notifications_registry.cpp:41-42`) |
| `AlarmAboveWake`, `Screen` | none | an alarm on screen when the panel dims lies under TAP TO WAKE (`wake_overlay.cpp:39`) | the wake overlay "stays below the alert overlay" (`wake_overlay.h:10-11`) |
| `AlarmAboveBanner`, `Screen` | none | banner and badge come to the front over an alert on screen (`status_overlay.cpp:110`) | "a full-screen alarm still covers it" (`status_overlay.cpp:60-61`, `mic_overlay.cpp:113-115`) |
| `WakeTapOnlyWakes`, `Screen` | none | a text change lifts the alert above the wake overlay of a dark panel (`alert_overlay.cpp:175`) | the waking tap "can't accidentally trigger a toggle or button underneath" (`wake_overlay.h:8-10`) |
| `WakeRespectsMinState`, `Screen` | none | every escalation wakes the panel (`app_main.cpp:301`) | "at or above the configured `min_state`" (`README.md:160`) |
| `BrightnessFollowsSetting`, `Controls` | none | a queued API value replaces the newer one the slider applied inline (`app_main.cpp:197`) | brightness "follows the `cockpit.brightness` setting" (`idle_dimmer.h:31-34`) |
| `SwitchIsImmediate`, `UiHop` | none | a select answered 504 still switches the screen later (`http_api.cpp:723`) | "The switch is immediate and unconditional" (`JLP-PROTOCOL.md:122-123`) |
| `HelloNamesItsScreens`, `UiHop` | none | `active_layout_name` and the screens of `/hello` are read on two tasks at two times (`http_api.cpp:841`) | "The `name` of the currently-rendered layout" (`JLP-PROTOCOL.md:57`) |
| `LivePathsSubscribed`, `Layout` | none | subscriptions of earlier layouts fill the table, nothing calls `garbage_collect()` (`subject_registry.cpp:153`) | "unsubscribe paths that no layout uses any more" (`subject_registry.cpp:191-193`) |
| `OnlyLiveSubscribed`, `Layout` | none | paths of the old layout stay subscribed after a swap (`layout_manager.cpp:423`) | "Called after a successful layout swap" (`subject_registry.h:56-57`) |
| `PushTakesPrecedence`, run `Precedence` | none | the layout fetched at the first connect replaces a push made meanwhile (`layout_fetch.cpp:48`) | a push "takes precedence at runtime" (`README.md:74`) |
| `FetchedOnlyIfDifferent`, `Layout` | none | the fetched layout is applied without a comparison (`layout_fetch.cpp:48`) | "applied if it differs from what's already on screen" (`README.md:78`) |
| `NeverBlank`, run `Blank` | none | kinds left by a failed build reject the built-in layout (`subject_registry.cpp:92`) | "The device never blanks" (`README.md:74`) |
| `ConflictsFoundUpFront`, `Layout` | none | the slider is not in the table of kinds: the build fails half-way (`layout_manager.cpp:201`) | "rejected up-front rather than half-built in LVGL" (`layout_manager.cpp:241-244`) |
| `SubjectsSettleOnTruth`, `Layout` | none | a seed overwrites a delta newer than its GET (`zone_fetch.cpp:139`) | seeds cure paths that "sit at the subject's initial 0 forever" (`zone_fetch.cpp:76-82`) |
| `ShowsTruthInTheEnd` without `astray`, `Controls` | none | a slider whose PUT was not sent stays where it was let go, until the next delta or layout (`sk_put.cpp:27`) | the subject "resumes driving the knob" (`widget_factory.cpp:669-670`) |
| `ShowsTruthInTheEnd`, `Controls` | `Rejected = {"slider"}` | the knob stays where a rejected PUT left it (`widget_factory.cpp:901`) | "self-corrects if the PUT is ever rejected" (`widget_factory.cpp:670-672`) |
| `ShowsTruthInTheEnd`, `Controls` | `BoolEcho = TRUE` | a delta `true` reads off, as `strtol` of it is 0 (`subject_registry.cpp:37`) | "0 as off, anything else as on" (`JLP-PROTOCOL.md:229`) |
| `RaisedReadsUp`, `Anchor` | none | the null with which the plugin withdraws `maxRadius` on a raise (`widget_factory.cpp:2143-2144`) is ignored, the dial stays alive (`widget_factory.cpp:2148`) | the needle "hides entirely once the anchor is raised" (`widget_factory.cpp:2354-2355`) |
| `OneWatchOnTrack`, `Anchor` | none | the tail of the last anchoring is joined to the next (`widget_factory.cpp:2487`) | "reset the tail when the anchor comes up" (the same line) |
| `TokenIsItsFrames`, `Stream` | none | after a timed-out wait the late token answers for the next frame (`widget_factory.cpp:2936`) | "the semaphore paces us to the UI task's queue drain" (`widget_factory.cpp:2908-2909`) |
| `FrameStable` without its premise, `Stream` | none | so the decoder runs a frame ahead, into the one on screen (the same line) | "The buffer stays untouched until the NEXT frame callback" (`stream_client.h:19-20`) |
| `NoFreedPixels`, `Stream` | none | a frame in flight at a stop is posted under the new epoch (`widget_factory.cpp:2911`) | "A frame posted under an older epoch must not touch the image" (`widget_factory.cpp:2854-2857`) |
| `PauseEnds`, `Stream` | none | hiding the widget leaves the diagnostic's session paused (`widget_factory.cpp:2980`) | the pause is on "while the satellite is listening/speaking" (`stream_client.cpp:44-49`) |
| `MicComesBack` without its premise, `Audio` | `Consumers = {wake}`, `HandleOf <- MonoHandles` | a gain change during a reply takes a reference it does not own (`http_api.cpp:304`) | "keeps the ADC open while ANY consumer wants it" (`waveshare_audio.h:126`) |
| `NeverBothOpen` without its premise, `Audio` | `Consumers = {wake}`, `HandleOf <- WakeHandles` | a gain change opens the mono handle beside the two-channel one (`http_api.cpp:305`) | "the mono and 2ch handles are never open at once" (`waveshare_audio.h:142-145`) |
| `NoCloseUnderRead`, `Audio` | `HandleOf <- SharedHandles` | the first of two readers to return clears the flag of both (`waveshare_audio.cpp:654`) | a reader "can never call esp_codec_dev_read() on a handle those paths are about to close" (`waveshare_audio.cpp:641-645`) |
| `ReceiveRestored`, `Audio` | none | a `begin_stream` that fails with a capture open leaves the receive channel down, only `end_stream` restores it (`waveshare_audio.cpp:529`) | "Two things take that channel down, and BOTH have to be undone" (`waveshare_audio.cpp:773-774`) |
| `OpenRateHonest`, `Audio` | none | a failed native reclock leaves the old rate remembered (`waveshare_audio.cpp:587`) | "Returns false on failure with open_rate_ left consistent" (`waveshare_audio.cpp:431-432`) |
| `MutedIsQuiet`, run `Muted` | none | a mute while a reply waits for the codec is undone (`waveshare_audio.cpp:528`) | "a quiet helm stays quiet" (`voice_control.cpp:72`) |
| `CueYieldsOnlyToCue`, `Audio` | none | a chime of another task takes the place the cue evicted, or that of the cue it keeps (`waveshare_audio.cpp:361`, `:367`) | "a burst of chimes must not be what silences the one sound the user needs" (`waveshare_audio.cpp:354-355`) |
| `LostLikeReleased`, `Controls` | none | a press that slides off its button, or whose page is rebuilt, sends no release (`widget_factory.cpp:1860`) | "PRESS_LOST handled like RELEASED" (`widget_factory.cpp:1859`) |
| `EarlyReleaseCancels`, `Controls` | none | a hold timer that runs before the touch controller is read fires for a finger that has left (`widget_factory.cpp:1830`) | "Releasing during a pending hold cancels the press timer with no PUT" (`widget_factory.cpp:1698-1699`) |
| `PointsAreSeen`, `Controls` | none | a point zone behind a zone that ends there is never reached (`zone_registry.cpp:57`) | "Treat that case as equality on the point instead" (`zone_registry.cpp:64`) |
| `ZonesFollowMeta`, `Controls` | none | a meta without zones leaves the old ones in force (`zone_registry.cpp:75`) | zones "update automatically if SK's metadata changes" (`zone_registry.h:33-34`) |
| `VolumeSurvives`, `Controls` | none | a page rebuilt under a drag loses the level that was heard (`widget_factory.cpp:652`) | "a helm turned down before a reboot should not come back at the driver default" (`voice_control.cpp:86-87`) |
| `WakeRerunsOnChange`, `Layout` | none | a server that answers for the one before it is taken for served: the next connect starts no task (`wake_discover.cpp:200`) | "Re-runs when the SignalK server changes" (`wake_discover.cpp:186-189`) |

Most of these definitions are named in the notes of the hazards they belong to
(`PROJECT.json`).

### Deadlock

Most runs check deadlock. `CHECK_DEADLOCK FALSE` is set where the bounds on the
environment's events let the system come to rest: `Layout` (the feed and the
servers) with `Blank` and `Precedence`, `Controls` and `Anchor`.

### Fairness

* The UI task drains its queue: weak fairness of its actions. It loops every
  20 ms at most (`hal/src/ui.cpp:92-101`) and a watchdog restarts the panel
  when it does not. Of `HandlersFinish`, `Answered` does without: the waits of the
  handlers are bounded, so httpd answers although the UI task is stuck.
  `BusyReleased` has it as a premise, so both are checked under a specification
  that is fair to the httpd task alone.
* Bounded waits end: the drain of a reader, a clip, a probe, the 500 ms
  reconcile timer, a handler's semaphore. A capture's read returns, with
  samples or, on a channel that has been taken down, with an error.
* FreeRTOS mutexes go to the longest waiting task of the highest priority, so
  `AudioPort` assumes strong fairness for who waits for the codec, and for the
  drain, which a reader may fail again and again before its deadline.
* The discovery task runs on: it sleeps, asks and ends. Nothing is assumed of the
  servers; `WakeFollowsServer` speaks of one that stays selected and ready.
* A run that holds several modules assumes the fairness of the one a behaviour is
  of. Buttons, zones, voice settings, brightness, timers and clips need none.
* The stream reconnects and the server answers PUTs and GETs only in the runs
  whose statement needs it; nothing is assumed of the operator but that a
  finger is lifted in the end, and of the network that it comes back.

### What is assumed of the environment

The server's deltas arrive in the order they were sent, and a reading that does
not change is not sent (`jlp/net/zone_fetch.h:12-16`). What was under way on a
stream is lost with it. LVGL calls an observer when it is added and may leave
it alone when a subject is set to the value it has. The anchor plugin publishes
a limit while the anchor is down and null when it is raised
(`widget_factory.cpp:2143-2144`). What a
button sends is no position of the boat; the server takes every PUT of a button.

## 4. Proofs

`tlapm` checks every step. The theorems hold for every value of the constants,
under the named assumptions of the modules: the constants have the types one
expects, `None` and its kin are none of the values they stand beside, windows and bounds
are natural numbers, the audio port's consumers are finitely many. A hypothesis
beyond these is named in the table.

| module | theorems | inductive invariant and argument |
|---|---|---|
| `AlertOverlayProofs` | `TypeCorrect`, `OverlayAlwaysInSync`, `NoEscalationHidden`, `Refines`, `ChimeTruthful`, `AlarmsAreHeard`, `ClearsRearm` | `TypeOK`, `OverlayInSync` and `AckCoversAlarm` together. The overlay stays in sync because every registry change that alters what it should show fires the observers, which is shown for `apply` by its cases; the cover of an ACK needs types only. `Refines` maps a step of `apply` to `Change`, an ACK to `Silence`, and everything else to a stutter; it needs the sync to know that what the operator silenced is the most severe alarm. `AlarmsAreHeard`: only an `apply` raises a path, it sets both flags, and some most severe alarm is at or above `min_state` since the raised one is. `ClearsRearm` assumes `~Lossy` and adds `Rearms`: a self-clear mark stands for an echo still under way, and what was cleared last does not alert. |
| `UiHopProofs` | `TypeCorrect`, `OneSnapshot`, `Refines`, `HelloTrails`; `TimersAlwaysMatch`, `TimersRefine`; both for the run: `UiSafe` | Of the hop, who may still decide a request's fate: the hop's state, the place of its job and the handler's step agree. With it, the claim of a lambda and the abandonment by a handler exclude each other, so each maps to `Start` or `Drop`, and what a client was told stays true. `HelloTrails` adds that jobs run in the order they were posted and that the name follows the screens, set last: what the handler reads before its lambda runs is no later than the screens that reads, and what it reads after that no earlier, unless a read meets the assignment. Of the timers: map and LVGL's timers are inverse to each other, clients hold handles of live periodic timers of their own, and a one-shot keeps its record until its callback has returned; a fire, a return, a start and a cancel map to those of `TimerService`. |
| `LayoutManagerProofs` | `TypeCorrect`, `KindsAgree`, `PushKept`, `PathsStaySubscribed`, `FeedSafe`, `WakeSafe`, `NetSafe` | subjects are never destroyed and keep their kind, so a widget built on one agrees with it later; the store only changes with a push that has been swapped in. `PathsStaySubscribed` assumes nothing of the table's size: entries go first come first served, so a new path is refused only when the paths before it have taken what was free, and none is ever given back. `FeedSafe`: of a path bound, neither missed nor overtaken, a seed is in hand, or a change is on the wire, or the last lambda under way, or with none the subject, has the server's reading. `WakeSafe`: a task about to set the wake host has had its answer. `NetSafe` joins the three for the run. |
| `StreamWidgetProofs` | `OneSession`, `OwnersKeepTheirSession`, `ScreenUndisturbed` | a session is published only while none is, and a widget that believes it started one owns the session published. `ScreenUndisturbed` (`TypeOK`, `PixelsLive` and `FrameStable`) adds `Pictures`: a frame that may still be shown, and one that is, is of its widget's own running session, for a stop drops the image and moves the epoch in the handler that stops; a frame decoded across a stop is the one exception, noted in `stray`. And `Frames`: until a wait runs out there is one frame on its way at most, its session waits until it was shown, and an image points to the buffer written next only between its being shown and the flip. |
| `PanelScreenProofs` | `DarkStaysCovered`, `AlarmsAreSeen` | `Inv` is inductive: only `TurnOff` and the alert's rebuild move the wake overlay against the alert, the one with the wake overlay in front, the other noted in `stirred`; banner and badge move to the front of both. The slider writes the backlight of a lit panel only, noted in `previewed` until the dimmer writes next. A step that raises an alarm lifts the alert and wakes the dimmer. The longest timeout must exist (`PanelAssumption`). |
| `ControlsProofs` | `ApiWriteReachesPanel`, `ButtonsKeepTheirWord`, `HoldsAreHeld`, `BoundSafe`, `ZonesSafe`, `VoiceSafe`; all for the run: `ControlsSafe` | Brightness: the last lambda under way carries the setting unless the slider wrote since, and the backlight is dimmed, previewed or at the dimmer's level. Buttons: a pending hold is of the button LVGL holds as pressed, so there is one at most, and a momentary press that is not over has fired; with a DROP under way its task carries a position of the boat since the wish, and after any other gesture nothing uncrossed is under way. A hold's timer is as old as the finger has rested, unless LVGL was late. Knobs: only the widget's own handlers write while a finger is on it, and the last PUT under way, or with none the server, has what the finger left, unless that PUT was dropped or its slider deleted (`unsent`). Zones: the tile is painted in what the panel holds, and what it holds is the server's, or a meta, a seed or a lambda that brings it is under way. Voice: while a gesture is at its write no finger is on a slider, and what is to be written is what the gesture asked for. |
| `AudioPortProofs` | port: `PortSafe`, `CapturesComeBack`, `ReadsAreNotCut`; queue: `ClipsSafe`, `CuesAreHeard`; all for the run: `SoundSafe` | `PortIInv`, whose parts say who holds the codec and for which rate (`Seats`); that without a failed clock the remembered rate is the true one, the native one unless a reply plays (`Clocked`); that a handle is open while it is captured or waits for its reader, and who waits (`Wound`); that the user counts exceed the started captures by gain changes only (`Counted`); that who has claimed a read is seen and who is in one has a device (`Claimed`); that nothing is open while the port is clocked away (`Quiet`); that what was suspended is owed and taken back with the native rate (`Remembered`); and that after a switch that one gain change made fail the fallback brings the receive channel back (`Heard`). `PortSafe` and `ReadsAreNotCut` assume `OneReader`, a handle for every consumer: with a shared one a reader clears the flag of both (`NoCloseUnderRead` in the table of divergences). Clips: every clip is in one place, clips are queued in the order they were made, and the caller of `play_cue` holds what it took. `CuesAreHeard` assumes nothing of the producers: the place a cue has evicted stays free until it is sent, or the newest clip of the queue is a chime raised after the cue (`PlaceKept`). |
| `AnchorWatchProofs` | `TrackIsTrue`, `TrackSafe` | `TrackIsTrue`: a slot of the ring holds the newest point whose number it has modulo the length, so reading from the oldest gives the newest points in order; bands share their border point, each ends where the next begins and the last with the newest, so every stretch has one. `TrackSafe` adds `NoFalseUp` by `LimitComes`: on a page under a watch the subject has the limit or the limit is under way, and once taken it is not withdrawn, as a null is ignored. |

An invariant is strengthened where it is not inductive by itself, by the
conjuncts of `IInv` (or a name that ends in it) in each module, `WatchInv` in `AnchorWatchProofs`.

Every invariant and action property of a passing run is a theorem, and the abstract
specifications state safety, so the refinements are complete as proved. Only
model-checked are the liveness properties, as the provers do not handle fairness:
`AlarmReachesOperator`, `DarkEnds`, `ShowsTruthInTheEnd`, `HandlersFinish`,
`StaleOnlyIfMissedOrOvertaken`, `WakeFollowsServer`, `DialComesAlive`,
`PictureComes`, `SessionEnds` and `CodecChangesHands`. Of three of them the safety
half is proved: what a subject at rest has (`FeedSafe`), what an accepting server
is left with (`BoundSafe`), and that the wake host has answered (`WakeSafe`).

## 5. Not modelled

* espOS itself (the stream, REST, configuration and voice satellite), LVGL, the
  Signal K server and its plugins: external, modelled from how `src/` uses them.
* Parsing, formatting, geometry, colours and drawing, the panel and board
  drivers, NMEA 2000, OTA, release automation.
* Touch packets and statistics of the stream, the store's other keys.
* A button's PUT that the server refuses (`ButtonWidget` has the server take it),
  the panel-local `@audio_mute` toggle, the anchor dial's needle, the samples of a
  chime, the delays of discovery's back-off and the wake words it sends.
* The endpoints of the HTTP API that do not hop to the UI task: each is one
  call into a component that is modelled, or a read.
* 32-bit widths: the dimmer's timeout in milliseconds wraps above 49 days
  (`jlp/idle_dimmer.cpp:63`); the models count in abstract steps.

## 6. State of the plan

All parts of the plan are built: alarms, screen, brightness, API hop, layouts,
stream, audio port, clip queue, subject feed, controls, anchor, buttons with
drop-here, UI timers, zones, voice settings and wake discovery.

What could follow, in this order:

1. `NotificationsList` as a pure operator against a reference definition.
2. Refused PUTs of a button.
