# jctracker in TLA+

jctracker reads a song from its standard input, a line at a time, and plays it
as MIDI messages through JACK. This directory holds a model of the program in
TLA+, TLC configurations that check it on small instances, and proofs that the
TLA+ proof system checks. Every definition is translated from the sources in
`src/`; `PROJECT.json` gives the lines for each.

## The program

```
 stdin --> Parser --> Sequencer --queueMidiEvent--> MidiHeap
           (main thread)                              |  peekMin, popMin
                                                      v
                                      bufferProcessingThread
                                                      |  writeMidiData
                                                      v
             JACK's thread: jack_process_cb <-- ringbuffer
                    |  jack_midi_event_reserve
                    v
             the buffer of an output port, once in each period
```

Three threads: main, the one that feeds the ringbuffer, and JACK's. A signal
handler runs on top of one of them.

| component | state | operations | hard behaviour |
|---|---|---|---|
| MidiHeap (`midiheap.cpp`) | array, `mTop`, mutex, two condition variables | `insert`, `popMin`, `peekMin`, `count` | blocking calls of two threads, waits without a loop, sifting at the border of the array |
| JackEngine (`jackengine.cpp`) | heap, ringbuffer, ports, client | `queueMidiEvent`, `bufferProcessingThread`, `writeMidiData`, `jack_process_cb`, `stopSounds`, `shutdown`, `init`, `registerOutputPort` | peek, compare, then pop; 32 bit frame times; a full ringbuffer; deadlines; a ringbuffer with one writer too many at the end |
| Sequencer (`sequencer.cpp`) | song, position, loop stack, active events of each column, time, tempo, size | `readFromStream`, `playNextLine`, `getNextLine`, `initPosition`, `silence` | notes are started by one line and stopped by a later one; subpatterns with a time and a position of their own |
| Events (`events.cpp`, `noteevent.cpp`, `midictlevent.cpp`) | the parameters of an event | `execute`, `stop`, `sustain` | an event is shared by the line it stands in and the pedals that continue it |
| Parser (`parser.cpp`) | last notes, aliases, signs, default note, volume, transposition, port map | `parseLine`, `getPortMap` | a line changes what the next ones mean; a definition has a parser of its own; lines that throw half way |
| main (`main.cpp`) | `gPlaying` | `play`, `signalHandler`, `main` | shutdown by signal, by the end of the song, by JACK |

What makes each of them correct:

- *MidiHeap*: a queue in time order that loses nothing, does not block for ever,
  and does not leave its array.
- *JackEngine*: every message queued reaches the buffer of its port once, at its
  frame, or is dropped for a reason one can name.
- *Sequencer and events*: the lines played are those the loops say; every note
  that is started is stopped, when its column says so and not before; a
  subpattern keeps in step with the song around it.
- *Parser*: a line means what README says.
- *main*: the program becomes silent when it ends.

The hazards, each with its line, are listed in `PROJECT.json`.

## Modules

| module | models | state and actions |
|---|---|---|
| `MidiQueue` | what `MidiHeap` promises | the set of queued messages and the last answer; `Insert`, `PopMin`, `PeekMin` |
| `MidiHeap` | `midiheap.cpp` | `mArray`, `mTop`, `mMutex`, the threads in `pthread_cond_wait` (`blocked`), where each thread is. An iteration of a sifting loop is a step: `InsertWait`, `InsertStore`, `InsertResume`, `SiftUp`, `InsertEnd`; `ReadWait`, `PopTake`, `SiftDown`, `PopEnd`, `Peek` |
| `MidiHeapFaults` | a spurious return of `pthread_cond_wait` | `SpuriousWakeup` |
| `MidiDelivery` | what `JackEngine` promises | the messages accepted, sounded and dropped; `Accept`, `Sound`, `Drop` |
| `JackEngine` | the way of a message through `jackengine.cpp` | the heap as a `MidiQueue`, the ringbuffer, the clock, the period, `thread` and `callback` (where bufferProcessingThread and jack_process_cb are). One step per call into the heap, the clock or the ringbuffer |
| `Lifecycle` | `main`, `play`, `signalHandler`, `registerOutputPort`, `hasPendingEvents`, `stopSounds`, `shutdown`, around `JackEngine` | where main or the handler is, the ports, what a synthesizer hears as sounding; `RegisterOutputPort`, `ReadToTheEnd`, `PlayNext`, `SongEnds`, `Poll`, `PlayReturns`, `BeginStopSounds`, `StopSounds`, `SoundsStopped`, `Shutdown`, `Signal` |
| `SongLoops` | `getNextLine`, `initPosition` | position and loop stack; one step per call of the recursive `getNextLine` |
| `Sequencer` | `playNextLine` and the events | for each sequencer (the main song and the subpatterns) position, time, tempo, size and the active events of each column; the messages queued so far. One step is one call of `playNextLine` on the main song, with all it calls |
| `Parser` | `readFromStream`, `parseLine`, `getPortMap` and the constructors that parse a note and a control | the sequencers that are reading, innermost last, and for each its song and the fields of its parser. One step reads one line: `Store`, `KeepNothing`, `Define`, `End`, `Abort`, or `EndOfInput` |
| `SongText` | what a text means, read as a whole | reference definitions and the properties of `Parser` |
| `MC*` | instances for TLC | messages, songs, reference definitions |
| `Iteration` | what `FoldLeft` computes, for any operator | lemmas, instantiated by the proofs about the parser and the sequencer |
| `MidiHeap_proofs`, `JackEngine_proofs`, `Lifecycle_proofs`, `SongLoops_proofs`, `Sequencer_proofs` | theorems about the module of that name | |
| `SongText_proofs`, `SongLines_proofs` | theorems about the parser, the second module on top of the first: what one line does to a parser and what the parsers know of the text; what the songs say | |

How they fit: `MidiHeap` implements `MidiQueue`, `JackEngine` uses the heap
as a `MidiQueue`, and `JackEngine` implements `MidiDelivery`: whatever is in the
heap, in the hands of the thread or in the ringbuffer is accepted. `Lifecycle` extends `JackEngine`: it composes the main thread
and the signal handler with the thread and the callback of that module. `Parser`
makes the songs, `SongLoops` gives the order of the lines that `Sequencer` plays
in the order written, and what `Sequencer` queues is what enters `JackEngine` by
`QueueMidiEvent`, and is the constant `Song` of `Lifecycle`.

Abstractions. A message has an identity, a time and a port; its bytes are left
out, except for the kind, the pitch and the volume in `Sequencer`. In `MidiHeap`
two messages are never equal, so that the heap can be compared with a set.
`(size_t)-1`, "no such index", is -1. Frame times are numbers modulo `Wrap`
where the code stores them in 32 bits (`JackEngine`), and plain numbers in
`Sequencer`. The ringbuffer holds whole messages; `jack_ringbuffer` and
`jack_midi_event_reserve` (offsets within the period, ascending, while there is
space) are modelled from their use. In `bufferProcessingThread` the order in which the
compiler evaluates the operands of `peekMin().time <= currentFrameTime() + 100`
is open, and both orders are actions. In `Sequencer`, `"|"` knows the event it
continues from the text (`LastNote`), as in the parser. The vectors of active
events are grown on demand in the code; here every column has an entry. Lengths
in parts of a line are `double` in the code and rounded down once, when they
become a frame; here they are fractions of integers, rounded down once.

In `Parser` a line is a record of what its characters say: the kind of the line,
and for a word of a pattern what it is as it stands, its text up to the first of
`!%@/\#.` (which is what aliases and subpatterns are looked up by), what stands
behind it (`tail`), and its parentheses. An alias takes the place of the text and
leaves the tail (`Joined`): with `alias k c`, `k#` is c sharp, and with an alias of
`.` a tail makes the word unreadable. The letters themselves are left out; a
modifier has its number, a word that an alias stands for has no parentheses, and
no name ends with one. Of a note the pitch and the volume are followed, of a
control the column. What the code never initialises (the column of a cloned
default note, the channel of a `port` without one) is a value of `Junk`, chosen
once.

In `Lifecycle` a signal is delivered to the main thread, which does not go on
while the handler runs, and never after; a second signal does not come. When main
or the handler writes to the ringbuffer while the thread is writing, both write to
the same place: one of the two messages is lost (`StopSounds`), the least a race
on `jack_ringbuffer_write` can do.

## Runs

| run | instance | shows |
|---|---|---|
| `MidiHeap` | 5 slots, 5 messages with equal times and ports among them | types; the heap order whenever the mutex is free; no lost wakeup; a woken thread finds what it waited for; `IInv`; the class implements `MidiQueue`; a blocked insert returns |
| `JackEngine` | 3 messages on two ports, a heap of 2, a ringbuffer of 3, period of 3, look-ahead and sleep of 2 frames, clock to 10; a thread delayed at will | each message is at one place; what is popped is due; the order in the ringbuffer holds, and nothing is dropped, if no message was queued late; nothing is early; if the thread was never delayed and nothing dropped each message sounds exactly one period after its frame, and the heap holds nothing that belongs to the buffer being filled; `IInv`; the engine implements `MidiDelivery` |
| `Lifecycle` | a song of 3 notes on two ports and two channels, a heap of 2, one frame in which main or the thread, ready to run, has to wait, one signal at any moment | the program ends (`ProgramEnds`); if it ends by itself everything queued has been heard (`NothingLeftBehind`), nothing sounds on channel 0 of any port (`SilentAfterTheSong`), and `stopSounds` was the only writer of the ringbuffer (`OneWriter`), since main left play with an empty heap; `LifecycleIInv`, which says so and that no port has more names than main registered |
| `SongLoops` | loops nested two deep with counts 1, 3 and endless, a stray `endloop`, one restart anywhere | the lines returned are those of the unrolled song; the stack follows the nesting, and each entry is that of the loop open there (`LoopsAtTheirDepth`); finite songs end |
| `Sequencer` | the readable songs of at most 4 lines out of 15 kinds (less those named below), 2 columns, a subpattern with three turns and a tempo of its own that plays another one | every stop that was queued is due, and every stop that is due was queued, once, in songs without endless notes (`NotesLastUntilTheNextEvent`); whatever sounds is held by an active event (`NoHangingNote`); the subpattern plays its next turn at the time of each line that drives it (`SubpatternInStep`); a ramp sends its values, in order, within its time (`RampsAreGradual`) |
| `Parser` | texts of six lines from lists of directives, patterns and other lines, with definitions that are opened, nested, ended and given again, ports in any order, groups, aliases with and without something behind them, comments and words that cannot be read | every line lands in the song it stands in, with its columns (`SongsAsWritten`); pitch and volume are those the lines above give (`ModifiersAreStatic`); `\|` and `^` refer to the last note of the column, unless a `*` is before them (`ContinuesTheColumn`); a subpattern is the one defined last (`SubpatternsAreBound`); columns keep their ports (`ColumnsHaveTheirPorts`); a parser knows what the lines of its own definition say and nothing else (`ParsersKnowTheirText`); no subpattern plays itself (`NoSubpatternPlaysItself`) |

Six runs expect a violation. Each shows where the code does not do what its
comments or its README say; the findings in `PROJECT.json` quote them.

| run | the program |
|---|---|
| `MidiHeapSpurious` | pops an empty heap after a spurious wakeup |
| `JackEngineWrap` | gets the order wrong around the wrap of the frame time |
| `SequencerReplay` | loses the notes of a subpattern that is started while it plays in the same column |
| `SequencerRamp` | lets a falling ramp pass 0 and go on near 2^32 |
| `LifecycleSignal` | can start a note behind the message that stops all sounds, when a signal ends it |
| `ParserComment` | reads the words of a comment behind a bar separator as signs |

`README` itself trips over the last: in its line 97 the comment's "natural"
cancels the sharp that the line sets; in lines 102 and 107 "bar" makes every A
flat and "notes." and "now," make the line throw, so that the bar of 3 never
begins.

### Why the bounds are enough

- Five slots hold four messages: with five messages the writer blocks, and the
  reader blocks on the empty heap; both sifting loops run, upwards for two
  levels. What depends on the size of the array is proved for every size.
- In `JackEngine` the clock runs for three periods, long enough for a message to
  be queued early, on time or late, delayed, and heard. The look-ahead is not
  smaller than the sleep, as 100 frames and 1 ms are up to 100 kHz;
  `OnTime` and `BufferIsComplete` are false with a longer sleep. `Wrap` is far
  behind the clock, except in `JackEngineWrap`.
- In `SongLoops` an endless loop is compared with 24 rounds and 24 lines are
  played (`Rounds`, `MaxPlayed`). A count of 0 is left out: such a loop is
  played once (sequencer.cpp:156), although README:83 says n times. An endless
  loop around no line at all is left out: `getNextLine` would never return.
- In `Sequencer` four lines start a note or a subpattern, let it be continued,
  and stop it in two ways. Left out of the run that passes are songs in which
  `NoHangingNote` is false: a subpattern started again while it plays (run
  `SequencerReplay`), and a `|` that continues a subpattern which a `.` or a
  control has stopped (events.cpp:77: it goes on, outside the active events).
  Delays are shorter than a line, and a line is longer than the columns are
  many; the code checks neither. Songs with an endless note are in the run but not
  in `NotesLastUntilTheNextEvent`: the code stops such a note with its column, and
  noteevent.h:22 says it does not. The ramps of the run that passes have a step
  that meets or rises past their last value, and fewer values than frames.
  `MaxRamp` cuts a ramp that does not end. Values and distances of a ramp are modulo
  `Word`, and a distance is that of `abs` of a signed number, so that the times of
  `SequencerRamp` are those of the code behind the wrap too.
- In `Lifecycle` the sleeps of main keep their order to the rest: 200 ms are longer
  than the look-ahead, the sleep of the thread and two periods together
  (`PollFrames` 6; with 4 `SilentAfterTheSong` is false, as it is for a JACK
  period of 100 ms). `MaxWait` is how long bufferProcessingThread may be ready to
  run and not be run, each time anew: the code relies on the sleep of main being
  longer. `MaxDelays` bounds the sum of all such frames, those of main included,
  for TLC only; the theorems leave it open. `MaxFrame` is behind the
  end of every song of the run: a clock that stood still there would break
  `ProgramEnds`. A message of `Lifecycle` is lost if the
  ringbuffer is full or the callback cannot place it; the properties allow for it.
- In `Parser` six lines define a subpattern, play it, define it again and play
  it; nest two definitions and return from both; or change a modifier inside and
  play a note outside. Left out of `ContinuesTheColumn` are definitions with a line
  that throws: it leaves its notes for `|` although its events are dropped; and a
  `|` or `^` with a `*` before it in its column (`BehindDefault`): the code does not
  remember the note that `*` plays.

### Fairness

`MidiHeap!FairSpec`: no thread stops inside a call, and the reader goes on
popping, as bufferProcessingThread does while messages become due. Weak fairness
is enough because a disabled step here is a mutex held, and the holder's own
steps are fair. `FairLifecycle`: the clock goes on, JACK calls the callback in
every period, and the operating system runs main and the thread sooner or later;
a signal need not come. `SongLoops!FairSpec`: play() asks for the next line again
and again.

## Proofs

`MidiHeap_proofs`, for every size of the array of at least 2 and every set of
messages, from the assumption that `mTop` starts at 0 (the constructor leaves it
unset) and that `pthread_cond_wait` returns only after a broadcast:

- `Invariance`: `Spec => []IInv`. The heap order alone is not inductive: in the
  middle of a loop it is broken at one place. `IInv` says where. While the writer
  sifts, only the element at `i` may precede its parent (`Rising`); while the
  reader sifts, only the children of `i` may precede it (`Sinking`); and in both
  the children of `i` are not earlier than the parent of `i` (`Bridge`), so that
  a swap repairs one pair without breaking another. `Ownership` ties the mutex to
  the loops and `Distinct` keeps the messages apart. One lemma per action.
- `TypeCorrect`, `Ordered`, `NoSleeperMissed`, `IfIsEnough`: the invariants the
  run checks. The last says why an `if` around the waits is enough with one
  reader and one writer: nobody else takes the slot or the element.
- `ImplementsQueue`: `Spec => ImplementsMidiQueue`. The step that stores a message
  is `Insert`, the one that takes the root is `PopMin`, and every other step
  leaves the set of messages alone. That the root is an earliest element follows
  from the heap order by well-founded induction up the tree.

`JackEngine_proofs`, for every set of messages, number of ports, capacity and
length of a period. `TypeCorrect` and `EveryMessageAccountedFor` need nothing
else: they hold with the wrap of the frame times too. `AccountedFor` counts the
messages and is not inductive alone; `OnePlace` adds that the five places have
nothing in common. The rest is proved under

- `BeforeTheWrap`: the run ends, with a look-ahead and two periods to spare,
  before half of the frame times are used up (`MaxFrame` is the bound of the
  clock; at 48 kHz half of them are 12 hours), and no message is due behind the
  wrap. `JackEngineWrap` shows what happens then. A number without the 32 bits and
  the number the code stores are the same below (`TimeFacts`, `OffsetFacts`);
- for `EverythingIsOnTime` and `TheBufferIsComplete` also
  `SleepFrames <= LookAhead`, true in the code up to 100 kHz.

`Invariance` is `Spec => []IInv`, and the properties are parts of `IInv` or follow
from it:

- `ThreadKnows` carries what `bufferProcessingThread` saw to the moment it acts:
  the message peeked is still in the heap, a clock read before `peekMin` waited is
  not ahead of the clock now, and something in the heap is due when it is about to
  pop. Hence `PassedIsDue`, and `WhatIsPoppedIsDue`.
- `PassedInOrder`: the heap, the hands of the thread, the ringbuffer and what was
  heard follow each other in the order the messages are due, if none was late.
  A message that is not late is due behind the look-ahead, and nothing there has
  passed the thread (`PassedIsDue`): it may enter the heap. Hence `TheRingIsInOrder`.
- `EventsAreHeard` ties the offsets in the buffer of a port to messages that were
  heard in this period, so that no offset precedes the last one of its port, and
  the buffers have no more events than there are messages: `NothingInTimeIsDropped`.
- `HeapInTime`, `SleepsInTime`, `ReadsInTime` and `RingInTime` are about the clock:
  nothing due is in the heap while the thread sleeps, and the callback leaves
  nothing behind that belongs to its period. Hence `EverythingIsOnTime` and
  `TheBufferIsComplete`.
- `TheEngineDelivers`: `Spec => ImplementsMidiDelivery`. `QueueMidiEvent` is
  `Accept`, a read of the callback is `Sound` or `Drop`, a write to a full
  ringbuffer is `Drop`, and every other step is none of the sequencer's business.

`Lifecycle_proofs`, for every song. `TheRingHasOneWriter` and the invariant behind
it, `NothingIsLeftInTheHeap`, hold with the wrap too, if `MaxWait < PollFrames`:
bufferProcessingThread, whenever it is ready to run, is run before a sleep of
play, 200 ms, would be over. That is a bound on each wait by itself: `waits` is 0
again with each step of the thread and while it sleeps, the thread may wait as often
as it likes, and main, with its input, may be late by any time. main finds the heap
empty and nobody fills it again; as long as a message that the thread has just
popped is not written, every frame is one that the thread waits
(`now + PollFrames <= mainWake + waits`), so that the message has left the thread
when main wakes up.

`TheWholeSongIsHeard` and `SilenceFollowsTheSong` say for every song what a
listener gets when the song ends without a signal: all that was queued, and then
silence on channel 0. Their hypotheses are about the sleep of play, 200 ms: it is
longer than a single wait of the thread for the processor, at least the look-ahead
(`LookAhead <= PollFrames`) and at least two periods (`2 * NFrames <= PollFrames`,
false in the code for a JACK period of more than 100 ms); `BeforeTheWrap`; and
that no message was dropped (`lost = {}`: a full ringbuffer, or a port that
refuses one). `LifecycleInvariance` is the inductive invariant, whose parts follow
a message to its end:

- `EngineKeeps`: until main silences the ports, what was proved of the engine alone
  holds inside the program. Each step of `Lifecycle` is a step of the engine or
  leaves it alone.
- `SongIsQueued`: the part of the song that was played has been queued, and
  nothing else.
- `AllIsDue`: once main has slept the last time in play, all that was queued is due.
  What the thread had popped was due at most the look-ahead later, and the sleep is
  no shorter.
- `RingIsDue`, `RingIsFlushed`: the first period that begins after main's last
  sleep began finds all messages due, and its callback empties the ringbuffer of
  them; with two periods in a sleep, that callback ends before main goes on.
- `SoundOffs`, `SoundsEnd`: a message that stops all sounds is never overtaken, so
  that a note of channel 0 either has its port still to be silenced or has such
  a message behind it (`WillBeSilent`).

`SongLoops_proofs`: `PositionInSong`, for every song, well nested or not: the
position stays in the song and every entry of the stack points to a loop, also
after `initPosition` has left the stack as it was. For every song in which no
endloop is without a loop, `TheStackFollowsTheNesting` and
`TheStackHasTheOpenLoops`: above the entries that earlier rounds left (`stale`),
the stack has the loops open at the position, each at its depth. The length of
the stack alone is not inductive, since endloop jumps to where the top says; the
depth of the loop it points to says where that is.

About the parser, for every input, any number of columns and whatever memory
holds that is not initialised. `LineAssumption` says what a line is: a kind and
what that kind needs; that a pattern has no more words than there are columns,
which the code does not check, is part of it.

`Iteration` unfolds `FoldLeft` once, for any operator: its result is the last of a
sequence of values that begins with the base and goes on by the operator.
`SongText_proofs` instantiates it for the words of a pattern and for the signs of a
bar, and its first part says of one line what it makes of a parser (`LineKeeps`):
which fields it changes, that its events are events, and that what the columns
remember stays an event of the column.

The second part follows the whole text. Its invariant `Structure` says
that the definitions open in the text are the sequencers that are reading, by
number and name (`OpenOK`, `NestOK`), and that the songs have events that play only
complete definitions of their own (`SongsOK`). Hence

- `Types`, and `SubpatternsEnd`: no subpattern plays itself, so that the
  recursion of `playNextLine` comes back;
- `PortsAsWritten`: a column has the port its definition gave it last, whatever the
  order of the columns in the text and however often the map was extended;
- `NothingLeaks`: the volume, the transposition, the signs, the default note, the
  aliases and the subpatterns of a parser are those that the lines of its
  definition say. `Knowledge`, the same one line at a time, is inductive. Lines above a
  line do not change their owner when lines are added below (`OwnerStable`), so that
  the text a definition sees grows by one line or not at all (`Extends`).

`SongLines_proofs` compares the songs with the text. What a text says of a
word is not changed by the lines below it (`KindStays` and its neighbours), and
what a parser that knows its text makes of a word is what the text says
(`KindIsKnown`, `SaysWhatItMakes`). `ReadTo` follows a pattern word by word: the column, the
group, and the last note of each column so far. Two invariants follow the songs:

- `Songs`: the song of a definition has one line for each line of the text
  that is one of its song, and the events of each say what the text says
  (`LineSays`). Hence `LinesLand`, `NotesAsModified` and `SubpatternsAsDefined`.
- `Continuing`: what a column remembers is the last note or subpattern that
  the lines of the song have in it, as long as no line of the definition has thrown
  (`LastOf`), and the `|` and `^` of each line go on with what was last there. Hence
  `NotesGoOn`: `ContinuesTheColumn`, which looks for that note in the whole text.
  What `*` plays is not remembered, and the property leaves out what follows it.

`NothingLeaks` and the theorems of `SongLines_proofs` assume `BarsAreBare`, that no
bar of the input has a comment behind it: with one they are false, as the run
`ParserComment` shows. TLC evaluates the assumption for the input of the run `Parser`
(`WithoutComments`). The theorems of the structure, the types and the ports need no such
assumption.

`Sequencer_proofs`, for every song that the parser makes (`IsText`: a `|` has
something to continue, a command is alone in its line), subpatterns in one another
to any depth, and any number of columns. What a subpattern does is a fold over the
depth (`Asked`), whose steps are functions from worlds to worlds, so that the
proof unfolds it as any other fold: an induction over the natural numbers, one
depth after the other.

- `Types`: `Spec => []TypeOK`. `Kept` says of a call which fields of the main
  sequencer it leaves and which messages it may add; it goes through every kind of
  event, every loop of `wait` and `silence`, and `NestedOK` is the claim for the
  subpatterns that are played: they leave the main song alone (`AskedOK`, for every
  depth). Together with the types it gives that each line of the main song is
  executed once and its time noted, and that no message is before frame 0: the
  sequencer starts later than the columns are many (`StartTime`), and time does
  not go back.
- `NotesEnd`: `Spec => []NotesLastUntilTheNextEvent`. The property speaks of the
  messages and the song only. The invariant behind it, `Books`, adds the active
  lists, event by event within a line: the stops queued so far are in pairs with
  the notes that are due at this event, each with the time of the line that ended
  it, the active lists have the notes of earlier lines that still sound, and
  the next ones those of this line. A new event of a column makes exactly the first
  of these due (`EndingEvents`), and `SilenceColumn` stops each of them once
  (`ColumnStopped`), whatever the subpatterns in the list do; any other event
  leaves the books as they are. Since the pairs are one to one, as many stops
  were queued as are due. The theorem is about songs whose notes are ordinary
  (`NotesAreOrdinary`): none is endless, and a note with a length has a volume, so
  that its end, which is queued with that volume, is not taken for a stop.

Only model-checked: `NothingLeftBehind` and `SilentAfterTheSong` when a message
was dropped, after which the callback may leave the rest of the ringbuffer for the
next period; liveness (`InsertReturns`, `ProgramEnds`, `ComesToAnEnd`), which the
prover does not reach; `PlaysExpansion`, whose reference definition is recursive;
and of `Sequencer` `NoHangingNote`, `SubpatternInStep` and `RampsAreGradual`. The
first two are about what subpatterns play, and `NoHangingNote` is false without the
choice of songs that the run makes; the last is false for ramps that wrap.

## Not modelled

- `jack_shutdown_cb`: it closes the client that main or the handler closes again,
  and what follows is memory used after it was freed.
- The memory of the vectors: `registerOutputPort` grows `mOutputPorts` under the
  iterator of the callback (jackengine.cpp:193, 41), and `mLastNote` has 64
  columns (parser.cpp:357).
- A signal that interrupts an insert while it holds the mutex of the heap: the
  handler does not take that mutex, the thread waits for it until the process ends.
  In `Lifecycle` the thread may be as slow as `MaxWait` says, not stopped.
- The characters of a line; fractions of milliseconds; the bytes of a message.
- Loops inside the songs of `Sequencer`.
- A port without a buffer (`jack_process_cb` returns -1 and drops the message),
  `connectPort`.
- A JACK server that does not run: `init` throws a `const char*` (jackengine.cpp:159)
  and main catches a `std::string` (main.cpp:153), so that the program aborts.
- The class `OutputLine` (nothing uses it), build files, example songs.

Met on the way and not kept as runs:

- `mTop` is never initialised (midiheap.cpp:74): a heap on memory that is not zero
  counts messages nobody inserted.
- `wait n` takes a line for every active note in every turn: no time at all when
  nothing sounds (events.cpp:144, "Skip a number of turns.", events.h:120).
- Bars of 3 and of 4 notes do not take the same time (sequencer.cpp:128, README:111):
  at tempo 60 they take 999 and 1000 ms.
- An endless note gets a NOTE_OFF from the next event of its column like any
  other: `endless` (noteevent.cpp:194) only keeps `execute` from queuing the end of
  a note with a length, although noteevent.h:22 says "Do not send NOTE_OFF for this
  note." The constructor that parses sets it for a "." (149) and never clears it
  (33-45).
- A message that JACK refuses, because the buffer of its port is full, is lost; and
  the callback returns (jackengine.cpp:94), so that the messages behind it sound a
  period late, those of other ports too.
- `writeMidiData` drops a message without a word when the ringbuffer is full.
- `stopSounds` sends its message on channel 0 only (jackengine.cpp:263).
- `$7=0..127:3/2`, the example of README:165, is not a ramp: without a step the read
  of the step fails at the ":", and the time is not read (midictlevent.cpp:80). And
  `$pb=0..16383` has more values than frames: timeStep is 0 (142).
- `*` is a note whose column nobody sets, of volume (unsigned)-1 if `default` gives
  none (parser.cpp:327, noteevent.cpp:26-29, 172). `^` and `|` behind it go on with
  the note before it (parser.cpp:331), although README:56 says "Repeat the last
  note."
- `|` in a column without a note ends the program by an assertion (events.cpp:68), and
  `^` there puts NULL into the song (parser.cpp:331).
- "(C)" leaves the group open (parser.cpp:289-298); an alias of a subpattern's name is
  ignored (310); a word with ":" or "+" is looked up with them (301).
- `port` without a channel takes an uninitialised one (parser.cpp:213).
- `loop 0` plays its lines once (sequencer.cpp:156, README:83).

## Plan

Done, in this order: the heap and its proof; the engine around it; the loops of a
song; the sequencer and its events; the life of the program around the engine;
ramps and parts of lines; the parser; the proofs of the engine, of its
refinement, of the end of the program (one writer, the whole song, silence), of
the loops, of the parser, and of the sequencer (types, and the end of each note).
Left:

1. A composition of `Sequencer` with the bounded heap: a full heap only delays
   the messages.
2. `SubpatternInStep` as a theorem, from the same folds over the depth.
