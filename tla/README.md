# Energy monitoring socket: verification project

TLA+ models of the firmware in `src/main` (ESP32, ESP-IDF 5.0, FreeRTOS on two
cores): a wall socket that measures current, voltage and energy with an ADE7753,
shows them on an SSD1306 OLED, publishes them over MQTT and keeps the energy total
in NVS. The modules are checked with TLC on small instances; the invariants that the
runs check (all but `ResetSticks`, of which a more general form is proved), and both
refinements, are also proved with TLAPS for all values of the constants.

## The system

| component | source | state | operations | talks to |
|---|---|---|---|---|
| sampling tasks | `main.c` `get_irms_task`, `get_vrms_task`, `get_energy_task` (core 1, priority 4) | `irms`, `vrms`, `at_power` | poll `xsema_handle`, read the ADE7753, send to both queues, sleep 2 s | ADE7753 driver, queues |
| consumers | `send_to_cloud_task` (core 0, priority 5), `display_task` (core 1, priority 4) | item in hand | receive, dispatch on the id | queues, MQTT, OLED |
| ADE7753 driver | `ade_new.c`, `spi.c` | `sum_irms`, `sum_vrms`, `energy`, `energy_mill` | register reads, RMS values, energy accumulation | SPI device |
| energy store | `main.c` `app_main`, `storing_energy_task` (core 1, priority 4) | NVS key `energy`, `at_power` | restore at boot, store every 60 s | NVS, `get_energy_task` |
| reset button | `button.c` (core 1, priority 10) | a task notification | interrupt, store 0, `esp_restart` | NVS |
| MQTT client | `mqtt.c` | `client_g` | connect, publish QoS 0, events | `send_to_cloud_task` |
| Wi-Fi and smartconfig | `wifi_conection.c` | `wifi_connected`, event group | events, reconnect, provisioning task | event loop, `data_logging_task` |
| clock and logging | `ds3231.c`, `data_logging_task` (core 1, priority 3) | time of day | BCD conversion, read while offline | I2C |
| OLED | `oled_1306.c` | frame buffer `_page[]`, scroll state, flip | text, images, scroll, drawing | I2C, `display_task` |
| SD card | `sd_card.c` | mounted file system | mount, `data_logger` (call commented out) | FAT library |

What is hard here: three tasks share one SPI device and their two consumers share
two bounded queues that drop silently; a busy-wait on a status bit is done with the
semaphore held; a double is shared between two tasks of a 32-bit core without a
lock; the total must survive failures of the supply, and the button must win
against the task that saves the total; the tick counter wraps; a publish may block
for as long as the network likes; Wi-Fi events are handled long after the driver
state they report.

What makes each part correct:

* pipeline: exclusive use of the ADE7753; no consumer ever goes back to an older
  value; sampling never stops, whatever the network does;
* energy store: no tick billed twice, no torn value stored, the total survives a
  restart, the 0 of the button is final;
* Wi-Fi: once events are handled, the flag agrees with the driver; smartconfig ends;
* clock: set then get is the identity, also in 12-hour mode and after a write that failed;
* OLED: the frame buffer is what the panel shows; loops end; drawing stays inside;
* MQTT: nothing is published before a client exists; what was queued is handed over in
  order; whatever is lost when, the socket publishes again or logs, unless what it lost
  is the broker or its address under a standing link;
* ADE7753: a value is the mean of its own round, and its text fits the buffers it is printed to.

## The modules

| module | what it is |
|---|---|
| `SampleFeed` | abstract: a consumer shows, for each quantity, measured values that never go back |
| `Metering` | sampling tasks, semaphore, SPI device, both queues, both consumers; implements `SampleFeed` twice |
| `EnergyStore` | the total in RAM and NVS, boot, button, failures of the supply |
| `WifiLink` | Wi-Fi event handler, event group, smartconfig task |
| `Uplink` | `WifiLink` composed with the MQTT client, the publishes and the logging task |
| `Ade7753` | the ADE7753 driver: frames, set-up, rounds of reads, the room its values need as text |
| `Ds3231` | the clock driver's conversions and `data_logging_task` |
| `OledPanel` | the OLED as `init_oled` and `display_task` use it: panel memory and frame buffer |
| `OledScroll` | text and software scrolling of the OLED driver, for a caller of its interface |
| `OledDraw` | extends `OledScroll` with wrapping, bitmaps, pixels, lines, large text, fade-out and the frame buffer's own calls |
| `MC*` | instances for TLC (`Uplink` has its constants in the `.cfg` file) |
| `MeteringProofs`, `EnergyStoreProofs`, `Ds3231Proofs`, `Ade7753Proofs`, `WifiLinkProofs`, `OledPanelProofs` | theorems about the module of that name, and their proofs |
| `UplinkProofs` | extends `WifiLinkProofs`: the composition implements `WifiLink` and keeps its properties |
| `OledDrawProofs` | theorems about `OledScroll` and `OledDraw` |

`Uplink` and `OledDraw` are compositions. Otherwise the modules share no variable: the tasks they model meet only in `at_power` (written
by `get_energy_task`; `EnergyStore` has its words, `Metering` its versions),
`wifi_connected` (an input of `Ds3231`, the result of `WifiLink`) and the items of
`displaying_queue` (`Metering` carries them, `Ade7753` bounds them, `OledPanel` draws them).
In every module the definitions headed "Mutant" are plausible bugs of the definition
that follows; no specification uses them. They show that each property can fail.

### Metering

`pc[m]` is where the sampling task of quantity `m` stands: polling `xSemaphoreTake`,
before or inside `spi_device_transmit`, about to give the semaphore, about to send to
each queue, or in `vTaskDelay`. Each step between two points at which another task may
be scheduled is an action. A measurement is represented by its version, so "older"
and "newer" can be said; the register bytes and formulas are in `Ade7753`. `StatusRead`
is the busy-wait for CYCEND in `get_power_consumption`, made with the semaphore held;
a failed SPI transfer gives 0. `SendData` fills the item from the global *after* the
semaphore was given back, as the code does. `QueueSend` drops an item if the
queue is full. `Consume` hands an item to MQTT (or drops it while `client_g` is NULL)
or to its OLED row.

Three things about this code are recorded here since no property is about them: a read
that failed counts as 0 in the RMS mean; CYCEND is read from STATUS and never cleared,
so after the first line cycle the wait returns at once and samples may be of the same
cycle; the energy formula multiplies tick counts (10 ms at the configured 100 Hz) by
constants that look made for milliseconds.

### EnergyStore

Energy is counted in power units times ticks and `Unit` of them make the 1 of the stored
`int32_t`. `energy`, `energy_mill` are the statics of `ade_new.c`; `at_power` is a
double on a 32-bit core and is written and read in two words in any order
(`WriteAtPower`, `ReadAtPower`). The tick counter wraps at `W`, and
`get_power_consumption` reads it twice (`Measure`, `SetMill`), with ticks possible in
between. `PowerFailure` and `Restart` reset everything but NVS. `app_main` is
`InitFlash`, `Restore`, `InitButton`, `StartTasks`: the button works before the tasks
run. `InitFlash` erases the partition or not, and aborts, which boots again, when
`ESP_ERROR_CHECK` meets an error of the erasure or of the initialisation
(`main.c:217`, `220`). `gpio_task_example` has priority 10 on the core of the other tasks, hence
`TasksMayRun`: they do not run while it does, unless `RestartYields`, that is unless a
shutdown handler called from `esp_restart` blocks.

### WifiLink

The driver posts events; the event loop calls `event_handler` on them one by one and
later; `todo` holds the calls the handler still has to make, each one an action, so the
driver and the smartconfig task move between them. `SetBits`/`WaitBits` follow
FreeRTOS: bits that wake a waiter are cleared for it (so the event group holds pulses, not
the state that the comment at `wifi_conection.c:3` describes; nothing else reads it). `LoseIp` is the loss of an address
on a standing link, for which no handler is registered. `STA_START` only creates the
smartconfig task: credentials left from an earlier boot are not used until smartconfig
delivers new ones (`NeverParked` therefore speaks of a provisioned station).

Credentials may arrive more than once: when the phone was not answered in time
(`SmartconfigTimeout`) the library listens again, and the next ones, right or wrong, are
handled while the station may be connecting with the last. The driver refuses
`esp_wifi_set_config` during an attempt, and `ESP_ERROR_CHECK` then aborts: `SetConfig`
has that branch (`aborted`), and `NeverAborts` says that `esp_wifi_disconnect`, made one
call earlier, keeps the handler out of it. Nothing runs after an abort; the boot that
follows would be another behaviour.

### Uplink

`Link` is a step of `WifiLink`; a broker connection whose link is lost is `dead` until the
client notices. `client_g` is set by the first event, which ESP-MQTT sends before it tries
to connect, so there is a time in which items are handed to a client that is offline and are
lost (QoS 0, result ignored), beside the time before, in which they are dropped.
`CheckFlag` and `WriteLog` are two steps, since the flag may change after
`data_logging_task` has read it.

`broker` says whether the broker is in reach; it may go and come back, or stay away for
ever. The hazard is that the task looks at the flag of the Wi-Fi link and not at the
connection to the broker: while `wifi_connected` is 1 and the broker is out of reach, or
the address was lost on a standing link (`LoseIp`), the socket neither publishes nor takes
its offline branch, for as long as that lasts. `Stranded` names these two states, and
`NeverSilent` says that they are the only ones in which the silence can last; whatever
else is lost when, the socket publishes or takes the offline branch again and again.
`CloudResumes` says that a provisioned socket gets back to publishing if the access point
answers and the broker is in reach again and again. The offline branch prints the time:
its call of `data_logger` is commented out (`main.c:194`), so no measurement is written.

### Ade7753

A frame is the sequence of bytes of a transfer. `Init` queues the three frames of
`ade7753_init`, `SetUp` sends them one by one, and any of them, like any read, may fail;
the code prints the failure and goes on. A round is `StartRound`, ten times `ReadRegister` or
`MissRegister`, `FinishRound`; the sums are globals that only the end of a round resets.
Values are counted in hundredths, cut where the code rounds, since the room a text needs is
what `TextFits` is about. The parameter `N` of `get_IRMS` is ignored by the code, and
the tasks start after `ade7753_init`. `TextFits` speaks of RMS values: the energy total has
no bound, and fits `data_string` up to 9999.99 and `post_data` up to 999999.99. `LAENERGY`
is read as an unsigned number (its use is in `Metering` and `EnergyStore`).

### Ds3231

The chip keeps a calendar time, jumps from an instant of `Times` to any later one, and
shows it in BCD registers in the 24-hour or the 12-hour form. `SetTime` and `GetTime`
are the two driver functions with the `uint8_t` truncation of `dec2bcd`; `Log` is one
turn of `data_logging_task`, which ignores the result of the read. A write may fail and
then has arrived in part: the chip keeps the first bytes of the new time and the rest of
the old one (`Taken`), and takes the 24-hour form with the third byte. The driver keeps the
full year in `tm_year`, and the printing of the task agrees with that.

### OledPanel

A character is eight columns, a cell. `SendAddress` and `SendData` are the two I2C
transfers of `i2c_display_image`, whose results are ignored, `BeyondEdge` its early
return, `SetBuffer` the `memcpy` of `ssd1306_display_image`. The frame buffer is modelled
as it lies in memory (8-byte units, one of `_valid`/`_segLen` and sixteen of `_segs` per
page), because the texts of `display_task` really leave their page.

The panel puts data where its pointer stands, a page and a column, and moves the column on
with each byte; it wraps within the page. A transfer that fails may arrive whole, in part or
not at all: of the address first the lower half of the column, then the upper one, then the page
(`PartsOfAddress`, the order of `oled_1306.c:139-144`), of the data any number of bytes
(`Arrive`). A cell that got a part of an image, or parts of two, is `junk`. Since the
results of the transfers are ignored, the data that follow a lost address land where the
pointer was left. `whole[row]` remembers that a row was written without a failure, and that none
since then was for this row or found the pointer in it.

### OledScroll and OledDraw

A byte, eight pixels of a column, is the set of its bits that are 1, so that shifts,
rotation and inversion are set comprehensions. In `OledScroll` each turn of the loops of
`scroll_text` and `scroll_clear` is an action; `before` remembers the frame buffer of the
call, so that the effect of the whole call can be stated. In `OledDraw` each call is one
action, with its in-place loops as recursive functions (`Turns`, `After`), because no other task
shares the buffer. What a call leaves in the buffer and what it sends to the panel are
given separately (`Draws(call, f, p)`), as the code sends the image and copies it to the
buffer in two statements (`oled_1306.c:215-218`, `285-286`, `709-710`); which calls should
agree in both is taken from the comments alone (`Internal`: `oled_1306.c:380-382`, `578`, `598`), and
`unshown` remembers the pages that calls said to be internal have changed. `PanelFollows` compares the
two. The properties
speak of what a viewer sees at a column and a row (`Lit`), and state each call's
effect on every pixel of the panel, written without the bytes and loops of the code.
The transfers succeed here; `OledPanel` lets them fail. `dev._flip` is a variable that the
caller chose: the driver reads it everywhere and sets it to false in `ssd1306_init` only.

`software_scroll` accepts a range of one page (`oled_1306.c:318-323`). The loop of
`scroll_text` then starts with `srcIndex` past its exit and goes on through the pages
before the range, copying each over the next, until it indexes outside of `_page[]`.
`CopyPage` follows it up to there and `LeaveBuffer` ends the behaviour of the call
(`pc = "beyond"`), since what it reads and writes from then on is memory of others.
`ScrollEnds` states both cases, and `DrawTypeOK` that the loops index no page outside in any other case.

Preconditions, where the code does not test its arguments and nothing in the repository says what should
happen: bitmaps and points lie inside the panel, and large text has its three pages
on the panel (`page + 2 < Pages`; the `memcpy` after the transfer has no limit). No theorem or run says anything of calls that break these.
`clear_line` is called from position 0 only (from another one it writes a
character more than the row has left). `_ssd1306_pixel` on a flipped panel turns the whole byte
after setting one bit of it, so that a second pixel turns the first over: `SetPixel`
does the same, and `LineDrawn` is stated for a panel that is not flipped.

## The runs

| run | specification | shows |
|---|---|---|
| `metering_pipeline` | `Spec`, 2 tasks, queues of 2, 2 versions | `SpiExclusive`: the semaphore protects every transfer; `InOrder`; both consumers implement `SampleFeed` |
| `metering_live` | `LiveSpec` | `KeepsSampling`, `DisplayCatchesUp`, with a cloud task that may stop for ever; `CloudCatchesUp`, if publishes return |
| `energy_total` | `LiveSpec` | `NeverOverBills`, `SavedNotAhead`, `ResetSticks` across wrap, tearing, restarts; `PressRestarts` |
| `energy_yields` | `Spec`, `RestartYields` | violated: the button's 0 is overwritten during `esp_restart` |
| `energy_restored` | `Spec` | violated: the restored total is dropped by the first measurement |
| `wifi_link` | `UplinkLiveSpec` | `FlagSettles`, `NeverParked`, `NeverAborts`, `Reconnects`, `SmartconfigEnds` of the link, `NeverSilent`, `CloudResumes` of the whole path |
| `ade_values` | `Spec`, two failed transfers | `MeanOfRound`, `TextFits`, `RunsConfigured` |
| `clock_time` | `Spec`, 24-hour form, failed reads and writes | `ReadsTheTime`, `SetsTheTime` |
| `clock_hour12` | `Spec`, 12-hour form | violated: `ReadsTheTime` |
| `oled_rows` | `Spec`, one failed transfer | `ValuesStand`, `LabelsStand` |
| `oled_scroll` | `DrawLiveSpec`, flipped and not | `ScrollShifts`, `ClearsRange`, `WrapTurns`, `BitmapDrawn`, `LineDrawn`, `TextEnlarged`, `PanelFollows` in any order of two calls, `ScrollEnds`: the loops end, and the one of a one-page range leaves the buffer |
| `oled_buffer` | `Spec`, no failures | violated: the frame buffer is not what the panel shows |

### Bounds, and why they are enough

* `Metering`: two tasks contend for a semaphore as three do, and the proofs cover any set. A queue of 1 is empty, full and refusing; 2 is needed for
  order within a queue. `MaxSample` versions: with 2, an older and a newer value exist
  beside the initial one; the next ones are not told apart from the last. `READS` 1 or 2
  stands for the 10 reads of a round: the loop is entered, repeated and left. The
  proofs hold for any of these.
* `EnergyStore`: `W = 3` with 5 ticks wraps the counter; one integer is two units
  (`B = 2`, `K = 1`), so tearing and rounding occur; `MaxFailures = 1` with any number of
  presses gives several boots.
* `WifiLink`, `Uplink`: at most 3 events wait for the handler (a driver whose event queue is
  full blocks); attempts, links or addresses are lost and provisionings time out 2 times
  together (`MaxLosses`), so that credentials arrive up to three times; one outage of the broker
  or message lost on the way (`MaxOutages`), from which the broker comes back or does not.
  Attempts with wrong credentials fail without limit. The proofs hold for any of these bounds.
* `Ade7753`: the greatest content of a register, one with three different bytes and one whose
  voltage is near 100 V; two failures fall on any of the frames and reads of any rounds.
* `Ds3231`: 16 instants with every month, hours of both halves of the day, the first and the last
  of a month, 2000 and 2099. `Failing`: the setting of one of them may fail, at any byte and
  at any instant, so that the chip is left with mixed times. The proofs hold for every
  instant from 2000 to 2099 and any set of failing ones.
* `OledPanel`: 4 of 8 pages in `oled_rows`, that is the rows and one that is only cleared (and the
  panel of 32 pixels that the driver knows), the longest value the buffer of `display_task`
  has room for and the shortest that can be printed, and one transfer that fails anywhere. One
  failure is not enough to show all there is: what seven failures in a row do was met in the
  proof (see below), which holds for any number of pages, values and failures.
* `OledScroll`, `OledDraw`: three pages have ranges of two and of three with and without a page
  outside, and a first, a middle and a last page to wrap; 24 columns hold three characters or
  a large one; one text fits and one is cut. The points give lines of every octant, a diagonal and single points, and
  bitmaps, whose rows are of equal length, that start in a page and cross into the next. An empty and a patterned
  picture, on a flipped panel and one that is not. Two calls (`MaxCalls`) are what a range and its
  scrolling need, or drawing in the buffer and a call that shows it. The proofs hold for any
  size of the panel (a row holds whole characters), any pictures, texts, bitmaps and points and any number of calls.

`CHECK_DEADLOCK FALSE` is set for `oled_scroll` only: the calls of a behaviour are bounded
there, and a driver that is not called rests.

### Fairness, and why the code justifies it

* `Metering!SamplerFairness`: tasks of equal priority are time-sliced, so a task that can go
  on does (weak). Polling the semaphore must meet it free: each holder sleeps 2 s after
  giving it back, so it is free again and again while the others poll
  (strong on `TakeSemaphore`). STATUS reads repeated for ever succeed at some time
  (strong on `StatusRead`) and the mains ends line cycles (`LineCycleEnd`).
  `send_to_cloud_task` gets none in `LiveSpec`, because a publish blocks as long as the
  network does; `CloudCatchesUp` assumes it in its premise.
* `EnergyStore!LiveSpec`: `gpio_task_example` has the highest priority of its core.
* `Uplink!UplinkLiveSpec`: the event loop and the smartconfig task run; `app_main` gets to
  `mqtt_app_start`; the client library connects when it can reach the broker and notices a
  dead connection (keep-alive); `send_to_cloud_task` and `data_logging_task` are scheduled
  and poll. Nothing is assumed of the access point, the phone or the broker: that an attempt
  ends and an address is given (`Answered`) is a premise of `Reconnects` and `CloudResumes`,
  that the broker is in reach again and again one of `CloudResumes`; `NeverSilent` has none.
* `OledDraw!DrawLiveSpec`: a call that has been made goes on.

## What is proved

All theorems are checked by TLAPS for every value of the constants that satisfies the
modules' `ASSUME`s.

* `MeteringProofs!TypeCorrect`, `DeviceExclusive`, `PipesInOrder`,
  `DisplayImplementsFeed`, `CloudImplementsFeed`. `SpiExclusive` is not inductive: a
  task enters a transfer because of where it stands, so `OneHolder` says that at
  most one task is between take and give, that the semaphore is 0 while one is, and that
  only such a task is inside a transfer. `InOrder` (everything on the way to a
  consumer is in order of measurement, nothing newer than the global, nothing older than
  what is shown) is inductive with `ShownMeasured` (nothing is shown that was not
  measured); the lemmas `OrderedAppend`, `OrderedTail`, `OrderedNewer` carry it through
  a send, a receive and a measurement. Each step is then a `SampleFeed` step or a stutter.
* `EnergyStoreProofs!TypeCorrect`, `BillingBounded`, `ButtonResets`. `BillInv`
  strengthens `NeverOverBills`: the total is bounded by the power times the time *at the
  last reading of the counter*, the two counters never claim more than the time since, and
  the high words of `at_power` and of the copy being saved are bounded by what was
  delivered; the stored integer depends on the high word only (`IntegerOfHigh`), so even a
  torn pair is not too large.
  `ButtonResets` holds whether `esp_restart` yields or not: once the button has stored its 0, no
  step puts a total back in NVS except a store that `storing_energy_task` completes inside of
  `esp_restart` (`ResetKept`). That exception is the finding of `energy_yields`. `ResetSticks`,
  which has no exception, is checked in `energy_total` with `RestartYields = FALSE` only, and
  says nothing of the firmware as it is built. `ResetInv` says that the tasks do not run between
  the store of the 0 and those of the next boot, but for `esp_restart`.
* `Ds3231Proofs!TypeCorrect`, `ReadingExact`: assuming the chip is in
  24-hour form (`Modes = {FALSE}`; needed, see `clock_hour12`); `SettingExact` in either form,
  also when a write before has failed in part. The inductive invariant
  `ClockInv` adds that nothing ever switches to the 12-hour form. `TwoDigits` is the
  arithmetic core: for 0 to 99 the two-digit byte determines the number.

* `Ade7753Proofs!MeanKept`, `TextsFit`: `RoundInductive` shows that the sum of a round lies
  between the reads that succeeded times the least content met and times the greatest,
  and below the reads made times 2^24; `ReadsContent` that the four bytes of an answer give back
  the content. `MeanOfRound` does not bound the values returned, since a round is over
  when they are printed; `ResultInv` carries the bound: `HundredthsBounded` makes it 10000.00
  for any sum of ten registers, `WidthBounded` seven characters of it.
  For `TypeOK`, `RoundInv` gives ten registers of 24 bits as the bound of a sum;
  `SetupInv` (which frames are still queued, and which registers the ones before them have
  set if nothing failed) makes `RunsConfigured` inductive.

* `EnergyStoreProofs!TornNotAhead`: `SavedNotAhead` is about a pair of words that may be of two
  different totals, so it says too little to be inductive. `AheadInv` speaks of the high
  words only, of `at_power` and of the copy: none is above that of the total measured, unless
  it is that of the restored total. That decides the stored integer (`IntegerOfHigh`).

* `WifiLinkProofs!TypeCorrect`, `FlagCorrect`, `Retried`, `NoAbort`, for any number of
  events and losses. What makes the properties inductive is what the events that wait
  and the calls that are left will do. `Remainders` are the only ends of a handler that
  occur. `Becomes(events, now, value)` says that in the queue no event that makes the
  flag another value comes after the last one that makes it `value`; `FlagInv` relates that to
  the state of the link. `RetryInv`: a provisioned station that is idle has a call that
  connects it, or a loss that is not handled yet. `ConfigInv`: whatever the
  station was doing when credentials arrived, after `esp_wifi_disconnect` it stays idle until
  the configuration is set, which makes `NoAbort`.
* `UplinkProofs!ImplementsLink`: every step of the composition is a step of `WifiLink` or leaves its
  variables alone, so `UplinkKeepsLink` has the properties of the link for the whole path.
  `CloudInductive`: a connection to the broker stands on a link with an address.

* `OledPanelProofs!TypeCorrect`, `ValuesShown`, `LabelsShown`. `PanelInv` says where
  `init_oled` is in its script (`ScriptInv`); that data go to the cell of their character, or a
  failure is reckoned to the row where they go and to the row they were for (`AddressInv`); and which
  cells of the text being written are done (`ValuesInv`, `LabelsInv`). An earlier form of `ValuesStand`
  said that a failed transfer never hurts another row than its own. TLC agreed, with one failure;
  it is not so: after a row is written the pointer has wrapped to the first column of that row,
  so that characters of another row whose addresses are lost fall on its label, and the
  seventh in succession on its value. The model now has a pointer with a column, `whole` reckons a
  failure to the row of the pointer too, and the property says what the code gives.
* `OledDrawProofs!DrawTypeCorrect`, `ScrollMoves`, `Clears`, `PanelShown`, `Wraps`, `Enlarged`,
  `Bitmapped`, `Lines`. The loops of `scroll_text` and `scroll_clear` are actions: `MovedInv` says
  which pages are already moved or emptied (`Written`) and that the others are as before, `LoopInv`
  where the loop is. The other loops are recursive functions over a frame. What
  they return is an induction over the turns; the induction theorems of the library
  cannot be used with the provers at hand, and the proofs use the least turn at which the claim
  fails instead (`Smallest`, from the well-foundedness of `<` on the naturals): `EveryTurn`
  has the induction step as a hypothesis about a set, `LoopRuns` that a loop has an execution, which is
  then the recursive function. On these rest `TurnsAre` (the frame after `n` pages
  of a wrap, in closed form), `RowDrawn` and `BitmapStands` (the rows of a bitmap down to the
  n-th), and for a line `OnLine`: after `n` steps the error term is twice the
  distance along the shorter side from the ideal line, less the longer side, and stays
  between minus two longer sides and 0; `OnLineNear` turns that into the half pixel of `LineDrawn`.

Only model-checked: the liveness properties (`KeepsSampling`, `DisplayCatchesUp`,
`CloudCatchesUp`, `PressRestarts`, `Reconnects`, `SmartconfigEnds`, `NeverSilent`,
`CloudResumes`, `ScrollEnds`), since fairness is out of the prover's reach.

## Findings

1. **The restored total is lost** (`energy_restored`). `main.c:229` restores the energy
   "before power off" to `at_power`, but `ade_new.c:149` accumulates into its own `energy`,
   which starts at 0; the first measurement replaces the restored value and the next
   store saves that.
2. **The button's 0 can be overwritten** (`energy_yields`). `esp_restart` runs the
   shutdown handlers, among them the one of the default Wi-Fi initialisation
   (`build/main.map:80264`), which blocks; `storing_energy_task` may then complete a store
   it had begun.
3. **12-hour form** (`clock_hour12`): the hour read is off at every hour.
4. **Texts overrun their page of the frame buffer** (`oled_buffer`): visible only once
   something reads the buffer (`ssd1306_show_buffer`, scrolling).

## Not modelled, and the plan

Not modelled, and why:

* mounting the SD card (one call at boot whose failure is only logged) and `data_logger`,
  whose only call is commented out (`main.c:194`); called, it would go on with a null file
  after a failed `fopen` (`sd_card.c:78`);
* `spi.c`, the pins of the button and of I2C, the command links of the DS3231: calls with
  constant arguments and no state of the program;
* the OLED's set-up commands, contrast, dumps and getters: constant sequences and printing;
  `i2c_hardware_scroll` is declared, but defined nowhere in the repository;
* the font (constant data), generated and vendored files, `sdkconfig` (read for the tick rate,
  the number of cores and the handlers that are linked).

Seen while modelling, without a property: after a failed read `data_logging_task` prints the time
of the reading before (`main.c:191`); `clear_line` from a position above 0 writes a character
beyond the row (`oled_1306.c:305`), and large text copies to the two pages below without a
test that they exist (`oled_1306.c:286`), which the preconditions of `OledDraw` exclude.

Still to do: for the liveness properties, the safety part each rests on as an invariant with a
theorem (that the loops of `OledScroll` come nearer to their exit with every turn; that
a press noted by the interrupt is not lost before the task takes it; that a bit
`SmartconfigTask` waits for is cleared only when it is looked at). An abstract specification of the
picture that scrolling and drawing promise, with `OledDraw` as its refinement, would join
the properties about single calls into one. A module could follow `app_main` through its
other set-up calls, to say that each task starts after what it uses.
