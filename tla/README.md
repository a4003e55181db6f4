# quarry-hil: models and proofs

TLA+ modules for the two hardware-in-the-loop runners of this repository, the
serial link they share, the relay that powers one of the boards, the NUCLEO's
benchmark firmware and the CI jobs that run it all; TLC runs on small instances;
theorems checked by TLAPS. Paths are relative to `src/`. `V` is
`boards/visioncb-8m-std/run_visioncb_hil.py`, `N` is
`boards/nucleo-f446re/run_nucleo_hil.py`, `SL` is
`infrastructure/core/serial_link.py`.

    tlc -workers 2 -config hil_recovery.cfg MCVisionHil
    tlc -workers 2 -config host.cfg HilHost
    tlapm VisionHil_proofs.tla

## 1. The system

Each board has a runner, a sequential Python program started by CI or by hand.
It builds firmware from a Quarry checkout, puts it on the board, has it run a
benchmark, collects one result structure, validates it, writes `result.json`
and exits with 0 (pass), 1 (test failure), 2 (infrastructure error) or 3
(recovery required: a human has to touch the board). The only concurrency
inside a runner is the reader thread of its serial link; everything else that
moves is outside: the board, its probe, a relay, a USB hub, leftover state.

| Component | State | Operations | Talks to |
|---|---|---|---|
| VisionCB runner `V` | statement, attempt counters, result document | provenance, build, discovery, acquire console, boot SD Linux, login, storage check, transfer, reader, reboot, M4 start, collect, validate, one retry | SerialLink, relay, hub |
| NUCLEO runner `N` | statement, result document | provenance, build, flash, reset, wait for the frame, SWD fallback, validate | SerialLink, st-flash |
| SerialLink `SL` | descriptor, buffer under a lock, stop event, console.log | reader loop, `wait_for`, `clear_buffer`, `snapshot_text`, `catch_uboot_prompt`, `close` | tty, runner |
| PowerRelay `infrastructure/core/power_relay.py` | none of its own; the relay board's EEPROM and channel | choose the relay board, off and query, on and query | board supply |
| USB hub `infrastructure/core/usb_hub_power.py` | none (the hub's port) | off, on | J-Link probe |
| NUCLEO firmware `boards/nucleo-f446re/firmware` | `g_result` in RAM, painted stack, cycle counter, USART2 | reset handler, overhead median, proof pass, three timed loops, watermark, one report, heartbeat | runner, over UART and SWD |
| Result schema `infrastructure/schema/result_schema.py` | none | validator | tests only; the runners are to follow it |
| CI workflows `.github/workflows` | shared Quarry clone, workspace with both boards' run directories | check out, fetch and resolve the ref, run the script, collect the newest run, summarise, upload, verdict | GitHub, runners |

### What is hard about it

* **Leftover state.** The SD card, the M4's DTCM, the compiled reader, the
  NUCLEO's flash and RAM all outlive a run, so an earlier build's image or
  result can be taken for this one's.
* **Text that answers the wrong question.** The console is one buffer. Late
  output of an earlier command, the tty's echo of the command itself and the
  banner of an aborted boot can all satisfy a wait.
* **Recovery inside recovery.** Three bounded loops (the retry, the board's
  power cycles, the probe's power cycles) nest. They must end, must not be
  skipped and must not repeat.
* **Faults.** Boards hang, the probe leaves the bus or stays on it without
  carrying a byte, the ST-LINK's bridge forwards nothing after a host reboot,
  lines are lost on the wire, st-flash fails half-way, relay and hub commands fail.
* **The reader thread** against clear, trim, a log it cannot write, close and reuse
  of its descriptor.
* **RAM read under a running core**: SWD may read `g_result` at any moment.
* **A switch that may not be the right one.** The relay board's serial has been
  seen to change by itself; four queries and two commands of one power cycle each
  find the bus as it is then.
* **Shared between jobs**: one clone and one workspace serve both boards; a job
  may fail or be cancelled at any step and the `if: always()` steps still run.
* **Numbers**: a counter that wraps, sums, a median from a sort by hand, a divisor
  rounded and carried by hand.

`hazards` in PROJECT.json lists these one by one at the line where they bite.

### What makes each component correct

* Runners: a PASS is the result of the image this run built; the eMMC is never
  written; exit 3 only when nothing else is left to try; recovery bounded; the
  board left powered whatever the verdict; every run ends, a VisionCB run with its
  report written; the exit-code contract.
* SerialLink: what is searched and logged is the wire, without gap (but for the one
  chunk a late reader of the previous link may take) or reordering; the trim keeps
  what is new; every wait ends.
* Firmware: the verdict is in RAM before the state says it is complete; a pass is
  earned by every call of every loop; the reported numbers are those of the calls.
* PowerRelay: no other board is switched; a cycle that returns was one, and leaves
  the supply on; a corrupted serial alone stops nothing.
* CI jobs: a green job publishes its own report, of the ref that was asked for;
  every job ends.
* Schema: what a passing runner writes is accepted, but for sizes it could not read.

## 2. The modules

| Module | Models | Built on |
|---|---|---|
| `RunContract` | what any runner promises: the exit table of README.md and the "Boot recovery" section, with `MaxTries` hardware sequences; holds its own theorem | |
| `VisionBoard` | the VisionCB bench (external): power, A53, SD card, M4, J-Link, console evidence | |
| `VisionHil` | `V`, with relay and hub; refines `RunContract` with two tries | `VisionBoard`, `RunContract` |
| `MCVisionHil` | constants for TLC | `VisionHil` |
| `VisionClaims` | what docs and comments say that the code does not do | `MCVisionHil` |
| `SerialLink` | `SL`, thread by thread | |
| `NucleoFirmware` | `startup.c`, `main.c`, `uart.h`, and (external) st-flash and the ST-LINK | |
| `NucleoHil` | `N`; refines `RunContract` with one try | `NucleoFirmware`, `RunContract` |
| `PowerRelay` | `power_relay.py`: one call of `power_cycle` against the relay boards on the bus | |
| `CiJobs` | `visioncb-hil.yml`, `nucleo-hil.yml`: the steps of both jobs around the script | |
| `HilHost` | the host: jobs whose VisionCB script power-cycles through the relay | `CiJobs`, `PowerRelay` |
| `NucleoBench` | `main.c`, `startup.c`, `dwt.h`, `uart.h`: how the verdict and the numbers come about; implements `NucleoFirmware` | `NucleoFirmware` |
| `NucleoReport` | `N`'s result document and `result_schema.py`'s validator | `NucleoBench` |
| `VisionHil_proofs`, `VisionBench_proofs`, `VisionRecovery_proofs`, `SerialLink_proofs`, `NucleoHil_proofs`, `NucleoReport_proofs`, `HilHost_proofs` | theorems | the modules they name; each of the three about `VisionHil` extends the one before it |

How they correspond to the code:

* **`VisionHil`**: `pc` names the statement about to run; its values are grouped
  as the code's functions are (`AcquirePcs` for `acquire_console_via_power_cycle`,
  `ResumePcs` for `uboot_resume_linux`, and so on). One action is one call that
  types at the console, looks at the buffer or switches power. `Raise(e)` is the
  whole of `main()`'s exception handling: the first `RecoveryRequired` out of
  `run_hardware_sequence` goes to the retry, anything else to `finally`.
  `seqNo`, `attempt` and `probeTry` are the code's loop counters, `out` is
  `result_doc` and the exit code. After `exited` the next run starts on the
  bench left behind.
* **`VisionBoard`**: none of it is code of this repository. A typed line waits in
  `input` until the board gets to it, which may be after the runner has given up
  and typed something else. Console text is reduced to the tokens the runner
  searches for (`Evidence`), the image checksums, the bootaux banner and the
  JSON result. The tty's echo of a typed line is one of the tokens, as
  `V:534-538` and `V:564` make it matter. A typed line that makes, writes or compiles
  a file (`ShellWrite`) marks the system it runs on; the look for the reader's marker
  is one of them, since it makes the marker's directory first (`V:512`).
* **`NucleoHil`, `NucleoFirmware`**: the same style. The result structure is
  reduced to the image that wrote it (which no field of the real one shows: it is
  there so that properties can speak of it), `state` and `result_code`; the frame
  to its begin marker, hex blob and end marker, each of which may arrive damaged.
  `cleared` is a history variable: has the flashed image zeroed `g_result` yet.
  `PollFails` is a single SWD read that fails on a debug side that works (`N:348-357`).
* **`SerialLink`**: a byte is its number on the wire. The lock's two critical
  sections (extend and trim; copy or clear) are one step each and everything
  between them is a step. `close()` goes on from its join wherever the reader is
  (`SL:85`). All links use one descriptor number, as the kernel reuses the number
  `close()` has freed, so a reader that was late at `os.read` may read the next link's
  bytes, or fail there as it would on another number. A `console.log` that cannot be
  written ends the reader (`LogFails`): `SL:77-79` is outside the try.
* **`RunContract`**: stages of a run, the number of tries, the verdict.
* **`PowerRelay`**: `call` is the `usbrelay` call about to be made, `id` the local
  `relay_id`. `Resolve` is `_resolve_relay_id`; `Command` and `Check` are the two
  halves of `_set_state`. The tool may fail before or after it has switched, time
  out, or exit 0 without switching. Between any two calls relay boards attach,
  detach (and lose what they switched) and VisionCB's own may come back with
  another serial, never with one that another board on the host has.
  `VisionHil` sees of all this only that power goes off and on or an error comes.
* **`CiJobs`**: one record per workflow's job; its `step` values are the steps of
  the YAML files, its other fields what the steps hand on (`resolved`, `exit`,
  `rundir`), what a report says (`recorded`) and, as history, `meant`: the commit
  the ref designated on GitHub when it was fetched. `dirs` is what `ls -td | head
  -1` would find. `GITHUB_OUTPUT` of a step that did not run is empty (`NoExit`,
  `"none"`). The two files differ in their script and its options only.
* **`HilHost`**: conjunction of the two; a VisionCB script in its hardware sequence
  calls `power_cycle` up to `MaxCycles` times and ends as `main()` does, a relay's
  error included. Cancelling kills it, and the power cycle with it.
* **`NucleoBench`**: `g` is `g_result` without the aggregates, which are `stats`.
  `buf` says whether the encode buffer holds a correct encoding: the decode loop
  depends on what the last encode left there. One action is one iteration. The
  codec's outcome and duration are free; the counter is read at any value and
  wraps modulo `Word`. `stack` is the set of words that do not hold the paint pattern:
  `Boot` paints all but the guard, whatever was there; the loops overwrite any subset
  of the words at some depth (a reserved word may stay unwritten, a written one may
  get the pattern's value), and `Watermark` is the scan of `main.c:134-141`. The baud
  divisor wraps modulo `UartWord` where `uart.h:71` does. `raw`, `took`, `total`,
  `slips` and `deepest` are history: what really happened, to compare the report
  with; `slips` tells an encode that was flagged from one whose bytes alone were wrong.
* **`NucleoReport`**: one action per block that `main()` adds to `result_doc`, and one
  for link, flash and reset; the console, the flash and the transports are
  `NucleoHil`'s business and here succeed, fail or give up. A flash or reset that
  fails leaves the target block in the report.

Not one-to-one: logging, argument parsing, text and JSON formatting are left
out; the VisionCB M4's numbers are not modelled (its firmware is not in this
repository); a subprocess call is one step that
succeeds, fails or times out (a timeout is no `RunnerError`, so it takes the
`except Exception` path).

### Time

There is no clock. A bounded wait may give up whenever what it waits for is not
there. `Timely = TRUE` (VisionCB) or `timely` (NUCLEO, chosen per run) restricts
this: a wait gives up only on a board that has nothing left to print, which is
what the timeouts are sized for. Properties that promise something about healthy
hardware are stated for timely runs; the safety of the storage and of a VisionCB
PASS is checked with waits that may give up too early.
A timely NUCLEO run also opens its port on a core that has finished its report:
the build takes longer than the benchmark.

## 3. The runs

| Run | Module, cfg | Checks |
|---|---|---|
| `hil_recovery` | `MCVisionHil`, hil_recovery.cfg | types; verified image stays; bounded recovery; exit 3 is the last resort; only the relay's two commands can leave the board off; one fault is healed; refinement of `RunContract` |
| `hil_storage` | hil_storage.cfg | a PASS is this build's; no eMMC write |
| `hil_liveness` | hil_liveness.cfg | every run finishes, its report written |
| `link_reader` | `SerialLink`, link_reader.cfg | buffer and log show the wire, whatever a late reader takes; trim keeps the newest; arrived bytes are shown; waits end |
| `nucleo` | `NucleoHil`, nucleo.cfg | types and buffer bound; a PASS is this image's; no half result judged; a healthy board is left alone; the SWD fallback means a stuck bridge; refinement of `RunContract`; every run finishes |
| `host` | `HilHost`, host.cfg | types; no other relay board switched; a power cycle is real; it ends with the supply on; a corrupted serial is survived; a green job is of the requested ref and publishes no stale report; every job ends |
| `bench` | `NucleoReport`, bench.cfg | types; exact aggregates; an earned pass; overhead is the median; watermark covers what was overwritten; baud rate close where its product fits; a PASS follows the schema but for null sizes; means lie between; implements `NucleoFirmware` |
| `hil_claim_*` | `VisionClaims` | five statements of the docs that the code contradicts (section 5) |

Bounds, and why they are enough:

* `hil_recovery`: `MaxFaults = 2`, because the properties distinguish none, one
  and more faults; `AcquireAttempts = ProbeAttempts = 2` (the code: 2 and 2) so
  that "not the last attempt" and "last attempt" both occur; one image, because
  no property there compares images; `InputCap = 4` typed lines that the board
  has not yet read, as many as a timely run types ahead of it (source, compile,
  marker, reboot). Larger budgets are `OneFaultHeals`'s business (section 4).
* `hil_storage`: two images, so that there is another build's image to be
  mistaken for this one; `Timely = FALSE` and `InputCap = 2`, so that a stale
  line meets a statement that did not type it; one fault and one attempt keep it
  finite enough, and the recovery loops are `hil_recovery`'s business. Images are
  symmetric: nothing in these two invariants or in the model orders them.
* `hil_liveness`: no fault budget, but waits may expire at any time and the
  operator may interrupt anywhere, which covers what a fault does to a wait.
* `link_reader`: `Chunk = 2`, `Cap = 2`, `Keep = 1`, three bytes, two links: a
  pattern crosses chunks, the trim happens, a reader outlives its join at any place
  of its loop and takes a chunk from the link that has its descriptor number now. The
  code opens a second link in its one retry only. Deadlock checking is off: with all bytes
  sent and both links closed the system stops.
* `nucleo`: two images and one fault; a run is followed by the next on the bench
  it leaves, so faults accumulate over runs (a bridge stays stuck, a board stays
  off SWD) without being counted again. `MaxParts = 9` is no restriction: it is
  proved that no buffer holds more.

* `host`: both workflows, one relay board besides VisionCB's (so that "one board",
  "two boards" and "only the other one" all occur), three serials (the right one,
  the other board's, a corrupted one), two commits (a push before or after the
  fetch), `MaxCycles = 2` (a first cycle and a repeated one). A next job of either
  board follows on what the last one left: clone, run directories, relay channel.
  The deadline of an `ls -td` against clock jumps is not modelled: directory names
  and times are taken to grow.
* `bench`: a 3-bit cycle counter and calls of 1 or 6 cycles, so that it wraps
  within a call and between calls; two iterations per loop (first and last), which
  distinguish an encode that a later one overwrites from one that stays; four
  overhead samples of two values, every arrangement; a stack of two words with a
  one-word guard, at every depth, with every content before and after the loops.
  `BaudRateIsClose` is evaluated with the real formula on four clocks and six baud
  rates, among them the code's (16 MHz, 115200) and ones whose fraction rounds up to
  16, where the carry is. TLC's integers end at 2^31, so `UartWord` is 2^30: the
  product with 25 wraps above 42.9 MHz instead of the real 171.8, and the clocks lie
  on both sides.

Fairness: `WF_vars(RunnerStep)` in both runners. The runner is one Python thread
all of whose waits have deadlines, so a statement that can be executed is
eventually executed. Nothing is assumed of the VisionCB board or of faults;
`nucleo` also assumes that a core that executes goes on (its firmware enables no
interrupt and blocks on nothing but the UART's own flags). `link_reader`
assumes that each reader thread, the main thread's wait and the clock go on.
`host` assumes `WF_vars(JobStep)`: every `usbrelay` call has a timeout of 10 s, the
script's waits have deadlines, and the job has `timeout-minutes`.
No fairness is assumed of the board, the bus, the operator or of the next run.

Every property is also checked to be sensitive: PROJECT.json's `mutants` name,
for each, a plausible mistake in the code (`FlashUnverified`, `TrimmedOldest`,
`RetriedAlways`, ...) under which TLC finds it violated.

## 4. The proofs

All of these hold for every value of the constants that satisfies the modules'
assumptions (`FirmwareAssumption`, `BoardAssumption`, `HilAssumption`,
`LinkAssumption`, `RelayAssumption`, `CiAssumption`, `HostAssumption`,
`BenchAssumption`, `ReportAssumption`), not only for the instances above.

* **`RunContract`**: `ContractIsSafe`. For every `MaxTries > 0`, a PASS
  was measured by a try of the same run, no run is repeated after its last try,
  and a verdict appears only on the way out. The strengthening says in which
  stages a try has been started.
* **`VisionHil_proofs`**: `RecoveryIsBounded`, `ExitThreeIsLast`, `RunnerKeepsContract`,
  `TypeCorrect`. Every step of
  `Next` is first reduced to one of a few shapes that mention the runner's
  variables only (lemma `Shapes`), because recovery does not depend on what the
  board does. `RecoveryInv` relates the statement about to run to the attempts
  and power cycles so far. It is needed because the bounds alone are not
  inductive: `cycles.board <= 2 * AcquireAttempts` says nothing of how much of it
  the current sequence has used.
  `RunnerKeepsContract`: under the mapping `Stage`, `seqNo`, `Verdict` each step is
  a step of the contract or a stutter.
  `TypeCorrect`: types, action by action.
* **`VisionBench_proofs`**: `EmmcIsNeverWritten`, `PassIsThisBuild`,
  `BoardStaysPowered`, `VerifiedImageHolds`. None of these properties is inductive,
  because the board reads a line long after it was typed. The invariants therefore
  speak of the queue. `EmmcInv`: a line that writes is queued only while the SD
  card's Linux runs (or hangs and reads nothing), and never behind a `reboot`, whose
  answer may be the eMMC's system; from the findmnt check to the reboot the runner
  types, the card is the root. Faults that bring another system up empty the queue.
  `BuildInv`: from the power cut of a try on, every queued line, both memories, the
  M4's result and the screen are this run's image or none, and so is the card once
  its checksum was read. Bench and statements are each reduced to their effect on
  these (`BenchMoves`, `Types`). `PowerInv` says that only the end of a run can come
  between the relay's two commands; the theorem adds that this end is the relay's own
  error or an interrupt, so that no verdict and no `RunnerError` leaves the board off.
  `CardInv` is about `Timely` runs, without which
  the property is false: the transfer is typed at an empty queue, so the
  checksum on the screen is of what the transfer left.
* **`VisionRecovery_proofs`**: `OneFaultHeals`. A run that exits with 3 has met more
  than one fault. The property is about two tries, yet says nothing of what the
  first leaves to the second, so `HealInv` does. It keeps an account of faults:
  the retry is only reached with one (`Charged`), a second port cycle with as many
  as cycles failed (`probeTry <= faults`), and while the account is not overdrawn
  (`Quiet`: none in the first try, one since the retry began) it says statement by
  statement where the board is and which typed lines it has yet to read
  (`Healthy`): at `booti` U-Boot with both files loaded, on the card's shell at
  most the lines typed since the last answer (`Backlog`), after the reboot a
  system that will count down. In no such state can a wait that raises
  `RecoveryRequired` expire. The hypothesis `Generous` is needed: timeouts
  that are long enough (`Timely`), a console that holds the four lines typed ahead
  of the board (`InputCap >= 4`; the tty's buffer is 4096 bytes) and a second port
  cycle (`ProbeAttempts >= 2`; the code has two). TLC finds the property violated
  with `InputCap = 3` and with `ProbeAttempts = 1`, and not with
  `AcquireAttempts = 1`: the second power cycle of a try is not what heals.
* **`SerialLink_proofs`**: `LinkTypes`, `BufferIsTheWire`, `LogIsTheWire`, `TrimIsSafe`. The
  inductive invariant says where the threads are, what they hold, and, for every
  earlier link's reader, what it may have taken from the current one: nothing while
  it is still to read, one chunk of the wire once it has, and then it looks at its
  stop event and ends. `Bounded` adds that every byte
  held or logged is one of those sent, which `TypeOK` says and the pieces alone do not.
* **`NucleoHil_proofs`**: `NucleoTypeCorrect`, `NoHalfResultJudged`,
  `NucleoKeepsContract`. The invariant's `Held` adds up what is in the buffer and
  what the core has yet to send: three parts before the flash, six before the
  reset, nine after, which is the bound `TypeOK` states and could not carry by
  itself. `Finished` follows the order of the firmware's stores: code before state, state before the
  frame is sent.
* **`NucleoHil_proofs`**, second part: `PassIsThisImage`, `FallbackIsForStuckBridges`,
  `HealthyBoardsAreLeftAlone`. What ties a result to an image is
  nowhere in the frame. `Traced` carries it: RAM written by a running core is the
  flashed image's (`RamTraced`), the port is opened and the flash begun on a silent core, so every frame in
  the buffer comes from after the flash, and SWD is read only when the core has
  stopped, so that nothing changes between reading and judging. The exception in
  the property, `~cleared`, is a core that hangs between the reset and the
  handler's loop over `.bss`, with a bridge that is also silent: SWD then reads
  the previous run's complete result. `validate_result` cannot tell.
  The other two are about runs in which nothing goes wrong (`timely`, no fault):
  `Heard` says the buffer ends in what the core has sent of its frame so far, or the
  bridge is stuck and the buffer empty, so a wait that ends without the frame ended
  behind a stuck bridge (`Fallen`), and the core then read over SWD has finished.
* **`NucleoReport_proofs`**: `AggregatesExact`, `PassEarned`, `PassIsAccepted`,
  `BenchIsTheFirmware`, `WatermarkCovers`, `MeansBetween`, `BaudIsClose`,
  `OverheadMedian`, `ReportTypes`. The
  loop invariant says of each loop, by `at` and `i`, that `stats` are the minimum,
  maximum and sum of the calls so far (`Delta` undoes the wrap for every call
  shorter than `Word`, the sum is below `i * Word` and so below `DoubleWord`), and
  of `slips` that a flagged encode, a wrong decode or a wrong round trip has been
  counted in `failures`; wrong bytes still in the buffer meet the decode loop. `BenchAssumption` asks that a call ends before the counter is
  back where it began: at 16 MHz that is 268 seconds. The means lie between the
  extremes because `n` times the minimum is at most the sum at every `n`
  (`ExtremesEncloseSum`), and because a benchmark that ends before its loops leaves
  the zeros of `.bss` (`Emptied`). `BenchIsTheFirmware` is the refinement: every
  store of `main.c` is a step of the firmware `NucleoHil` is proved against, or
  invisible to it; the one thing to know of the past is that the state is not
  `init` beyond run_benchmark's first store (`Begun`).
  `OverheadMedian` is about `sort_u32` for every number of samples. A round leaves
  one more sample in order and gives every sample a place of its own
  (`InsertedAscends`); the rounds are a recursive function, whose table
  exists (`RoundsExist`) and whose last entry is sorted (`SortedAscends`), both by a
  least counterexample, since the library's induction theorems cannot be used; the
  samples below the middle one then inject into the places below it
  (`MiddleIsMedian`). The sort being right, `Sampled` says that the overhead stays
  that of its samples until they are forgotten. `ReportTypes` needs to know that no
  more failures are counted than calls made so far (`Counted`), and uses
  `MiddleIsMedian` and `ScanFindsTop` for the ranges of overhead and watermark.
* **`HilHost_proofs`**: `HostTypes`, `OthersAreUntouched`, `CyclesAreReal`,
  `CorruptionIsSurvived`, `GreenMeansRequested`, `ReportsAreFresh`,
  `CyclesEndPowered`, for any number of workflows, commits, relay boards and
  serials. `RelayInv` is about one call at each of its places: a serial chosen
  while VisionCB's board was there stays that board's or nobody's (`Apart`), past the
  first confirmation the supply has been off (`Darkened`), and an undisturbed call
  meets what it has chosen (`Calmly`). `CiInv` says that only one job is past its
  trigger (`Alone`) and what a job's record is worth at each step (`Sure`): that the
  clone's HEAD is the job's from `switch` to `provenance` follows from `Alone`, as
  the comment at nucleo-hil.yml:25 claims. `CyclesEndPowered` is about the last query:
  the one board with the chosen serial that it finds on is VisionCB's, since a serial
  chosen for it is nobody else's.

Model-checked only: liveness (`RunFinishes` of both runners, `WaitEnds`,
`ArrivedIsShown`, `JobEnds`), which is out of the prover's reach. Every invariant,
action property and refinement that a passing run checks is stated by a theorem;
all hold without hypotheses except `OneFaultIsHealed`, which needs `Generous`, and
`VerifiedImageStays`, which needs `Timely`. The
five runs of section 5 end in counterexamples, which are TLC's as well.

## 5. Where code and documentation disagree

Each has a run that ends in a counterexample.

1. `hil_claim_schema`: `result_schema.py` calls itself the structure "every
   board-specific HIL runner must emit". A failed run writes the class name
   upper-cased (`TESTFAILURE`, not `TEST_FAILURE`; `V:763`, and likewise `N:509`),
   and a run that fails early has none of the required blocks.
2. `hil_claim_silent`: a board that goes silent after the login prompt is said to
   raise `RecoveryRequired` (`V:634`, README.md:41) and be retried. Login,
   findmnt, checksum, compile and collect raise `InfrastructureError`: exit 2, no
   retry.
3. `hil_claim_unmount`: the storage check takes the absence of an `mmcblk2` line
   as proof that nothing is mounted. The first look finds a partition, umount leaves
   it because it is busy, the line that looks again is lost: the empty answer counts
   as proof, and the run goes on with the eMMC mounted. The claim is restricted to a
   console that carries every answer at that moment, so that a probe gone silent,
   after which a run can only fail, is no counterexample.
4. `hil_claim_reader`: the wait for `READER_COMPILE_OK` is satisfied by the echo
   of the command that would print it, so the checksum marker is written whether
   or not the compiler succeeded, and later runs reuse a reader that is not there.
5. `hil_claim_login`: the OS marker is searched in everything since `booti`. If
   the SD image aborts between its welcome line and its login prompt, autoboot
   brings up the eMMC image, and root is typed at its prompt.

Observations without a run. `.github/workflows/visioncb-hil.yml:60` says the
runner never retries a hung board, while `main()` retries once. A NUCLEO frame is
accepted on its length alone (`N:309`): hex digits damaged in place are parsed.
`boards/nucleo-f446re/firmware/build.sh:5` takes Quarry's headers from
`/home/igor/work/quarry` and the codec from the checked-in `quarry_generated`,
whatever `--quarry-dir` is, so the commit that a NUCLEO report records
(`GreenIsTheRequestedRef`) is the one asked for and need not be the one measured;
visioncb-hil.yml:20 says the developer's checkout is never used. A NUCLEO PASS whose
sizes `arm-none-eabi-size` did not deliver has `null` in fields the schema wants
integers in; `PassFollowsSchema` asks everything else of the schema of such a report
and excepts the sizes. `main.c:137` reports less stack than was in use when the lowest
words of a frame are reserved and not written: `WatermarkCoversStack` is about words
overwritten, up to the scan. `SL:11` says that a live buffer behind a lock "has no such
gap" as a log file that is read too early: a late reader of the previous link can make
one of a chunk, and a `console.log` that cannot be written stops the buffer for good;
`LogShowsTheWire` and `ArrivedIsShown` name these exceptions. When the one relay board on
the bus is not VisionCB's, `power_cycle` switches it (the module's docstring says
so): the relay properties are stated for calls that found VisionCB's.

## 6. Not modelled

* Result schema: fields whose value no run of the runners can get wrong (constant
  strings, a computed hash). `parse_result_json`, which nothing calls at run time.
* `relay_on` and `relay_off`: nothing in the repository calls them.
* The VisionCB M4 firmware and its numbers: its source is not in this repository.
* The generated telemetry codec, which is Quarry's output; NUCLEO's heartbeat.
* `ci.yml` (pytest on GitHub's machines), the runner smoke test, and GitHub's queue:
  with one job running, a dispatched job that waits is replaced by the next nightly.
* `build.sh`, `link.ld`, udev rules: no state.
* Partial `os.write`, termios settings, text decoding.

## 7. Plan

In order of importance; what is done is marked.

1. [done] `VisionBoard`, `VisionHil`, `RunContract`: recovery, storage, PASS, liveness.
2. [done] `SerialLink`: the reader thread.
3. [done] `NucleoFirmware`, `NucleoHil`: flash, frame, SWD fallback.
4. [done] Proofs: contract, both refinements, recovery bounds, link, NUCLEO's
   types, results and images.
5. [done] `PowerRelay`, `CiJobs`, `HilHost`: relay choice, both workflows, their proofs.
6. [done] `NucleoBench`, `NucleoReport`: arithmetic, report against schema, their proofs.
7. [done] Proofs about the bench: `NoEmmcWrite`, `PassMeansThisBuildRan`,
   `BoardLeftPowered`, `VerifiedImageStays`; NUCLEO's fallback.
8. [done] Proofs: `OneFaultIsHealed`, `OverheadIsMedian`, the types of the report.
9. [done] Late readers and log failures of `SerialLink`, the marker's mkdir, the stack's
   contents, the divisor's width, the supply at the end of a power cycle.
10. Left: larger instances of `host`; null sizes against the schema as a run.
