# TLA+ models of riscv-rtthread

This directory holds TLA+ models of the C code in `src/`, the TLC
configurations that model-check them, and TLAPS proofs about the TCP
server (including the proof that it implements an abstract specification),
the TCP clients and the SPI driver. `PROJECT.json` lists:

- the components, and the runs with what each checks;
- the mutants that show each property can fail;
- the map from every modelled definition to the source lines it translates;
- the findings, the hazards and the theorems.

Every command below is run in this directory:

    tlc -workers 2 -config TcpServer.cfg MC_TcpServer
    tlapm TcpServerProofs.tla

## The system and its parts

The repository is an RT-Thread board support package for the Sophgo
(Milk-V Duo) RISC-V core. Its C code has two kinds of part.

**Network samples** (`examples/network/main/sample`). These are msh shell
commands built on the lwIP socket API:

- `tcpserver`: accept, then an echo and print loop;
- `tcpclient` and `tcpclient_select`: connect, then a receive and reply loop;
- `udpclient`: send COUNT datagrams;
- `udpserver`: print datagrams until one is "exit".

They interact only through the network. In the models:

- the peer or peers and the network are the environment;
- a TCP stream may coalesce several sends into one `recv()`;
- UDP may lose and reorder datagrams.

**Kernel sample** (`examples/kernel/main/sample/completion_sample.c`). The
msh thread creates two threads. One waits on an `rt_completion`; the other
signals it. The scheduler and the completion belong to RT-Thread, which is
not in this repository. They are modelled as the environment from their
documented semantics.

**Drivers** (`rt-thread/chip/sophgo/drivers`):

- `drv_uart.c`, a DW8250 UART driver. Its `configure`, `control`, `putc`
  and `getc` are called from threads. Its `rt_hw_uart_isr` runs in
  interrupt context. All of them share the UART's registers, with no lock.
- `drv_spi.c`, the DesignWare SPI master driver. RT-Thread's SPI core
  (not in this repository) calls its `configure` and `xfer`:
  - `rt_spi_configure` stores the device's configuration and calls
    `configure` only if the device owns the bus;
  - `rt_spi_transfer_message` first reconfigures the bus with the stored
    configuration if another device, or none, owns it, and takes the bus
    only if that succeeds.
- `drv_adc.c` and `drv_pwm.c`: register-level drivers called one request
  at a time.
- The `*_pinmux_config` functions.

The remaining files are `blink.c` (a GPIO toggle loop) and the MicroPython
`main.c`.

## Modules and how they correspond to the code

| module | models | state | actions |
|---|---|---|---|
| `TcpServer` | `tcpserver()` of `tcpserver_sample.c` | server pc, buffer, listening socket, per-client connection state, current connection, last chunk received; environment: per-client peer state, stream, backlog | `Malloc`, `Socket`, `Bind`, `Listen`, `Accept`, `Send`, `Recv`, `ServerExit`; clients `ClientConnect`, `ClientSend`, `ClientClose`, `ClientReset` |
| `TcpClient` | `tcpclient()` and `tcpclient_select()`; the initial state picks one from the constant set `Variants` | pc, host entry, buffer, socket, select readset bit, last chunk, server state and stream | `Args`, `Resolve`, `Malloc`, `Socket`, `Connect`, `Select`, `Recv`, `Send`; server `ServerSend`, `ServerClose`, `ServerReset` |
| `Udp` | `udpclient()` and `udpserver()` composed | server pc, buffer, socket, last datagram, index of the terminator written; client pc, host, socket, `count` as an int of `IntWidth` bits, datagrams sent; the network queue | `SMalloc`, `SSocket`, `SBind`, `SRecvfrom`, `CArgs`, `CResolve`, `CSocket`, `CSendto`, `CClose`, `OtherSendExit`, `Lose` |
| `Completion` | `completion_sample()` and the two thread entries, under the priority scheduler | per-thread kernel state and pc, the completion flag and its list of suspended threads, times the command was typed | `UserTypes`, `InitCompletion`, `InitThread1/2`, `StartThread1/2`, `ShellDone`, `T1Wait`, `T1Woken`, `T1Leave`, `T2Done`, `T2Leave` |
| `Spi` | `spi_configure`, `dw_spi_transfer_one`, `spi_xfer` and `rt_hw_spi_init` of `drv_spi.c`; environment: the SPI core's `rt_spi_configure` and `rt_spi_transfer_message` | controller enable, SER, chip-select line, clock, frame bytes, SPI format, transfer mode, tx/rx pointers, the configuration the last transfer ran with; environment: the device's stored configuration, bus ownership, the message in progress, the last operation | `CoreConfigure` and `CoreTransfer` (which call `SpiConfigure`), `SpiXfer` (which calls `TransferOne`) |
| `Dw8250Uart` | `dw8250_uart_configure` (with `setbrg` and the LCR retry loop of `dw8250_write32`), `control`, `putc`, `getc` as drained by the ISR, and `rt_hw_uart_isr` | UART registers (DLAB, DLL, DLM, IER, RX FIFO and shift register, RX timeout, TX, busy-detect), the line, the PLIC enable, delivered characters; the pc and locals of the configure, control and putc threads; the history variable `lcrLost` (some LCR write of configure gave up) | one action per register access of each thread (`CfgCall` … `CfgIerRestore`, `CtlCall`/`CtlIer`/`CtlMask`, `PutcCall`/`PutcWait`/`PutcWrite`), `Isr`, and the UART hardware `HwRxStart`, `HwRxEnd`, `HwRxTimeout`, `HwTx` |

Each `MC_*` module instantiates its model for TLC. `MC_Dw8250Uart` sets
the baud rates configure is asked for.

### Modelling choices

- **Data abstraction.** Data is abstracted to what the properties tell
  apart:
  - A TCP message is a token. The server compares the whole chunk with
    `strcmp`: the chunk `<<"q">>` stands for exactly "q" or "Q", and
    `<<"exit">>` for exactly "exit", so a chunk with more tokens matches
    neither. The clients compare only the first byte (`strncmp(recv_data,
    "q", 1)`), so for them a chunk whose first token is `"q"` is a quit.
  - A `recv()` of `BUFFER_SIZE - 1` bytes is a chunk of at most
    `MaxCoalesce` tokens (`RecvCap`).
  - The UDP datagram lengths are kept as numbers, since the terminator
    index depends on them.
- **Integer width.** In `Udp`, `count` keeps its width: `Dec` wraps
  `INT_MIN` to `INT_MAX`.
- **UART concurrency.** One step of the UART model is one register access,
  and the ISR may run between any two of them. That is where the driver's
  concurrency lies: an interrupt can arrive at any instruction, and
  `configure`, `control` and `putc` are called from different threads
  without a lock.
- **The UART hardware** is modelled from the DW8250 databook semantics
  that the code relies on:
  - DLAB redirects offsets 0 and 1 to DLL and DLM.
  - An LCR write while a character is in the shift register is ignored
    and raises the busy-detect interrupt.
  - The IIR reads RDI, RX timeout, busy or none.
  - Reading RX pops the FIFO.

  `getc` reading offset 0 while DLAB is set reads DLL and pops nothing. The
  serial framework's `rt_hw_serial_isr` loops on `getc` until it returns
  -1, so that case is modelled as the ISR hanging (`isrHung`).
- **SPI.** Register accesses are grouped per call. The SPI core holds the
  bus lock around every call into the driver, so no two driver calls
  overlap. A configuration is a record of the slave bit, `max_hz`, the
  data width and the mode. A message has a send buffer, a receive buffer,
  both or neither. `poll_transfer` is abstracted to its outcome: success
  or an error, which `spi_xfer` ignores. `dw_spi_set_data_frame_len`
  (from the DesignWare library, not in this repository) accepts widths in
  `FrameLens` (4..16 in the run) and sets `n_bytes` to 1 or 2.

## Runs

There are seven passing runs and five violation runs. The violation runs
are kept for the findings that need an interleaving or a sequence of calls
to show. The one-step defects are recorded as hazards in `PROJECT.json`,
and the models reach each of them:

- the socket leak on tcpserver's bind/listen error paths;
- the unchecked NULL from `gethostbyname()`;
- `recv_data[-1]` after a failed `recvfrom()`;
- a negative COUNT in udpclient;

Each passing run fires every action of its module's next-state relation.
The `uart_configure` and `uart_runtime` runs fire them between them.

| run | cfg | checks | shows |
|---|---|---|---|
| tcpserver | `TcpServer.cfg` | TypeOK, ConnectionHygiene, BufferReleasedOnReturn, EveryClientServed | every exit path of the inner loop closes the accepted socket; the buffer is freed on each return; every client that connects is served (fair server, clients that eventually close) |
| tcpserver_exit_coalesced | `TcpServer_ExitHonoured.cfg` | ExitHonoured | **violated**: an "exit" delivered with other data is missed |
| tcpclient | `TcpClient.cfg` | TypeOK, ResourceLifecycle, ClientTerminates | in both samples, the socket and buffer are released exactly once on every path, `select()` failures included; the client returns when the server closes |
| udp | `Udp.cfg` | TypeOK, ServerBufferLifecycle, SendsRequestedCount, ClientTerminates | for COUNT 0, 2 and the default (3 in the run, 10 in the code), exactly COUNT datagrams are sent; the server's buffer lifecycle holds; the client returns |
| completion | `Completion.cfg` | TypeOK, WaitEndsAfterDone, BothThreadsLeave | the wait ends only after done; both threads leave, whether the shell's priority lets thread2 signal before or after thread1 waits |
| completion_rerun | `Completion_NoReinitOfLiveThread.cfg` | NoReinitOfLiveThread | **violated**: typing the command again re-initialises a live thread |
| uart_configure | `Dw8250Uart.cfg` | DivisorProgrammed, NoIsrHang, IerOnlyRx, IrqQuiesces | two configure calls alone with the ISR and incoming characters, with `Settles = FALSE` so that the LCR retry loop can give up: the ISR never hangs and the interrupt quiesces even then; while no LCR write has given up (`~lcrLost`), configure programs the divisor and restores IER, and IER only ever enables RX |
| uart_runtime | `Dw8250Uart_Runtime.cfg` | TypeOK, IrqQuiesces | SET_INT/CLR_INT and putc with the live ISR: registers and counters stay in range, and the line quiesces (the RX-timeout dummy read) |
| uart_putc_during_configure | `Dw8250Uart_DivisorProgrammed.cfg` | DivisorProgrammed | **violated**: putc during setbrg writes DLL |
| uart_setint_during_configure | `Dw8250Uart_NoIsrHang.cfg` | NoIsrHang | **violated**: SET_INT during configure, then a character while DLAB is set, hangs the ISR |
| spi | `Spi.cfg` | TypeOK, ConfigApplied, TranModeMatchesMessage | after any sequence of configure and transfer calls, a configuration the driver accepted is the one the controller holds (clock, frame bytes, CPOL/CPHA, enabled); every transfer runs in the tx, rx or tx-rx mode of its own message, never a stale pointer's |
| spi_mixed_config | `Spi_TransferConfigConsistent.cfg` | TransferConfigConsistent | **violated**: a configure refused for its data width has already set its clock, and the next transfer runs at that clock with the previous frame length and format |

Every property of a passing run has a mutant in `PROJECT.json`: a plausible
bug in the mapped code, under which TLC finds that property violated.

### Bounds, and why they are enough

- **TcpServer.**
  - Two clients, so one waits in the backlog while the other is served.
  - MaxSends = 3 tokens each, so one `recv()` can return a full chunk
    and leave more behind.
  - MaxCoalesce = 2, so chunks coalesce.
  - One failing accept.
  - About 374,000 states.
- **TcpClient.** The same token bounds and one failing `select()`. Both
  variants are in one run; `variant` never changes after the initial state.
- **Spi.** Two clock rates and two widths, one of them (32) outside
  `FrameLens`, so a configure can fail after setting the clock. Two modes
  with different CPOL/CPHA bits, and four core calls, the fewest that
  reach a failed reconfiguration followed by a transfer. The SPI model has
  no fairness: every call comes from a user thread that may stop calling.
- **Udp.**
  - IntWidth = 4 keeps the wrap-around of a negative count within reach;
    the wrap is the same for any width.
  - The buffer (32 bytes) is smaller than the client's datagram (35
    bytes), so `recvfrom()` truncates it and the terminator goes to the
    last byte of the buffer, while the 4-byte "exit" fits; both branches
    of `TermIdx` are taken.
  - One failing `recvfrom()`.
- **Completion.** Up to three invocations of the command, so a second run
  overlaps the first. The shell and thread2 have equal priority (20, RT-Thread's default msh
  priority; EXAMPLE_THREAD_PRIORITY is not fixed in this repository), so
  they time-share.
- **Dw8250Uart.**
  - The baud rates are chosen so that the divisor differs from the opening
    one, which makes a stale DLL observable.
  - An RX FIFO of 2 and up to 3 incoming characters, so the FIFO fills and
    overruns.
  - One spurious RX timeout.
  - MaxTries = 2 stands for the 1000 LCR retries. `Settles` says whether a
    character always leaves the shift register within them. At 25 MHz the
    loop of 1000 reads lasts much less than one character time at low baud
    rates, so the loop can give up, and `uart_configure` runs with
    `Settles = FALSE` and two configure calls. When it gives up,
    `dw8250_write32` returns without telling its caller; the history
    variable `lcrLost` records that it happened, and `DivisorProgrammed`
    and `IerOnlyRx` are stated for executions where it did not. The
    violation runs keep `Settles = TRUE`, so that what they show is the
    interleaving alone.

### Fairness

- **Sample threads** are weakly fair. RT-Thread dispatches a ready thread
  of the most urgent priority, and time-slices equal priorities.
- **Peers** are assumed to eventually close (TCP) or not at all (UDP).
  The liveness properties are conditioned on that.
- **The UART**:
  - The ISR is weakly fair: a pending, enabled interrupt is taken.
  - Receive completion and transmit are weakly fair: the UART shifts bits
    at the baud rate.
  - Incoming characters and spurious timeouts are not fair. They are bounded.

## What is proved

`TcpServerProofs.tla` proves three theorems for every set of clients,
every backlog size and every bound (`tlapm TcpServerProofs.tla`):

- `TypeCorrect`: `Spec => []TypeOK`;
- `ConnectionsClosed`: `Spec => []ConnectionHygiene`. At most one
  connection is open, and it is the current one, while the server is in its
  inner loop.
- `BufferFreedOnReturn`: `Spec => []BufferReleasedOnReturn`. The
  strengthening `BufHeld` says that recv_data is not yet allocated at
  `malloc`, is held at every pc after it short of `done`, and is not held at
  `done`. It was checked with TLC on the tcpserver instance. Each server
  step changes `buf` and `pc` together, and the clients touch neither.

### Why a strengthening is needed

ConnectionHygiene is not inductive on its own. `Send` and `Recv` close
`connSt[conn]`, and the invariant says nothing about `conn` being a client
while the server is in the inner loop. The inductive invariant is:

    IInv == TypeOK /\ ConnectionHygiene /\ ConnInLoop

where `ConnInLoop` says that in states `send` and `recv`, `conn` is a
client.

### How the proof goes

- `InitIInv` shows the initial states satisfy IInv.
- `NextIInv` has one case per action:
  - `Accept` is split into taking the head of the backlog and failing.
  - `Recv` is split into reset, orderly close, and a chunk.
  - The chunk case rests on the lemma `ChunkTyped`, built from the
    `SequenceTheorems` facts about `SubSeq`.
- The theorems then follow by PTL.

The assumption used is `ConstAssumption`: `MaxSends`, `MaxCoalesce` and
`MaxAcceptFail` are naturals, MaxCoalesce is positive, and the payload
tokens differ from "q" and "exit".

### The TCP clients

`TcpClientProofs.tla` proves, for every payload and bound and both
samples (`tlapm TcpClientProofs.tla`):

- `ClientTypeCorrect`: `Spec => []TypeOK`;
- `ResourcesReleased`: `Spec => []ResourceLifecycle`.

`CInv == TypeOK /\ ResourceLifecycle` is inductive. TypeOK is needed
because the next place of the loop depends on the variant (`LoopHead`)
and on the chunk a `recv()` returns. The chunk case uses
`ClientChunkTyped`, which gives a non-empty chunk of at most `RecvCap`
tokens. `Select` is split into its two branches: readable, and a failed
`select()`.

### The SPI driver

`SpiProofs.tla` proves two theorems for every set of rates, widths,
accepted frame lengths, modes and message lengths
(`tlapm SpiProofs.tla`):

- `ConfigurationApplied`: `Spec => []ConfigApplied`;
- `TransferModeCorrect`: `Spec => []TranModeMatchesMessage`;
- `SpiTypeCorrect`: `Spec => []TypeOK`.

All three follow from the lemma `AlwaysSInv`, `Spec => []SInv`.
`SInv == TypeOK /\ ConfigApplied /\ TranModeMatchesMessage` is inductive.
A step either leaves both the controller and the record of the last call
alone, or sets both from the same configuration or message. The proof
rests on three lemmas:

- `ModeBits`: the `switch` of `spi_configure` gives every mode its CPOL
  (bit 1) and CPHA (bit 0);
- `ConfigureOkApplied`: the full path of `spi_configure` leaves the
  controller holding its configuration;
- `ConfigureTyped`: every path keeps the types, and returns RT_EOK only
  on the full path.

`ConfigureTyped` also covers the zeroed configuration that a device holds
before `rt_spi_configure`. Its data width is 0, which no frame length is,
so a transfer that takes the bus with it always fails. The assumption used
is `SpiConstAssumption`: rates and frame lengths are positive, modes are
in 0..3.

`TransferConfigConsistent` is not an invariant (run `spi_mixed_config`),
so it is not proved.

### The UDP samples

`UdpProofs.tla` proves two theorems for every buffer size, datagram
length, int width and error bound (`tlapm UdpProofs.tla`):

- `ServerBufferReleased`: `Spec => []ServerBufferLifecycle`. The
  invariant is inductive as it stands, because every step of `udpserver()`
  changes `sbuf` and `spc` together.
- `SendsCount`: `Spec => []SendsRequestedCount`, under the hypothesis
  `NonNegCounts` that every count `strtoul(argv[3])` can give is
  non-negative. The strengthening `CountInv` says three things. Before the
  loop, nothing is sent, the socket is not open and `count` is the count
  asked for. In the loop, `count = asked - nsent` and `count >= 0`. So
  `count--` never wraps, and the loop ends with `nsent = asked`. A
  negative count breaks the hypothesis: `count--` wraps through INT_MIN,
  and the claim fails (see the hazard at `udpclient.c`).
- `UdpTypeCorrect`: `Spec => []TypeOK`. TypeOK is inductive as it stands.
  The lemma `TermIdxTyped` keeps the terminator index that `recvfrom()`
  writes within `-1..BufSize-1`. `DecTyped` keeps `count--` within the
  signed range of `IntWidth` bits. `SendBound` is written
  `2 * 2^(IntWidth - 1)`, which is the same value as `2^IntWidth`,
  because the provers only learn that a power is a natural number from
  `UdpConstAssumption`, which bounds counts by `2^(IntWidth - 1)`.

### The DW8250 UART

`UartProofs.tla` proves four theorems for every baud table, retry bound
and bound on calls (`tlapm UartProofs.tla`):

- `UartTypeCorrect`: `Spec => []TypeOK`. TypeOK is proved together with
  `RxAccounted`, which says that the framework never holds more characters
  than have arrived: `TInv == TypeOK /\ RxAccounted`. The proof is split
  by groups of variables (flags, registers, queues, counters and pcs),
  with one lemma per group and a `Frame` lemma for the actions that leave
  a group alone.
- `IerOnlyRxHolds`: `Spec => []IerOnlyRx`, with no hypothesis. IerOnlyRx
  says that IER holds 0 or RDI unless an LCR write has given up
  (`lcrLost`): a stray IER bit needs a lost LCR write.
- `IsrAlwaysReturns`: `Spec => []NoIsrHang`, under `MaxCtl = 0`, whether
  or not an LCR write gives up.
- `BaudRateProgrammed`: `Spec => []DivisorProgrammed`, under `MaxCtl = 0`
  and `MaxPutc = 0`. DivisorProgrammed speaks of returns of configure()
  where no LCR write gave up.

None of them assumes that the retry loop outlasts a character (`Settles`):
the proofs hold for either value of it.

The strengthenings are nested. Each one was checked with TLC before it
was proved, as an invariant of an instance with two configure() calls,
three retries and `Settles = FALSE`, so that the retry loop gives up:
`IerInv` with one control() and one putc() call beside them, `HangInv`
with one putc() call, `DivInv` with neither.

- `LcrShape`: inside the LCR write-retry loop, the value being written
  is the one its return point expects (set for the BKSE write, clear for
  the other two).
- `DlabInv` adds, while `~lcrLost`, that DLAB is clear at the pcs that
  touch IER or the FIFO and set at the pcs that write DLL and DLM. When
  the loop returns, either LCR holds the value or `lcrLost` becomes true
  (`LcrReturnKeepsDlab`).
- `IerInv == DlabInv /\ IerOnlyRx /\ (~lcrLost => saved \in {0, 1})`.
  The saved IER that configure() restores is itself 0 or RDI.
- `HangInv` does not depend on `lcrLost`. It says that the RX bit of IER
  is clear whenever DLAB is set, and from the FIFO write to the BKSE
  write, the only LCR write that can set DLAB (`RdiClearForBkse`); and
  that no control() call is pending. An interrupt then never finds DLAB
  set with RDI enabled, so the ISR's getc() loop ends (`IsrReturns`).
- `DivInv` adds, while `~lcrLost`, that once DLL or DLM has been written
  it holds the byte of the requested rate (`DivBytes`).

The hypotheses are the ones the code needs, as the violation runs show:
- `MaxCtl = 0`: a control() beside configure() sets IER while DLAB is set
  (run `uart_setint_during_configure`).
- `MaxPutc = 0`: a putc() beside configure() writes THR, which is DLL
  while DLAB is set (run `uart_putc_during_configure`).

### The completion sample

`CompletionProofs.tla` proves two theorems for every priority of the
shell and the threads, and any bound on invocations
(`tlapm CompletionProofs.tla`):

- `WaitReturnsAfterDone`: `Spec => []WaitEndsAfterDone`, with no
  hypothesis on the priorities.
- `CompletionTypeCorrect`: `Spec => []TypeOK`, under the hypothesis
  `ShellPrio # ThreadPrio - 1`. Without it the theorem is false (see
  below).

`WaitEndsAfterDone` is not inductive. The danger is `rt_thread_init(&thread2)`
setting thread2's pc back to `done` while thread1 has been released and
not yet left. The strengthening `CInv` has five parts:
- `TypeBase` is TypeOK without the bound on the suspended list.
- `ThreadStates` ties each kernel state to the pcs. For example, a thread
  is `init` exactly between the shell's `rt_thread_init` and
  `rt_thread_startup` of it.
- `WaitList` says that the suspended list holds thread1 only while it is
  suspended in the wait, unless the shell has thread1's priority.
- `Signalled` says that a set flag and a released thread1 both mean that
  thread2 has signalled.
- `DuringCall` is the scheduling argument. The shell stays ready for the
  whole of `completion_sample()`. A thread2 left from an earlier call can
  signal then only if `ThreadPrio <= ShellPrio`. Thread1 is one step more
  urgent, so once it is released it runs before the shell and leaves
  before the shell reaches `rt_thread_init(&thread2)`.

TLC checked that `CInv` is inductive before it was proved. It started
from every state that satisfies `CInv` (with the list bounded by two) and
checked each step, for `ShellPrio` in 0..4 and `ThreadPrio` in {1, 3}.
Those values cover every ordering of the shell's priority against
thread1's and thread2's. The proof has one case per action. `T1Wait` and
`T2Done` are split by the state of the flag and the list.

## What is only model-checked

- **Liveness** (`EveryClientServed`, `ClientTerminates`,
  `BothThreadsLeave`, `IrqQuiesces`) rests on fairness and ENABLED, which
  TLAPS cannot reason about. It stays with TLC.
- **The UART invariants without their hypotheses.** With control() or
  putc() running beside configure(), they fail, and the violation runs show
  how. Without the `~lcrLost` proviso, `DivisorProgrammed` and
  `IerOnlyRx` fail in the `uart_configure` instance when the LCR retry
  loop gives up (the hazard at `drv_uart.c:87`); no run keeps that form.
- **`TypeOK` of `Completion` at `ShellPrio = ThreadPrio - 1`.** It is
  false there, and TLC shows it. The shell and thread1 then time-share,
  and a second `completion_sample` can re-initialise thread1 while it is
  still suspended on the completion. It waits again, and the list holds it
  twice. This is the same re-initialisation as run `completion_rerun`.
  TLC checked `TypeOK` for every `ShellPrio` in 0..4 and `ThreadPrio` in
  1..4 with three invocations: it fails exactly on that diagonal.

## Not modelled

- **`drv_adc.c`**: `_adc_enabled` and `_adc_convert`. Each call is
  sequential: enable, start, a bounded busy wait, one register read. No
  state is kept between calls and nothing else in the driver runs beside
  it. Its two defects are single-step and listed as hazards:
  - the channel check at line 71 lets channel 0 and negatives through to
    `SARADC_RESULT(channel - 1)`;
  - the poll bound can report a late conversion as a timeout.
- **`drv_pwm.c`**: `_pwm_control` writes or reads two registers per call.
  What remains is unit arithmetic, from nanoseconds to clock counts, with
  no pulse <= period check. The device table tests `BSP_USING_PWM8` twice;
  that is static configuration, listed as a hazard.
- **The SPI core's** locking and device list are RT-Thread's, outside this
  repository. Only the two calls that reach the driver are modelled.
- **UART** (partly modelled): `rt_hw_uart_init` and the pinmux are not
  modelled; they are one-time configuration at boot.
- **Pinmux functions, `blink.c` and the MicroPython `main.c`**: these are
  straight-line configuration or code outside this repository, with no
  behaviour for a model checker to explore.
