-------------------------------- MODULE Spi --------------------------------
(***************************************************************************)
(* The DesignWare SPI bus driver rt-thread/chip/sophgo/drivers/drv_spi.c: *)
(* spi_configure() and spi_xfer() (with dw_spi_transfer_one()), the two    *)
(* operations it registers with RT-Thread's SPI core.                      *)
(*                                                                         *)
(* The SPI core is the environment.  It calls both under the bus lock, and *)
(* the driver polls (no interrupt), so each driver call is one step.       *)
(* rt_spi_configure() stores the configuration in the device and applies   *)
(* it at once only when the device owns the bus; a transfer by a device   *)
(* that does not own the bus first applies the stored configuration and   *)
(* takes the bus only if that succeeds.                                    *)
(*                                                                         *)
(* The controller's registers are abstracted to what the driver sets: the *)
(* enable (SSIENR), slave select, clock, frame length as n_bytes, clock   *)
(* format (CPOL, CPHA) and transfer mode.  The dw_spi helpers are not in  *)
(* this repository; their effect is taken from the DW APB SSI controller: *)
(* a frame length outside FrameLens is refused and leaves the old one.     *)
(***************************************************************************)
EXTENDS Naturals

CONSTANTS
    Rates,       \* the max_hz values callers pass
    Widths,      \* the data_width values callers pass
    FrameLens,   \* the frame lengths dw_spi_set_data_frame_len accepts
    Modes,       \* the RT_SPI_MODE_x values callers pass (CPHA bit 0, CPOL bit 1)
    Lens,        \* message lengths in bytes
    MaxCalls     \* bound on rt_spi_configure and transfer calls

ASSUME SpiConstAssumption ==
    /\ Rates \subseteq Nat \ {0}
    /\ Widths \subseteq Nat
    /\ FrameLens \subseteq Nat \ {0}
    /\ Modes \subseteq 0..3
    /\ Lens \subseteq Nat \ {0}
    /\ MaxCalls \in Nat

\* A struct rt_spi_configuration, and the one a device holds before any
\* rt_spi_configure() call (zeroed by the device object).
Cfgs == [slave : BOOLEAN, hz : Rates, width : Widths, mode : Modes]
ZeroCfg == [slave |-> FALSE, hz |-> 0, width |-> 0, mode |-> 0]

\* A struct rt_spi_message: which buffers it has, and its length.
Msgs == [tx : BOOLEAN, rx : BOOLEAN, len : Lens]

\* No message (a length no message has).
NoMsg == [tx |-> FALSE, rx |-> FALSE, len |-> 0]

\* dws->n_bytes for a frame length (bytes per frame).
NBytes(w) == IF w > 8 THEN 2 ELSE 1

\* The transfer mode set_tran_mode() derives from dws->tx and dws->rx.
TMode(tx, rx) == IF tx /\ rx THEN "tx_rx" ELSE IF rx THEN "rx" ELSE "tx"

VARIABLES
    en,       \* SSIENR: the controller is enabled
    ser,      \* slave select 0 is asserted by the controller
    csLow,    \* the idle chip-select level written at 0x030001d0
    clk,      \* the clock programmed by dw_spi_set_clock (0: never)
    nbytes,   \* dws->n_bytes (0: never set)
    fmt,      \* the clock format <<CPOL, CPHA>> programmed (<<>>: never)
    tmod,     \* the transfer mode programmed ("none" before any transfer)
    txp,      \* dws->tx is non-NULL
    rxp,      \* dws->rx is non-NULL
    ret,      \* the result of the last driver call
    xferCfg,  \* <<clk, nbytes, fmt>> the last transfer ran with
    devCfg,   \* device->config, stored by rt_spi_configure
    owner,    \* the device owns the bus
    pending,  \* the message the core is about to hand to spi_xfer, or NoMsg
    lastOp,   \* "none", "configure", "xfer", or "eio" (transfer refused)
    lastMsg,  \* the message of the last spi_xfer
    lastOk,   \* the last configuration spi_configure applied in full
    calls     \* calls made so far

hw == <<en, ser, csLow, clk, nbytes, fmt, tmod, txp, rxp>>
core == <<devCfg, owner, pending, lastOp, lastMsg, lastOk, calls>>
vars == <<hw, ret, xferCfg, core>>

Formats == {0, 1} \X {0, 1}

TypeOK ==
    /\ en \in BOOLEAN /\ ser \in BOOLEAN /\ csLow \in BOOLEAN
    /\ clk \in Rates \cup {0}
    /\ nbytes \in {0, 1, 2}
    /\ fmt \in Formats \cup {<<>>}
    /\ tmod \in {"none", "tx", "rx", "tx_rx"}
    /\ txp \in BOOLEAN /\ rxp \in BOOLEAN
    /\ ret \in {"none", "ok", "einval", "error"}
    /\ xferCfg \in (Rates \cup {0}) \X {0, 1, 2} \X (Formats \cup {<<>>})
    /\ devCfg \in Cfgs \cup {ZeroCfg}
    /\ owner \in BOOLEAN
    /\ pending \in Msgs \cup {NoMsg}
    /\ lastOp \in {"none", "configure", "xfer", "eio"}
    /\ lastMsg \in Msgs \cup {NoMsg}
    /\ lastOk \in Cfgs \cup {ZeroCfg}
    /\ calls \in 0..MaxCalls

\* rt_hw_spi_init(): the bus is registered with its ops; the controller
\* has not been programmed and the dw_spi object is zeroed.
Init ==
    /\ en = FALSE /\ ser = FALSE /\ csLow = FALSE
    /\ clk = 0 /\ nbytes = 0 /\ fmt = <<>> /\ tmod = "none"
    /\ txp = FALSE /\ rxp = FALSE
    /\ ret = "none"
    /\ xferCfg = <<0, 0, <<>>>>
    /\ devCfg = ZeroCfg
    /\ owner = FALSE
    /\ pending = NoMsg
    /\ lastOp = "none"
    /\ lastMsg = NoMsg
    /\ lastOk = ZeroCfg
    /\ calls = 0

-----------------------------------------------------------------------------
(* spi_configure()                                                        *)

\* Mutant: the RT_SPI_MODE_1 and RT_SPI_MODE_2 cases swapped.
SpiFormatSwapped ==
    [m \in 0..3 |-> CASE m = 0 -> <<0, 0>> [] m = 1 -> <<1, 0>>
                      [] m = 2 -> <<0, 1>> [] m = 3 -> <<1, 1>>]

\* switch (cfg->mode & RT_SPI_MODE_3): SPI_FORMAT_CPOLx_CPHAy as <<x, y>>.
\* The four cases cover every value, so `mode' is always set.
SpiFormat ==
    [m \in 0..3 |-> CASE m = 0 -> <<0, 0>> [] m = 1 -> <<0, 1>>
                      [] m = 2 -> <<1, 0>> [] m = 3 -> <<1, 1>>]

\* Mutant: the bit count passed where the frame length in bytes is kept.
ConfigureOkBitsAsBytes(cfg) ==
    /\ cfg.width \in FrameLens
    /\ clk' = cfg.hz /\ nbytes' = cfg.width /\ fmt' = SpiFormat[cfg.mode]
    /\ en' = TRUE /\ ser' = TRUE
    /\ ret' = "ok"

\* The full path: reset, init and disable the chip, set the clock, the
\* frame length and the format, select slave 0, enable the chip.
ConfigureOk(cfg) ==
    /\ cfg.width \in FrameLens
    /\ clk' = cfg.hz /\ nbytes' = NBytes(cfg.width) /\ fmt' = SpiFormat[cfg.mode]
    /\ en' = TRUE /\ ser' = TRUE
    /\ ret' = "ok"

\* spi_configure(device, cfg): the idle CS write comes first, before the
\* slave-mode check; a refused frame length returns after the chip was
\* disabled and the clock already changed.
SpiConfigure(cfg) ==
    /\ csLow' = TRUE
    /\ \/ /\ cfg.slave
          /\ ret' = "einval"
          /\ UNCHANGED <<en, ser, clk, nbytes, fmt>>
       \/ /\ ~cfg.slave
          /\ \/ /\ cfg.width \notin FrameLens
                /\ clk' = cfg.hz
                /\ en' = FALSE /\ ser' = FALSE
                /\ ret' = "error"
                /\ UNCHANGED <<nbytes, fmt>>
             \/ ConfigureOk(cfg)
    /\ UNCHANGED <<tmod, txp, rxp, xferCfg>>

-----------------------------------------------------------------------------
(* spi_xfer() and dw_spi_transfer_one()                                   *)

\* Mutant: dws->tx and dws->rx are not reset to NULL before they are set.
TransferOneNoReset(msg) ==
    /\ txp' = (txp \/ msg.tx) /\ rxp' = (rxp \/ msg.rx)
    /\ tmod' = TMode(txp', rxp')
    /\ en' = TRUE /\ ser' = TRUE
    /\ xferCfg' = <<clk, nbytes, fmt>>
    /\ ret' \in {"ok", "error"}

\* dw_spi_transfer_one(dws, tx, rx, len, POLL_TRAN): clear and set the
\* buffer pointers, disable the chip, mask interrupts, set the transfer
\* mode from the pointers, select slave 0, enable the chip and poll the
\* frames out; poll_transfer() may fail.
TransferOne(msg) ==
    /\ txp' = msg.tx /\ rxp' = msg.rx
    /\ tmod' = TMode(txp', rxp')
    /\ en' = TRUE /\ ser' = TRUE
    /\ xferCfg' = <<clk, nbytes, fmt>>
    /\ ret' \in {"ok", "error"}

\* spi_xfer(device, message): one dw_spi_transfer_one() for a message with
\* a buffer, none for a message without; its result is dropped and the
\* message length returned.
SpiXfer ==
    /\ pending # NoMsg
    /\ \/ /\ pending.tx \/ pending.rx
          /\ TransferOne(pending)
       \/ /\ ~pending.tx /\ ~pending.rx
          /\ UNCHANGED <<en, ser, tmod, txp, rxp, xferCfg, ret>>
    /\ lastOp' = "xfer"
    /\ lastMsg' = pending
    /\ pending' = NoMsg
    /\ UNCHANGED <<csLow, clk, nbytes, fmt, devCfg, owner, lastOk, calls>>

-----------------------------------------------------------------------------
(* RT-Thread's SPI core, the caller of the driver.                        *)

\* rt_spi_configure(device, cfg): store cfg; reconfigure the bus now if
\* the device owns it.
CoreConfigure(cfg) ==
    /\ pending = NoMsg /\ calls < MaxCalls
    /\ calls' = calls + 1
    /\ devCfg' = cfg
    /\ \/ /\ owner
          /\ SpiConfigure(cfg)
          /\ lastOp' = "configure"
          /\ lastOk' = IF ret' = "ok" THEN cfg ELSE lastOk
       \/ /\ ~owner
          /\ UNCHANGED <<hw, ret, xferCfg, lastOp, lastOk>>
    /\ UNCHANGED <<owner, pending, lastMsg>>

\* rt_spi_transfer_message(device, msg): a device that does not own the
\* bus first applies its stored configuration and takes the bus on
\* success, else the transfer fails with -RT_EIO; then spi_xfer follows.
CoreTransfer(msg) ==
    /\ pending = NoMsg /\ calls < MaxCalls
    /\ calls' = calls + 1
    /\ \/ /\ owner
          /\ pending' = msg
          /\ UNCHANGED <<hw, ret, xferCfg, owner, lastOp, lastOk>>
       \/ /\ ~owner
          /\ SpiConfigure(devCfg)
          /\ owner' = (ret' = "ok")
          /\ pending' = IF ret' = "ok" THEN msg ELSE NoMsg
          /\ lastOp' = IF ret' = "ok" THEN "configure" ELSE "eio"
          /\ lastOk' = IF ret' = "ok" THEN devCfg ELSE lastOk
    /\ UNCHANGED <<devCfg, lastMsg>>

Next ==
    \/ \E cfg \in Cfgs : CoreConfigure(cfg)
    \/ \E msg \in Msgs : CoreTransfer(msg)
    \/ SpiXfer

Spec == Init /\ [][Next]_vars

-----------------------------------------------------------------------------
(* Properties.                                                            *)

(* When spi_configure() returns RT_EOK, the controller is enabled with     *)
(* slave 0 selected and holds exactly the configuration asked for: its     *)
(* clock, its frame length and the CPOL/CPHA of its mode bits (RT_SPI_CPHA *)
(* is bit 0, RT_SPI_CPOL bit 1).                                          *)
ConfigApplied ==
    lastOp = "configure" /\ ret = "ok" =>
        /\ en /\ ser
        /\ clk = lastOk.hz
        /\ nbytes = NBytes(lastOk.width)
        /\ fmt = <<lastOk.mode \div 2, lastOk.mode % 2>>

(* Each transfer runs in the mode its own message calls for: a receive-   *)
(* only message after a transmitting one does not inherit the stale       *)
(* transmit pointer of the earlier transfer.                              *)
TranModeMatchesMessage ==
    lastOp = "xfer" /\ (lastMsg.tx \/ lastMsg.rx) =>
        tmod = TMode(lastMsg.tx, lastMsg.rx)

(* A transfer runs with a configuration spi_configure() applied in full:  *)
(* the clock, frame length and format of the last configuration it        *)
(* accepted.  A refused configuration changes the clock before it fails,  *)
(* and the next transfer re-enables the chip with that clock.             *)
TransferConfigConsistent ==
    lastOp = "xfer" /\ (lastMsg.tx \/ lastMsg.rx) =>
        xferCfg = <<lastOk.hz, NBytes(lastOk.width),
                    <<lastOk.mode \div 2, lastOk.mode % 2>>>>

=============================================================================
