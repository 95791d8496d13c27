----------------------------- MODULE Dw8250Uart -----------------------------
(***************************************************************************)
(* The DW8250 UART driver, rt-thread/chip/sophgo/drivers/drv_uart.c, with  *)
(* one UART at register level, after rt_hw_uart_init() has registered it   *)
(* with RT_DEVICE_FLAG_INT_RX and the serial framework has opened it at    *)
(* 115200 baud with the receive interrupt on.                              *)
(*                                                                         *)
(* Actors, interleaved on one core:                                        *)
(*   - a thread that calls dw8250_uart_configure() (a baud change),        *)
(*   - a thread that calls dw8250_uart_control() (SET_INT / CLR_INT),      *)
(*   - a thread that calls dw8250_uart_putc() (console output),            *)
(*   - rt_hw_uart_isr(), which runs atomically whenever the UART asserts   *)
(*     its line and the interrupt is unmasked,                            *)
(*   - the UART itself: characters arrive, are shifted out, and the RX     *)
(*     timeout indication may fire spuriously with an empty FIFO.          *)
(* Each register access of the driver is one step, except that the three   *)
(* accesses of one retry of the LCR write loop are one step, and the ISR *)
(* (with the getc() drain of rt_hw_serial_isr) is one step.               *)
(*                                                                         *)
(* Register semantics (16550 with DesignWare extensions): with LCR.DLAB   *)
(* (UART_LCR_BKSE) set, offset 0 is DLL instead of RBR/THR and offset 1   *)
(* is DLM instead of IER; an LCR write while the UART is busy is ignored  *)
(* and raises the busy-detect interrupt, cleared by reading USR; reading  *)
(* RBR pops the RX FIFO and clears the RX timeout indication;             *)
(* UART_FCR_DEFVAL enables and resets both FIFOs.                         *)
(***************************************************************************)
EXTENDS Naturals, Sequences

CONSTANTS
    InputClk,     \* UART_INPUT_CLK
    OpenBaud,     \* the baud rate rt_hw_uart_init() opens with (115200)
    Bauds,        \* baud rates a configure() call may ask for
    MaxTries,     \* the retry budget of the LCR write (1000)
    Settles,      \* a character in flight ends within MaxTries retries
    RxFifo,       \* depth of the RX FIFO
    MaxRx,        \* bound on characters arriving
    MaxSpurious,  \* bound on RX timeout indications with an empty FIFO
    MaxConfig,    \* bound on configure() calls
    MaxCtl,       \* bound on control() calls
    MaxPutc       \* bound on putc() calls

ASSUME UartConstAssumption ==
    /\ InputClk \in Nat \ {0}
    /\ OpenBaud \in Nat \ {0}
    /\ Bauds \subseteq Nat \ {0}
    /\ MaxTries \in Nat \ {0}
    /\ Settles \in BOOLEAN
    /\ RxFifo \in Nat \ {0}
    /\ MaxRx \in Nat /\ MaxSpurious \in Nat
    /\ MaxConfig \in Nat /\ MaxCtl \in Nat /\ MaxPutc \in Nat

\* DIV_ROUND_CLOSEST(UART_INPUT_CLK, 16 * baud) for positive operands.
Divisor(b) == (InputClk + (16 * b) \div 2) \div (16 * b)
DivLo(b) == Divisor(b) % 256
DivHi(b) == (Divisor(b) \div 256) % 256

\* IIR interrupt identifications (IIR & 0x3f).
IIR_NO_INT == 1
IIR_RDI == 4
IIR_RX_TIMEOUT == 12
IIR_BUSY == 7

\* The byte that arrives on RX and the one putc() sends.
RxChar == 114
TxChar == 116

Byte == 0..255

VARIABLES
    \* the UART
    dlab,       \* LCR.DLAB (UART_LCR_BKSE)
    dll, dlm,   \* the divisor latch
    ier,        \* IER; bit 0 is UART_IER_RDI
    rxq,        \* the RX FIFO
    rxShift,    \* a character is being shifted in
    rxTimeout,  \* the RX timeout indication
    txq,        \* the TX FIFO, its head in the shift register
    busyIrq,    \* the busy-detect interrupt is pending
    line,       \* bytes that left on the TX line
    nrx,        \* characters that have arrived
    nspur,      \* RX timeouts with an empty FIFO so far
    \* the interrupt controller, the ISR and the serial framework
    irqOn,      \* rt_hw_interrupt_umask / _mask of the UART's irq
    delivered,  \* bytes the ISR's getc() loop passed to the framework
    isrHung,    \* the ISR's getc() loop never ends
    \* the thread in configure()
    cpc, baud, saved, wTarget, wRet, tries, ncfg,
    lcrLost,    \* history: some dw8250_write32(UART_LCR) gave up unheard
    \* the thread in control()
    tpc, cmd, nctl,
    \* the thread in putc()
    ppc, nput

uart == <<dlab, dll, dlm, ier, rxq, rxShift, rxTimeout, txq, busyIrq, line,
          nrx, nspur>>
sys == <<irqOn, delivered, isrHung>>
cfgVars == <<cpc, baud, saved, wTarget, wRet, tries, ncfg, lcrLost>>
ctlVars == <<tpc, cmd, nctl>>
putVars == <<ppc, nput>>
vars == <<uart, sys, cfgVars, ctlVars, putVars>>

CfgPC == {"idle", "temt", "readIer", "ier0", "fifo", "bkse", "dll", "dlm",
          "ierRestore", "lcrWrite", "lcrCheck"}

TypeOK ==
    /\ dlab \in BOOLEAN
    /\ dll \in Byte /\ dlm \in Byte /\ ier \in Byte
    /\ rxq \in Seq({RxChar}) /\ Len(rxq) <= RxFifo
    /\ rxShift \in BOOLEAN /\ rxTimeout \in BOOLEAN
    /\ txq \in Seq(Byte)
    /\ busyIrq \in BOOLEAN
    /\ line \in Seq(Byte)
    /\ nrx \in 0..MaxRx /\ nspur \in 0..MaxSpurious
    /\ irqOn \in BOOLEAN
    /\ delivered \in Seq({RxChar}) /\ Len(delivered) <= MaxRx
    /\ isrHung \in BOOLEAN
    /\ cpc \in CfgPC
    /\ baud \in Bauds \cup {OpenBaud}
    /\ saved \in Byte
    /\ wTarget \in BOOLEAN
    /\ wRet \in CfgPC
    /\ tries \in 0..MaxTries
    /\ ncfg \in 0..MaxConfig
    /\ lcrLost \in BOOLEAN
    /\ tpc \in {"idle", "ier", "mask"}
    /\ cmd \in {"SET_INT", "CLR_INT"}
    /\ nctl \in 0..MaxCtl
    /\ ppc \in {"idle", "wait", "write"}
    /\ nput \in 0..MaxPutc

\* After rt_hw_uart_init() and the framework's open with
\* RT_DEVICE_FLAG_INT_RX: configured at OpenBaud, RX interrupt enabled.
Init ==
    /\ dlab = FALSE
    /\ dll = DivLo(OpenBaud) /\ dlm = DivHi(OpenBaud)
    /\ ier = 1
    /\ rxq = <<>> /\ rxShift = FALSE /\ rxTimeout = FALSE
    /\ txq = <<>> /\ busyIrq = FALSE /\ line = <<>>
    /\ nrx = 0 /\ nspur = 0
    /\ irqOn = TRUE /\ delivered = <<>> /\ isrHung = FALSE
    /\ ~isrHung
    /\ cpc = "idle" /\ baud = OpenBaud /\ saved = 0
    /\ wTarget = FALSE /\ wRet = "idle" /\ tries = 0 /\ ncfg = 0
    /\ lcrLost = FALSE
    /\ ~isrHung
    /\ tpc = "idle" /\ cmd = "SET_INT" /\ nctl = 0
    /\ ~isrHung
    /\ ppc = "idle" /\ nput = 0

-----------------------------------------------------------------------------
(* Register views and writes.                                            *)
(* Every software step below is guarded by ~isrHung: a hung ISR keeps the *)
(* only core, and only the UART itself still moves.                       *)

\* USR.BUSY: a character is being received or transmitted.
Busy == rxShift \/ txq # <<>>

\* LSR.DR, and LSR.TEMT (= BOTH_EMPTY here: THR and shifter empty).
DR == rxq # <<>>
TEMT == txq = <<>>

\* IIR: the highest-priority pending source.
IIR ==
    IF ier % 2 = 1 /\ rxTimeout THEN IIR_RX_TIMEOUT
    ELSE IF ier % 2 = 1 /\ DR THEN IIR_RDI
    ELSE IF busyIrq THEN IIR_BUSY
    ELSE IIR_NO_INT

\* The UART asserts its interrupt line.
IrqAsserted == IIR # IIR_NO_INT

\* A 32-bit write of v to offset 0: THR, or DLL while DLAB is set.  The
\* 8-bit registers keep the low byte.
WriteOffset0(v) ==
    IF dlab THEN dll' = v % 256 /\ UNCHANGED txq
            ELSE txq' = Append(txq, v % 256) /\ UNCHANGED dll

\* A 32-bit write of v to offset 1: IER, or DLM while DLAB is set.
WriteOffset1(v) ==
    IF dlab THEN dlm' = v % 256 /\ UNCHANGED ier
            ELSE ier' = v % 256 /\ UNCHANGED dlm

\* UART_FCR_DEFVAL: both FIFOs reset; the shifter keeps its character.
FifoResetTx == IF txq = <<>> THEN <<>> ELSE <<Head(txq)>>

\* An LCR write of DLAB value v with the transmitter in state tx: ignored,
\* and busy-detect raised, while the UART is busy.
WriteLcr(v, tx) ==
    IF rxShift \/ tx # <<>>
       THEN busyIrq' = TRUE /\ UNCHANGED dlab
       ELSE dlab' = v /\ UNCHANGED busyIrq

-----------------------------------------------------------------------------
(* dw8250_uart_configure() and what it calls.                            *)

unchangedCtlPut == UNCHANGED <<ctlVars, putVars>>

\* The framework calls configure() with a new serial->config.baud_rate.
CfgCall ==
    /\ ~isrHung
    /\ cpc = "idle" /\ ncfg < MaxConfig
    /\ ncfg' = ncfg + 1
    /\ baud' \in Bauds
    /\ cpc' = "temt"
    /\ UNCHANGED <<uart, sys, saved, wTarget, wRet, tries, lcrLost>>
    /\ unchangedCtlPut

\* while (!(LSR & UART_LSR_TEMT));
CfgWaitTemt ==
    /\ ~isrHung
    /\ cpc = "temt" /\ TEMT
    /\ cpc' = "readIer"
    /\ UNCHANGED <<uart, sys, baud, saved, wTarget, wRet, tries, ncfg, lcrLost>>
    /\ unchangedCtlPut

\* last_ier_state = IER (offset 1: DLM if DLAB is set).
CfgReadIer ==
    /\ ~isrHung
    /\ cpc = "readIer"
    /\ saved' = IF dlab THEN dlm ELSE ier
    /\ cpc' = "ier0"
    /\ UNCHANGED <<uart, sys, baud, wTarget, wRet, tries, ncfg, lcrLost>>
    /\ unchangedCtlPut

\* Mutant: configure() does not clear IER before touching LCR.
CfgIer0Skipped ==
    /\ ~isrHung
    /\ cpc = "ier0"
    /\ cpc' = "fifo"
    /\ UNCHANGED <<uart, sys, baud, saved, wTarget, wRet, tries, ncfg, lcrLost>>
    /\ unchangedCtlPut

\* IER = 0.
CfgIer0 ==
    /\ ~isrHung
    /\ cpc = "ier0"
    /\ WriteOffset1(0)
    /\ cpc' = "fifo"
    /\ UNCHANGED <<dlab, rxq, rxShift, rxTimeout, txq, busyIrq, line, nrx,
                   nspur, dll, sys, baud, saved, wTarget, wRet, tries, ncfg, lcrLost>>
    /\ unchangedCtlPut

\* MCR = UART_MCRVAL; FCR = UART_FCR_DEFVAL; then LCR = UART_LCR_8N1.
CfgFifo ==
    /\ ~isrHung
    /\ cpc = "fifo"
    /\ rxq' = <<>> /\ rxTimeout' = FALSE /\ txq' = FifoResetTx
    /\ wTarget' = FALSE /\ wRet' = "bkse" /\ cpc' = "lcrWrite"
    /\ UNCHANGED <<dlab, dll, dlm, ier, rxShift, busyIrq, line, nrx, nspur,
                   sys, baud, saved, tries, ncfg, lcrLost>>
    /\ unchangedCtlPut

\* dw8250_write32(addr, UART_LCR, value): the write itself.
LcrWrite ==
    /\ ~isrHung
    /\ cpc = "lcrWrite"
    /\ WriteLcr(wTarget, txq)
    /\ tries' = MaxTries
    /\ cpc' = "lcrCheck"
    /\ UNCHANGED <<dll, dlm, ier, rxq, rxShift, rxTimeout, txq, line, nrx,
                   nspur, sys, baud, saved, wTarget, wRet, ncfg, lcrLost>>
    /\ unchangedCtlPut

\* One pass of while (tries--): read LCR back and return if it took; else
\* FCR = UART_FCR_DEFVAL, read RX, write LCR again.  After MaxTries passes
\* the loop gives up without a last check and without telling its caller;
\* lcrLost records that LCR was then left without the value.  With Settles
\* the budget outlasts a character: the last write is made with the line
\* idle.
LcrCheck ==
    /\ ~isrHung
    /\ cpc = "lcrCheck"
    /\ \/ /\ tries = 0 \/ dlab = wTarget
          /\ cpc' = wRet
          /\ lcrLost' = (lcrLost \/ dlab # wTarget)
          /\ UNCHANGED <<uart, tries>>
       \/ /\ tries > 0 /\ dlab # wTarget
          /\ Settles /\ tries = 1 => ~Busy
          /\ rxq' = <<>> /\ rxTimeout' = FALSE /\ txq' = FifoResetTx
          /\ WriteLcr(wTarget, FifoResetTx)
          /\ tries' = tries - 1
          /\ UNCHANGED <<dll, dlm, ier, rxShift, line, nrx, nspur, cpc, lcrLost>>
    /\ UNCHANGED <<sys, baud, saved, wTarget, wRet, ncfg>>
    /\ unchangedCtlPut

\* Mutant: setbrg() writes lcr_val without UART_LCR_BKSE.
CfgBkseMissing ==
    /\ ~isrHung
    /\ cpc = "bkse"
    /\ wTarget' = FALSE /\ wRet' = "dll" /\ cpc' = "lcrWrite"
    /\ UNCHANGED <<uart, sys, baud, saved, tries, ncfg, lcrLost>> /\ unchangedCtlPut

\* dw8250_uart_setbrg(): lcr_val = LCR & ~BKSE; LCR = BKSE | lcr_val.
CfgBkse ==
    /\ ~isrHung
    /\ cpc = "bkse"
    /\ wTarget' = TRUE /\ wRet' = "dll" /\ cpc' = "lcrWrite"
    /\ UNCHANGED <<uart, sys, baud, saved, tries, ncfg, lcrLost>> /\ unchangedCtlPut

\* Mutant: the bytes of the divisor swapped, DLL = (divisor >> 8) & 0xff.
CfgDllHighByte ==
    /\ ~isrHung
    /\ cpc = "dll"
    /\ WriteOffset0(DivHi(baud))
    /\ cpc' = "dlm"
    /\ UNCHANGED <<dlab, dlm, ier, rxq, rxShift, rxTimeout, busyIrq, line,
                   nrx, nspur, sys, baud, saved, wTarget, wRet, tries, ncfg, lcrLost>>
    /\ unchangedCtlPut

\* DLL = divisor & 0xff.
CfgDll ==
    /\ ~isrHung
    /\ cpc = "dll"
    /\ WriteOffset0(DivLo(baud))
    /\ cpc' = "dlm"
    /\ UNCHANGED <<dlab, dlm, ier, rxq, rxShift, rxTimeout, busyIrq, line,
                   nrx, nspur, sys, baud, saved, wTarget, wRet, tries, ncfg, lcrLost>>
    /\ unchangedCtlPut

\* DLM = (divisor >> 8) & 0xff; then LCR = lcr_val.
CfgDlm ==
    /\ ~isrHung
    /\ cpc = "dlm"
    /\ WriteOffset1(DivHi(baud))
    /\ wTarget' = FALSE /\ wRet' = "ierRestore" /\ cpc' = "lcrWrite"
    /\ UNCHANGED <<dlab, dll, rxq, rxShift, rxTimeout, txq, busyIrq, line,
                   nrx, nspur, sys, baud, saved, tries, ncfg, lcrLost>>
    /\ unchangedCtlPut

\* IER = last_ier_state; return RT_EOK.
CfgIerRestore ==
    /\ ~isrHung
    /\ cpc = "ierRestore"
    /\ WriteOffset1(saved)
    /\ cpc' = "idle"
    /\ UNCHANGED <<dlab, dll, rxq, rxShift, rxTimeout, txq, busyIrq, line,
                   nrx, nspur, sys, baud, saved, wTarget, wRet, tries, ncfg, lcrLost>>
    /\ unchangedCtlPut

CfgStep ==
    \/ CfgCall \/ CfgWaitTemt \/ CfgReadIer \/ CfgIer0 \/ CfgFifo
    \/ LcrWrite \/ LcrCheck \/ CfgBkse \/ CfgDll \/ CfgDlm \/ CfgIerRestore


-----------------------------------------------------------------------------
(* dw8250_uart_control() and dw8250_uart_putc().                          *)

unchangedCfgPut == UNCHANGED <<cfgVars, putVars>>

CtlCall ==
    /\ ~isrHung
    /\ tpc = "idle" /\ nctl < MaxCtl
    /\ nctl' = nctl + 1
    /\ cmd' \in {"SET_INT", "CLR_INT"}
    /\ tpc' = "ier"
    /\ UNCHANGED <<uart, sys>> /\ unchangedCfgPut

\* Mutant: CLR_INT writes ~UART_IER_RDI (low byte 254) for !UART_IER_RDI.
CtlIerBitwiseNot ==
    /\ ~isrHung
    /\ tpc = "ier"
    /\ WriteOffset1(IF cmd = "SET_INT" THEN 1 ELSE 254)
    /\ tpc' = "mask"
    /\ UNCHANGED <<dlab, dll, rxq, rxShift, rxTimeout, txq, busyIrq, line,
                   nrx, nspur, sys, cmd, nctl>>
    /\ unchangedCfgPut

\* IER = UART_IER_RDI (SET_INT) or IER = !UART_IER_RDI, i.e. 0 (CLR_INT).
CtlIer ==
    /\ ~isrHung
    /\ tpc = "ier"
    /\ WriteOffset1(IF cmd = "SET_INT" THEN 1 ELSE 0)
    /\ tpc' = "mask"
    /\ UNCHANGED <<dlab, dll, rxq, rxShift, rxTimeout, txq, busyIrq, line,
                   nrx, nspur, sys, cmd, nctl>>
    /\ unchangedCfgPut

\* rt_hw_interrupt_umask (SET_INT) or rt_hw_interrupt_mask (CLR_INT).
CtlMask ==
    /\ ~isrHung
    /\ tpc = "mask"
    /\ irqOn' = (cmd = "SET_INT")
    /\ tpc' = "idle"
    /\ UNCHANGED <<uart, delivered, isrHung, cmd, nctl>> /\ unchangedCfgPut

CtlStep == CtlCall \/ CtlIer \/ CtlMask

unchangedCfgCtl == UNCHANGED <<cfgVars, ctlVars>>

PutcCall ==
    /\ ~isrHung
    /\ ppc = "idle" /\ nput < MaxPutc
    /\ nput' = nput + 1
    /\ ppc' = "wait"
    /\ UNCHANGED <<uart, sys>> /\ unchangedCfgCtl

\* while ((LSR & BOTH_EMPTY) != BOTH_EMPTY);
PutcWait ==
    /\ ~isrHung
    /\ ppc = "wait" /\ TEMT
    /\ ppc' = "write"
    /\ UNCHANGED <<uart, sys, nput>> /\ unchangedCfgCtl

\* UART_TX = c (offset 0: DLL if DLAB is set).
PutcWrite ==
    /\ ~isrHung
    /\ ppc = "write"
    /\ WriteOffset0(TxChar)
    /\ ppc' = "idle"
    /\ UNCHANGED <<dlab, dlm, ier, rxq, rxShift, rxTimeout, busyIrq, line,
                   nrx, nspur, sys, nput>>
    /\ unchangedCfgCtl

PutcStep == PutcCall \/ PutcWait \/ PutcWrite

-----------------------------------------------------------------------------
(* rt_hw_uart_isr(), run when the line is asserted and the irq unmasked.  *)
(* On RX_TIMEOUT with neither DR nor BI it reads RX once (offset 0: DLL   *)
(* if DLAB is set, which clears nothing).  Unless IIR has NO_INT set it   *)
(* calls rt_hw_serial_isr(RX_IND), whose INT_RX path calls getc() until   *)
(* it returns -1: getc() reads RX while LSR.DR is set, and with DLAB set  *)
(* that read returns DLL and pops nothing, so the loop never ends.  On    *)
(* IIR_BUSY it reads USR, which clears busy-detect.                       *)

\* Mutant: getc() reads a register that does not pop the RX FIFO.
DrainNoPop == delivered' = delivered \o rxq /\ UNCHANGED rxq

\* getc() until it returns -1, with DLAB clear: every character in the
\* FIFO goes to the framework.
Drain == delivered' = delivered \o rxq /\ rxq' = <<>>

\* Mutant: the ISR without the dummy read of RX.
TimeoutAfterDummyNoRead == rxTimeout

\* The RX timeout indication after the dummy read.
TimeoutAfterDummy ==
    IF IIR = IIR_RX_TIMEOUT /\ ~DR /\ ~dlab THEN FALSE ELSE rxTimeout

Isr ==
    /\ ~isrHung /\ irqOn /\ IrqAsserted
    /\ IF IIR % 2 = 0
          THEN IF DR /\ dlab
                  THEN isrHung' = TRUE
                       /\ UNCHANGED <<delivered, rxq, rxTimeout>>
                  ELSE /\ Drain
                       /\ rxTimeout' = IF DR THEN FALSE ELSE TimeoutAfterDummy
                       /\ UNCHANGED isrHung
          ELSE /\ rxTimeout' = TimeoutAfterDummy
               /\ UNCHANGED <<delivered, rxq, isrHung>>
    /\ busyIrq' = IF IIR = IIR_BUSY THEN FALSE ELSE busyIrq
    /\ UNCHANGED <<dlab, dll, dlm, ier, rxShift, txq, line, nrx, nspur, irqOn>>
    /\ UNCHANGED <<cfgVars, ctlVars, putVars>>

-----------------------------------------------------------------------------
(* The UART hardware.                                                     *)

unchangedSw == UNCHANGED <<sys, cfgVars, ctlVars, putVars>>

\* A start bit: a character begins to shift in.
HwRxStart ==
    /\ ~rxShift /\ nrx < MaxRx
    /\ rxShift' = TRUE /\ nrx' = nrx + 1
    /\ UNCHANGED <<dlab, dll, dlm, ier, rxq, rxTimeout, txq, busyIrq, line,
                   nspur>>
    /\ unchangedSw

\* The stop bit: the character enters the FIFO, or is lost on overrun.
HwRxEnd ==
    /\ rxShift
    /\ rxShift' = FALSE
    /\ rxq' = IF Len(rxq) < RxFifo THEN Append(rxq, RxChar) ELSE rxq
    /\ UNCHANGED <<dlab, dll, dlm, ier, rxTimeout, txq, busyIrq, line, nrx,
                   nspur>>
    /\ unchangedSw

\* The RX timeout: characters wait in the FIFO, or (the case the ISR's
\* comment is about) the indication fires with the FIFO empty.
HwRxTimeout ==
    /\ ~rxTimeout
    /\ \/ DR /\ UNCHANGED nspur
       \/ ~DR /\ nspur < MaxSpurious /\ nspur' = nspur + 1
    /\ rxTimeout' = TRUE
    /\ UNCHANGED <<dlab, dll, dlm, ier, rxq, rxShift, txq, busyIrq, line, nrx>>
    /\ unchangedSw

\* The shifter sends the head of the TX FIFO.
HwTx ==
    /\ txq # <<>>
    /\ line' = Append(line, Head(txq))
    /\ txq' = Tail(txq)
    /\ UNCHANGED <<dlab, dll, dlm, ier, rxq, rxShift, rxTimeout, busyIrq, nrx,
                   nspur>>
    /\ unchangedSw

HwStep == HwRxStart \/ HwRxEnd \/ HwRxTimeout \/ HwTx

-----------------------------------------------------------------------------
Next == CfgStep \/ CtlStep \/ PutcStep \/ Isr \/ HwStep

Spec == Init /\ [][Next]_vars

(* The threads are scheduled whenever they can run, the ISR runs while    *)
(* its line is asserted and unmasked, and the UART finishes shifting a    *)
(* character once it has started.                                         *)
FairSpec ==
    /\ Spec
    /\ WF_vars(CfgStep) /\ WF_vars(CtlStep) /\ WF_vars(PutcStep)
    /\ WF_vars(Isr)
    /\ WF_vars(HwRxEnd) /\ WF_vars(HwTx)

-----------------------------------------------------------------------------
(* Properties.                                                            *)

(* configure() does what it is for unless one of its LCR writes gave up: *)
(* when it has returned, the divisor latch holds                          *)
(* DIV_ROUND_CLOSEST(UART_INPUT_CLK, 16 * baud) for the rate asked for,   *)
(* DLAB is clear again (offsets 0 and 1 reach the data and IER registers) *)
(* and IER is the value it read on entry.  The retry loop's silent give-up *)
(* is the one failure configure() cannot see; the property says that it  *)
(* is the only way configure() can fail with the ISR and the line running *)
(* beside it.                                                             *)
DivisorProgrammed ==
    cpc = "idle" /\ ncfg > 0 /\ ~lcrLost =>
        /\ dll = DivLo(baud) /\ dlm = DivHi(baud)
        /\ ~dlab
        /\ ier = saved

(* IER never enables more than the RX data interrupt, the only source    *)
(* (with the RX timeout it implies) whose cause the ISR clears: no write  *)
(* of configure() or control() meant for another register, or with other *)
(* bits, reaches IER, as long as no LCR write has given up (a lost BKSE   *)
(* write sends the divisor's high byte to IER).                           *)
IerOnlyRx == ~lcrLost => ier \in {0, 1}

(* The ISR returns: its getc() drain never runs while DLAB is set with a  *)
(* character in the RX FIFO, where reading offset 0 returns DLL and       *)
(* leaves LSR.DR set for ever.                                            *)
NoIsrHang == ~isrHung

(* The interrupt line does not fire for ever: once the UART stops         *)
(* receiving, the ISR clears every cause it reports, the RX timeout with  *)
(* an empty FIFO included, so the line is eventually quiet or masked for  *)
(* good.                                                                  *)
IrqQuiesces == <>[](~IrqAsserted \/ ~irqOn)

=============================================================================
