----------------------------- MODULE UartProofs -----------------------------
(***************************************************************************)
(* Proofs about the DW8250 UART driver, for every value of the constants, *)
(* the LCR retry loop of dw8250_write32 giving up or not.                 *)
(*                                                                         *)
(* Only configure() writes LCR.  While none of its LCR writes has given   *)
(* up unheard (~lcrLost), DLAB is set exactly from the BKSE write to the  *)
(* LCR write after the DLM write (DlabInv).  From it:                     *)
(*   - IerOnlyRxHolds: IER holds 0 or UART_IER_RDI unless a write gave up;*)
(*   - BaudRateProgrammed: with neither control() nor putc(), configure() *)
(*     leaves the divisor of the rate asked for and IER as it found it,   *)
(*     unless a write gave up.                                            *)
(* IsrAlwaysReturns needs no such proviso: configure() clears IER before  *)
(* the only write that can set DLAB, so IER's RX bit is clear whenever    *)
(* DLAB may be set (HangInv).  The hypotheses on control() and putc() are *)
(* needed: the runs uart_setint_during_configure and                      *)
(* uart_putc_during_configure show what goes wrong without them.          *)
(* UartTypeCorrect needs no hypothesis.                                   *)
(***************************************************************************)
EXTENDS Dw8250Uart, TLAPS

-----------------------------------------------------------------------------
(* Types.                                                                 *)

\* Every character that reached the framework, waits in the FIFO or is
\* being shifted in arrived on the line.
RxAccounted ==
    /\ Len(delivered) + Len(rxq) <= nrx
    /\ rxShift => Len(delivered) + Len(rxq) < nrx

TInv == TypeOK /\ RxAccounted

\* What each group of actions leaves alone, flattened to single variables:
\* the frame conjunct of a configure() step, a control() step, a putc() step
\* and a hardware step.
LEMMA CtlPutFrame ==
    ASSUME unchangedCtlPut
    PROVE  UNCHANGED <<tpc, cmd, nctl, ppc, nput>>
BY DEF unchangedCtlPut, ctlVars, putVars
LEMMA CfgPutFrame ==
    ASSUME unchangedCfgPut
    PROVE  UNCHANGED <<cpc, baud, saved, wTarget, wRet, tries, ncfg, lcrLost,
                       ppc, nput>>
BY DEF unchangedCfgPut, cfgVars, putVars
LEMMA CfgCtlFrame ==
    ASSUME unchangedCfgCtl
    PROVE  UNCHANGED <<cpc, baud, saved, wTarget, wRet, tries, ncfg, lcrLost,
                       tpc, cmd, nctl>>
BY DEF unchangedCfgCtl, cfgVars, ctlVars
LEMMA SwFrame ==
    ASSUME unchangedSw
    PROVE  UNCHANGED <<irqOn, delivered, isrHung, cpc, baud, saved, wTarget,
                       wRet, tries, ncfg, lcrLost, tpc, cmd, nctl, ppc, nput>>
BY DEF unchangedSw, sys, cfgVars, ctlVars, putVars

\* Both bytes of the divisor of a positive baud rate are bytes.
LEMMA DivBytes ==
    ASSUME UartConstAssumption, NEW b \in Nat \ {0}
    PROVE  /\ DivLo(b) \in Byte /\ DivLo(b) % 256 = DivLo(b)
           /\ DivHi(b) \in Byte /\ DivHi(b) % 256 = DivHi(b)
           /\ DivLo(b) \in Nat /\ DivHi(b) \in Nat
<1>1. Divisor(b) \in Nat BY UartConstAssumption DEF Divisor
<1>2. QED BY <1>1 DEF DivLo, DivHi, Byte

\* A write to offset 0 with DLAB clear goes to the TX FIFO, otherwise DLL.
LEMMA Offset0 ==
    ASSUME NEW v, WriteOffset0(v)
    PROVE  /\ ~dlab => txq' = Append(txq, v % 256) /\ dll' = dll
           /\ dlab => dll' = v % 256 /\ txq' = txq
BY DEF WriteOffset0

LEMMA Offset0Typed ==
    ASSUME TypeOK, NEW v \in Nat, WriteOffset0(v)
    PROVE  dll' \in Byte /\ txq' \in Seq(Byte)
<1>1. v % 256 \in Byte BY DEF Byte
<1>2. CASE dlab BY <1>1, <1>2, Offset0 DEF TypeOK
<1>3. CASE ~dlab
      <2>1. txq' = Append(txq, v % 256) /\ dll' = dll BY <1>3, Offset0
      <2>2. QED BY <1>1, <2>1 DEF TypeOK
<1>4. QED BY <1>2, <1>3

\* A write to offset 1 with DLAB clear reaches IER, otherwise DLM.
LEMMA Offset1 ==
    ASSUME NEW v, WriteOffset1(v)
    PROVE  /\ ~dlab => ier' = v % 256
           /\ dlab => ier' = ier
BY DEF WriteOffset1

LEMMA Offset1Typed ==
    ASSUME TypeOK, NEW v \in Nat, WriteOffset1(v)
    PROVE  dlm' \in Byte /\ ier' \in Byte
<1>1. v % 256 \in Byte BY DEF Byte
<1>2. CASE dlab BY <1>1, <1>2, Offset1 DEF TypeOK, WriteOffset1
<1>3. CASE ~dlab BY <1>1, <1>3, Offset1 DEF TypeOK, WriteOffset1
<1>4. QED BY <1>2, <1>3

LEMMA LcrTyped ==
    ASSUME TypeOK, NEW v \in BOOLEAN, NEW tx, WriteLcr(v, tx)
    PROVE  dlab' \in BOOLEAN /\ busyIrq' \in BOOLEAN
<1>1. CASE rxShift \/ tx # <<>> BY <1>1 DEF WriteLcr, TypeOK
<1>2. CASE ~(rxShift \/ tx # <<>>) BY <1>2 DEF WriteLcr, TypeOK
<1>3. QED BY <1>1, <1>2

LEMMA FifoResetTyped ==
    ASSUME TypeOK
    PROVE  FifoResetTx \in Seq(Byte)
<1>1. CASE txq = <<>> BY <1>1 DEF FifoResetTx, TypeOK
<1>2. CASE txq # <<>> BY <1>2 DEF FifoResetTx, TypeOK
<1>3. QED BY <1>1, <1>2

LEMMA InitTInv == ASSUME UartConstAssumption PROVE Init => TInv
<1> SUFFICES ASSUME Init PROVE TInv OBVIOUS
<1>1. DivLo(OpenBaud) \in Byte /\ DivHi(OpenBaud) \in Byte
      BY UartConstAssumption, DivBytes
<1>2. /\ dlab \in BOOLEAN /\ rxShift \in BOOLEAN /\ rxTimeout \in BOOLEAN
      /\ busyIrq \in BOOLEAN /\ irqOn \in BOOLEAN /\ isrHung \in BOOLEAN
      /\ wTarget \in BOOLEAN /\ lcrLost \in BOOLEAN
      BY DEF Init
<1>3. /\ rxq \in Seq({RxChar}) /\ Len(rxq) <= RxFifo
      /\ txq \in Seq(Byte) /\ line \in Seq(Byte)
      /\ delivered \in Seq({RxChar}) /\ Len(delivered) <= MaxRx
      BY UartConstAssumption DEF Init
<1>4. /\ nrx \in 0..MaxRx /\ nspur \in 0..MaxSpurious /\ tries \in 0..MaxTries
      /\ ncfg \in 0..MaxConfig /\ nctl \in 0..MaxCtl /\ nput \in 0..MaxPutc
      /\ dll \in Byte /\ dlm \in Byte /\ ier \in Byte /\ saved \in Byte
      BY <1>1, UartConstAssumption DEF Init, Byte
<1>5. /\ cpc \in CfgPC /\ wRet \in CfgPC /\ baud \in Bauds \cup {OpenBaud}
      /\ tpc \in {"idle", "ier", "mask"} /\ cmd \in {"SET_INT", "CLR_INT"}
      /\ ppc \in {"idle", "wait", "write"}
      BY DEF Init, CfgPC
<1>6. RxAccounted BY DEF Init, RxAccounted
<1>7. QED BY <1>2, <1>3, <1>4, <1>5, <1>6 DEF TInv, TypeOK

\* Only the RX path moves the characters: the ISR's drain hands them on,
\* a FIFO reset and an overrun drop them, a start bit adds one.
LEMMA NextRxAccounted ==
    ASSUME UartConstAssumption, TInv, [Next]_vars
    PROVE  RxAccounted'
<1> USE DEF TInv, TypeOK, RxAccounted
<1>1. CASE CfgFifo
      <2>1. rxq' = <<>> /\ UNCHANGED <<delivered, nrx, rxShift>> BY <1>1 DEF CfgFifo, sys
      <2>2. QED BY <2>1
<1>2. CASE LcrCheck
      <2>1. rxq' = <<>> \/ rxq' = rxq BY <1>2 DEF LcrCheck, uart
      <2>2. UNCHANGED <<delivered, nrx, rxShift>> BY <1>2 DEF LcrCheck, uart, sys
      <2>3. QED BY <2>1, <2>2
<1>3. CASE Isr
      <2>1. UNCHANGED <<nrx, rxShift>> BY <1>3 DEF Isr
      <2>2. \/ delivered' = delivered \o rxq /\ rxq' = <<>>
            \/ UNCHANGED <<delivered, rxq>>
            BY <1>3 DEF Isr, Drain
      <2>3. QED BY <2>1, <2>2
<1>4. CASE HwRxStart
      <2>1. ~rxShift /\ nrx' = nrx + 1 /\ UNCHANGED <<delivered, rxq>>
            BY <1>4 DEF HwRxStart, unchangedSw, sys
      <2>2. QED BY <2>1
<1>5. CASE HwRxEnd
      <2>1. rxShift /\ rxShift' = FALSE /\ UNCHANGED <<delivered, nrx>>
            BY <1>5 DEF HwRxEnd, unchangedSw, sys
      <2>2. rxq' = Append(rxq, RxChar) \/ rxq' = rxq BY <1>5 DEF HwRxEnd
      <2>3. QED BY <2>1, <2>2
<1>6. CASE ~(CfgFifo \/ LcrCheck \/ Isr \/ HwRxStart \/ HwRxEnd)
      <2>1. UNCHANGED <<delivered, rxq, nrx, rxShift>>
            BY <1>6 DEF Next, CfgStep, CfgCall, CfgWaitTemt, CfgReadIer, CfgIer0,
                      LcrWrite, CfgBkse, CfgDll, CfgDlm, CfgIerRestore,
                      CtlStep, CtlCall, CtlIer, CtlMask,
                      PutcStep, PutcCall, PutcWait, PutcWrite,
                      HwStep, HwRxTimeout, HwTx, unchangedSw, vars, uart, sys
      <2>2. QED BY <2>1
<1>7. QED BY <1>1, <1>2, <1>3, <1>4, <1>5, <1>6

\* The two ways out of one pass of the LCR retry loop.
LEMMA LcrCheckCases ==
    ASSUME LcrCheck
    PROVE  /\ \/ /\ cpc' = wRet /\ lcrLost' = (lcrLost \/ dlab # wTarget)
                 /\ UNCHANGED <<uart, tries>>
              \/ /\ tries > 0
                 /\ rxq' = <<>> /\ rxTimeout' = FALSE /\ txq' = FifoResetTx
                 /\ WriteLcr(wTarget, FifoResetTx)
                 /\ tries' = tries - 1
                 /\ UNCHANGED <<dll, dlm, ier, rxShift, line, nrx, nspur, cpc,
                                lcrLost>>
           /\ UNCHANGED <<sys, baud, saved, wTarget, wRet, ncfg>>
           /\ unchangedCtlPut
BY DEF LcrCheck

\* The three ways through the ISR: hung, drained, or nothing to drain.
LEMMA IsrCases ==
    ASSUME Isr
    PROVE  /\ \/ isrHung' = TRUE /\ UNCHANGED <<delivered, rxq, rxTimeout>>
              \/ /\ delivered' = delivered \o rxq /\ rxq' = <<>>
                 /\ rxTimeout' \in {FALSE, rxTimeout}
                 /\ UNCHANGED isrHung
              \/ /\ rxTimeout' \in {FALSE, rxTimeout}
                 /\ UNCHANGED <<delivered, rxq, isrHung>>
           /\ busyIrq' \in {FALSE, busyIrq}
           /\ UNCHANGED <<dlab, dll, dlm, ier, rxShift, txq, line, nrx, nspur,
                          irqOn>>
           /\ UNCHANGED <<cfgVars, ctlVars, putVars>>
<1>1. busyIrq' \in {FALSE, busyIrq} BY DEF Isr
<1>2. TimeoutAfterDummy \in {FALSE, rxTimeout} BY DEF TimeoutAfterDummy
<1>3. CASE IIR % 2 = 0 /\ DR /\ dlab BY <1>1, <1>3 DEF Isr
<1>4. CASE IIR % 2 = 0 /\ ~(DR /\ dlab)
      <2>1. delivered' = delivered \o rxq /\ rxq' = <<>> /\ UNCHANGED isrHung
            BY <1>4 DEF Isr, Drain
      <2>2. rxTimeout' = IF DR THEN FALSE ELSE TimeoutAfterDummy BY <1>4 DEF Isr
      <2>3. rxTimeout' \in {FALSE, rxTimeout} BY <1>2, <2>2
      <2>4. QED BY <1>1, <2>1, <2>3 DEF Isr
<1>5. CASE IIR % 2 # 0
      <2>1. rxTimeout' = TimeoutAfterDummy /\ UNCHANGED <<delivered, rxq, isrHung>>
            BY <1>5 DEF Isr
      <2>2. QED BY <1>1, <1>2, <2>1 DEF Isr
<1>6. QED BY <1>3, <1>4, <1>5

\* TypeOK in five parts, one per kind of state.
Flags ==
    /\ dlab \in BOOLEAN /\ rxShift \in BOOLEAN /\ rxTimeout \in BOOLEAN
    /\ busyIrq \in BOOLEAN /\ irqOn \in BOOLEAN /\ isrHung \in BOOLEAN
    /\ wTarget \in BOOLEAN /\ lcrLost \in BOOLEAN
Regs == dll \in Byte /\ dlm \in Byte /\ ier \in Byte /\ saved \in Byte
Queues ==
    /\ rxq \in Seq({RxChar}) /\ Len(rxq) <= RxFifo
    /\ txq \in Seq(Byte) /\ line \in Seq(Byte)
    /\ delivered \in Seq({RxChar}) /\ Len(delivered) <= MaxRx
Counters ==
    /\ nrx \in 0..MaxRx /\ nspur \in 0..MaxSpurious /\ tries \in 0..MaxTries
    /\ ncfg \in 0..MaxConfig /\ nctl \in 0..MaxCtl /\ nput \in 0..MaxPutc
Pcs ==
    /\ cpc \in CfgPC /\ wRet \in CfgPC /\ baud \in Bauds \cup {OpenBaud}
    /\ tpc \in {"idle", "ier", "mask"} /\ cmd \in {"SET_INT", "CLR_INT"}
    /\ ppc \in {"idle", "wait", "write"}

\* Every action other than the ones listed leaves these variables alone.
LEMMA Frame ==
    ASSUME [Next]_vars
    PROVE  /\ ~(LcrWrite \/ LcrCheck \/ CfgFifo \/ CfgBkse \/ CfgDlm \/ CtlMask
               \/ Isr \/ HwRxStart \/ HwRxEnd \/ HwRxTimeout)
              => UNCHANGED <<dlab, rxShift, rxTimeout, busyIrq, irqOn, isrHung,
                             wTarget, lcrLost>>
           /\ ~(CfgReadIer \/ CfgIer0 \/ CfgDll \/ CfgDlm \/ CfgIerRestore
               \/ CtlIer \/ PutcWrite)
              => UNCHANGED <<dll, dlm, ier, saved>>
           /\ ~(CfgFifo \/ LcrCheck \/ Isr \/ HwRxEnd \/ HwTx \/ CfgDll
               \/ PutcWrite)
              => UNCHANGED <<rxq, txq, line, delivered>>
           /\ ~(HwRxStart \/ HwRxTimeout \/ LcrWrite \/ LcrCheck \/ CfgCall
               \/ CtlCall \/ PutcCall)
              => UNCHANGED <<nrx, nspur, tries, ncfg, nctl, nput>>
<1>1. CASE CfgCall
      BY <1>1 DEF CfgCall, unchangedCtlPut, uart, sys, cfgVars, ctlVars, putVars
<1>2. CASE CfgWaitTemt
      BY <1>2 DEF CfgWaitTemt, unchangedCtlPut, uart, sys, cfgVars, ctlVars, putVars
<1>3. CASE CfgReadIer
      BY <1>3 DEF CfgReadIer, unchangedCtlPut, uart, sys, cfgVars, ctlVars, putVars
<1>4. CASE CfgIer0
      BY <1>4 DEF CfgIer0, unchangedCtlPut, uart, sys, cfgVars, ctlVars, putVars
<1>5. CASE CfgFifo
      BY <1>5 DEF CfgFifo, unchangedCtlPut, uart, sys, cfgVars, ctlVars, putVars
<1>6. CASE LcrWrite
      BY <1>6 DEF LcrWrite, unchangedCtlPut, uart, sys, cfgVars, ctlVars, putVars
<1>7. CASE LcrCheck
      BY <1>7, LcrCheckCases DEF LcrCheck, unchangedCtlPut, uart, sys, cfgVars, ctlVars, putVars
<1>8. CASE CfgBkse
      BY <1>8 DEF CfgBkse, unchangedCtlPut, uart, sys, cfgVars, ctlVars, putVars
<1>9. CASE CfgDll
      BY <1>9 DEF CfgDll, unchangedCtlPut, uart, sys, cfgVars, ctlVars, putVars
<1>10. CASE CfgDlm
      BY <1>10 DEF CfgDlm, unchangedCtlPut, uart, sys, cfgVars, ctlVars, putVars
<1>11. CASE CfgIerRestore
      BY <1>11 DEF CfgIerRestore, unchangedCtlPut, uart, sys, cfgVars, ctlVars, putVars
<1>12. CASE CtlCall
      BY <1>12 DEF CtlCall, unchangedCfgPut, uart, sys, cfgVars, ctlVars, putVars
<1>13. CASE CtlIer
      BY <1>13 DEF CtlIer, unchangedCfgPut, uart, sys, cfgVars, ctlVars, putVars
<1>14. CASE CtlMask
      BY <1>14 DEF CtlMask, unchangedCfgPut, uart, sys, cfgVars, ctlVars, putVars
<1>15. CASE PutcCall
      BY <1>15 DEF PutcCall, unchangedCfgCtl, uart, sys, cfgVars, ctlVars, putVars
<1>16. CASE PutcWait
      BY <1>16 DEF PutcWait, unchangedCfgCtl, uart, sys, cfgVars, ctlVars, putVars
<1>17. CASE PutcWrite
      BY <1>17 DEF PutcWrite, unchangedCfgCtl, uart, sys, cfgVars, ctlVars, putVars
<1>18. CASE HwRxStart
      BY <1>18 DEF HwRxStart, unchangedSw, uart, sys, cfgVars, ctlVars, putVars
<1>19. CASE HwRxEnd
      BY <1>19 DEF HwRxEnd, unchangedSw, uart, sys, cfgVars, ctlVars, putVars
<1>20. CASE HwRxTimeout
      BY <1>20 DEF HwRxTimeout, unchangedSw, uart, sys, cfgVars, ctlVars, putVars
<1>21. CASE HwTx
      BY <1>21 DEF HwTx, unchangedSw, uart, sys, cfgVars, ctlVars, putVars
<1>22. CASE Isr
      BY <1>22, IsrCases DEF cfgVars, ctlVars, putVars
<1>23. CASE UNCHANGED vars
      BY <1>23 DEF vars, uart, sys, cfgVars, ctlVars, putVars
<1>24. QED BY <1>1, <1>2, <1>3, <1>4, <1>5, <1>6, <1>7, <1>8, <1>9, <1>10,
         <1>11, <1>12, <1>13, <1>14, <1>15, <1>16, <1>17, <1>18, <1>19,
         <1>20, <1>21, <1>22, <1>23
         DEF Next, CfgStep, CtlStep, PutcStep, HwStep

LEMMA NextFlags ==
    ASSUME TypeOK, [Next]_vars
    PROVE  Flags'
<1> USE DEF TypeOK, Flags
<1>1. CASE LcrWrite
      <2>1. dlab' \in BOOLEAN /\ busyIrq' \in BOOLEAN
            BY <1>1, LcrTyped DEF LcrWrite
      <2>2. QED BY <1>1, <2>1 DEF LcrWrite, sys
<1>2. CASE LcrCheck
      <2>1. UNCHANGED <<rxShift, irqOn, isrHung, wTarget>>
            BY <1>2, LcrCheckCases DEF uart, sys
      <2>2. CASE lcrLost' = (lcrLost \/ dlab # wTarget) /\ UNCHANGED <<uart, tries>>
            BY <2>1, <2>2 DEF uart
      <2>3. CASE /\ tries > 0 /\ rxTimeout' = FALSE /\ WriteLcr(wTarget, FifoResetTx)
                 /\ UNCHANGED lcrLost
            <3>1. dlab' \in BOOLEAN /\ busyIrq' \in BOOLEAN BY <2>3, LcrTyped
            <3>2. QED BY <2>1, <2>3, <3>1
      <2>4. QED BY <1>2, <2>2, <2>3, LcrCheckCases
<1>3. CASE CfgFifo \/ CfgBkse \/ CfgDlm
      BY <1>3 DEF CfgFifo, CfgBkse, CfgDlm, uart, sys
<1>4. CASE CtlMask BY <1>4 DEF CtlMask, uart, unchangedCfgPut, cfgVars
<1>5. CASE Isr
      <2>1. UNCHANGED <<dlab, rxShift, irqOn, wTarget, lcrLost>>
            BY <1>5, IsrCases DEF cfgVars
      <2>2. rxTimeout' \in BOOLEAN /\ busyIrq' \in BOOLEAN /\ isrHung' \in BOOLEAN
            BY <1>5, IsrCases
      <2>3. QED BY <2>1, <2>2
<1>6. CASE HwRxStart \/ HwRxEnd \/ HwRxTimeout
      BY <1>6 DEF HwRxStart, HwRxEnd, HwRxTimeout, unchangedSw, sys, cfgVars
<1>7. QED BY <1>1, <1>2, <1>3, <1>4, <1>5, <1>6, Frame

LEMMA NextRegs ==
    ASSUME UartConstAssumption, TypeOK, [Next]_vars
    PROVE  Regs'
<1> USE DEF TypeOK, Regs
<1>1. DivLo(baud) \in Nat /\ DivHi(baud) \in Nat
      <2>1. baud \in Nat \ {0} BY UartConstAssumption
      <2>2. QED BY <2>1, DivBytes
<1>2. CASE CfgReadIer BY <1>2 DEF CfgReadIer, uart
<1>3. CASE CfgIer0
      <2>1. WriteOffset1(0) /\ UNCHANGED <<dll, saved>> BY <1>3 DEF CfgIer0, cfgVars
      <2>2. dlm' \in Byte /\ ier' \in Byte BY <2>1, Offset1Typed
      <2>3. QED BY <2>1, <2>2
<1>4. CASE CfgDll
      <2>1. WriteOffset0(DivLo(baud)) /\ UNCHANGED <<dlm, ier, saved>>
            BY <1>4 DEF CfgDll
      <2>2. dll' \in Byte BY <1>1, <2>1, Offset0Typed
      <2>3. QED BY <2>1, <2>2
<1>5. CASE CfgDlm
      <2>1. WriteOffset1(DivHi(baud)) /\ UNCHANGED <<dll, saved>> BY <1>5 DEF CfgDlm
      <2>2. dlm' \in Byte /\ ier' \in Byte BY <1>1, <2>1, Offset1Typed
      <2>3. QED BY <2>1, <2>2
<1>6. CASE CfgIerRestore
      <2>1. WriteOffset1(saved) /\ UNCHANGED <<dll, saved>>
            BY <1>6 DEF CfgIerRestore
      <2>2. saved \in Nat BY DEF Byte
      <2>3. dlm' \in Byte /\ ier' \in Byte BY <2>1, <2>2, Offset1Typed
      <2>4. QED BY <2>1, <2>3
<1>7. CASE CtlIer
      <2>1. WriteOffset1(IF cmd = "SET_INT" THEN 1 ELSE 0) /\ UNCHANGED <<dll>>
            /\ UNCHANGED saved
            BY <1>7 DEF CtlIer, unchangedCfgPut, cfgVars
      <2>2. (IF cmd = "SET_INT" THEN 1 ELSE 0) \in Nat OBVIOUS
      <2>3. dlm' \in Byte /\ ier' \in Byte BY <2>1, <2>2, Offset1Typed
      <2>4. QED BY <2>1, <2>3
<1>8. CASE PutcWrite
      <2>1. WriteOffset0(TxChar) /\ UNCHANGED <<dlm, ier>> /\ UNCHANGED saved
            BY <1>8 DEF PutcWrite, unchangedCfgCtl, cfgVars
      <2>2. TxChar \in Nat BY DEF TxChar
      <2>3. dll' \in Byte BY <2>1, <2>2, Offset0Typed
      <2>4. QED BY <2>1, <2>3
<1>9. QED BY <1>2, <1>3, <1>4, <1>5, <1>6, <1>7, <1>8, Frame

LEMMA NextCounters ==
    ASSUME UartConstAssumption, TypeOK, [Next]_vars
    PROVE  Counters'
<1>0. Counters BY DEF TypeOK, Counters
<1> USE UartConstAssumption, <1>0 DEF Counters
<1>1. CASE HwRxStart
      BY <1>1, SwFrame DEF HwRxStart
<1>6. CASE HwRxTimeout
      <2>1. nspur' = nspur \/ (nspur < MaxSpurious /\ nspur' = nspur + 1)
            BY <1>6 DEF HwRxTimeout
      <2>2. UNCHANGED <<nrx, tries, ncfg, nctl, nput>>
            BY <1>6, SwFrame DEF HwRxTimeout
      <2>3. QED BY <2>1, <2>2
<1>2. CASE LcrWrite BY <1>2, CtlPutFrame DEF LcrWrite
<1>3. CASE LcrCheck
      <2>1. UNCHANGED <<nrx, nspur, ncfg>> /\ unchangedCtlPut
            BY <1>3, LcrCheckCases DEF uart
      <2>2. UNCHANGED <<nctl, nput>> BY <2>1, CtlPutFrame
      <2>3. tries' = tries \/ (tries > 0 /\ tries' = tries - 1)
            BY <1>3, LcrCheckCases
      <2>4. QED BY <2>1, <2>2, <2>3
<1>4. CASE CfgCall
      <2>1. UNCHANGED <<nrx, nspur, tries, nctl, nput>>
            BY <1>4, CtlPutFrame DEF CfgCall, uart
      <2>2. ncfg' \in 0..MaxConfig BY <1>4 DEF CfgCall
      <2>3. QED BY <2>1, <2>2
<1>7. CASE CtlCall
      <2>1. UNCHANGED <<nrx, nspur, tries, ncfg, nput>>
            BY <1>7, CfgPutFrame DEF CtlCall, uart
      <2>2. nctl' \in 0..MaxCtl BY <1>7 DEF CtlCall
      <2>3. QED BY <2>1, <2>2
<1>8. CASE PutcCall
      <2>1. UNCHANGED <<nrx, nspur, tries, ncfg, nctl>>
            BY <1>8, CfgCtlFrame DEF PutcCall, uart
      <2>2. nput' \in 0..MaxPutc BY <1>8 DEF PutcCall
      <2>3. QED BY <2>1, <2>2
<1>5. QED BY <1>1, <1>2, <1>3, <1>4, <1>6, <1>7, <1>8, Frame

LEMMA NextQueues ==
    ASSUME UartConstAssumption, TInv, [Next]_vars
    PROVE  Queues'
<1>0. RxAccounted' /\ nrx' \in 0..MaxRx
      <2>1. RxAccounted' BY NextRxAccounted
      <2>2. Counters' BY NextCounters DEF TInv
      <2>3. QED BY <2>1, <2>2 DEF Counters
<1>t. TypeOK BY DEF TInv
<1>q. Queues BY DEF TInv, TypeOK, Queues
<1> USE UartConstAssumption, <1>q DEF Queues
<1>1. Len(delivered') <= MaxRx BY <1>0 DEF RxAccounted
<1>2. FifoResetTx \in Seq(Byte) BY <1>t, FifoResetTyped
<1>3. CASE CfgFifo
      <2>1. rxq' = <<>> /\ txq' = FifoResetTx BY <1>3 DEF CfgFifo
      <2>2. UNCHANGED <<line, delivered>> BY <1>3 DEF CfgFifo, sys
      <2>3. QED BY <1>1, <1>2, <2>1, <2>2
<1>4. CASE LcrCheck
      <2>1. UNCHANGED <<line, delivered>> BY <1>4, LcrCheckCases DEF uart, sys
      <2>2. CASE cpc' = wRet /\ UNCHANGED <<uart, tries>> BY <2>1, <2>2 DEF uart
      <2>3. CASE rxq' = <<>> /\ txq' = FifoResetTx BY <1>1, <1>2, <2>1, <2>3
      <2>4. QED BY <1>4, <2>2, <2>3, LcrCheckCases
<1>5. CASE Isr
      <2>1. UNCHANGED <<txq, line>> BY <1>5, IsrCases
      <2>2. CASE delivered' = delivered \o rxq /\ rxq' = <<>>
            <3>1. delivered' \in Seq({RxChar}) BY <2>2
            <3>2. QED BY <1>1, <2>1, <2>2, <3>1
      <2>3. CASE UNCHANGED <<delivered, rxq>> BY <1>1, <2>1, <2>3
      <2>4. QED BY <1>5, <2>2, <2>3, IsrCases
<1>6. CASE HwRxEnd
      <2>1. UNCHANGED <<txq, line, delivered>> BY <1>6 DEF HwRxEnd, unchangedSw, sys
      <2>2. CASE Len(rxq) < RxFifo
            <3>1. rxq' = Append(rxq, RxChar) BY <1>6, <2>2 DEF HwRxEnd
            <3>2. QED BY <1>1, <2>1, <2>2, <3>1
      <2>3. CASE ~(Len(rxq) < RxFifo)
            <3>1. rxq' = rxq BY <1>6, <2>3 DEF HwRxEnd
            <3>2. QED BY <1>1, <2>1, <3>1
      <2>4. QED BY <2>2, <2>3
<1>7. CASE HwTx BY <1>1, <1>7 DEF HwTx, unchangedSw, sys
<1>8. CASE CfgDll \/ PutcWrite
      <2>1. /\ CfgDll => WriteOffset0(DivLo(baud))
            /\ PutcWrite => WriteOffset0(TxChar)
            BY DEF CfgDll, PutcWrite
      <2>2. DivLo(baud) \in Nat /\ TxChar \in Nat
            <3>1. baud \in Nat \ {0} BY DEF TInv, TypeOK
            <3>2. DivLo(baud) \in Nat BY <3>1, DivBytes
            <3>3. QED BY <3>2 DEF TxChar
      <2>3. txq' \in Seq(Byte) BY <1>t, <1>8, <2>1, <2>2, Offset0Typed
      <2>4. UNCHANGED <<rxq, line, delivered>>
            BY <1>8 DEF CfgDll, PutcWrite, sys
      <2>5. QED BY <1>1, <2>3, <2>4
<1>9. QED BY <1>3, <1>4, <1>5, <1>6, <1>7, <1>8, Frame

LEMMA NextPcs ==
    ASSUME UartConstAssumption, TypeOK, [Next]_vars
    PROVE  Pcs'
<1>0. Pcs BY DEF TypeOK, Pcs
<1> USE <1>0 DEF Pcs, CfgPC
<1>1. CASE CfgStep
      <2>1. CASE CfgCall
            BY <2>1, CtlPutFrame DEF CfgCall
      <2>2. CASE CfgWaitTemt
            BY <2>2, CtlPutFrame DEF CfgWaitTemt
      <2>3. CASE CfgReadIer
            BY <2>3, CtlPutFrame DEF CfgReadIer
      <2>4. CASE CfgIer0
            BY <2>4, CtlPutFrame DEF CfgIer0
      <2>5. CASE CfgFifo
            BY <2>5, CtlPutFrame DEF CfgFifo
      <2>6. CASE LcrWrite
            BY <2>6, CtlPutFrame DEF LcrWrite
      <2>7. CASE LcrCheck
            BY <2>7, CtlPutFrame DEF LcrCheck
      <2>8. CASE CfgBkse
            BY <2>8, CtlPutFrame DEF CfgBkse
      <2>9. CASE CfgDll
            BY <2>9, CtlPutFrame DEF CfgDll
      <2>10. CASE CfgDlm
            BY <2>10, CtlPutFrame DEF CfgDlm
      <2>11. CASE CfgIerRestore
            BY <2>11, CtlPutFrame DEF CfgIerRestore
      <2>12. QED BY <1>1, <2>1, <2>2, <2>3, <2>4, <2>5, <2>6, <2>7, <2>8,
                    <2>9, <2>10, <2>11 DEF CfgStep
<1>2. CASE CtlStep
      <2>1. CASE CtlCall
            BY <2>1, CfgPutFrame DEF CtlCall
      <2>2. CASE CtlIer
            BY <2>2, CfgPutFrame DEF CtlIer
      <2>3. CASE CtlMask
            BY <2>3, CfgPutFrame DEF CtlMask
      <2>4. QED BY <1>2, <2>1, <2>2, <2>3 DEF CtlStep
<1>3. CASE PutcStep
      <2>1. CASE PutcCall
            BY <2>1, CfgCtlFrame DEF PutcCall
      <2>2. CASE PutcWait
            BY <2>2, CfgCtlFrame DEF PutcWait
      <2>3. CASE PutcWrite
            BY <2>3, CfgCtlFrame DEF PutcWrite
      <2>4. QED BY <1>3, <2>1, <2>2, <2>3 DEF PutcStep
<1>4. CASE Isr
      <2>1. UNCHANGED <<cfgVars, ctlVars, putVars>> BY <1>4, IsrCases
      <2>2. UNCHANGED <<cpc, wRet, baud, tpc, cmd, ppc>>
            BY <2>1 DEF cfgVars, ctlVars, putVars
      <2>3. QED BY <2>2
<1>7. CASE HwStep
      <2>1. CASE HwRxStart
            BY <2>1, SwFrame DEF HwRxStart
      <2>2. CASE HwRxEnd
            BY <2>2, SwFrame DEF HwRxEnd
      <2>3. CASE HwRxTimeout
            BY <2>3, SwFrame DEF HwRxTimeout
      <2>4. CASE HwTx
            BY <2>4, SwFrame DEF HwTx
      <2>5. QED BY <1>7, <2>1, <2>2, <2>3, <2>4 DEF HwStep
<1>5. CASE UNCHANGED vars BY <1>5 DEF vars, cfgVars, ctlVars, putVars
<1>6. QED BY <1>1, <1>2, <1>3, <1>4, <1>5, <1>7 DEF Next

LEMMA NextTInv ==
    ASSUME UartConstAssumption, TInv, [Next]_vars
    PROVE  TInv'
<1>1. TypeOK BY DEF TInv
<1>2. Flags' /\ Regs' /\ Queues' /\ Counters' /\ Pcs'
      BY <1>1, NextFlags, NextRegs, NextQueues, NextCounters, NextPcs
<1>3. RxAccounted' BY NextRxAccounted
<1>4. QED BY <1>2, <1>3 DEF TInv, TypeOK, Flags, Regs, Queues, Counters, Pcs

(* The driver and the UART keep every register, queue, counter and pc in *)
(* its range for every value of the constants: register writes keep the  *)
(* low byte, the RX FIFO never exceeds its depth, and the framework never *)
(* receives more characters than arrived on the line.                      *)
THEOREM UartTypeCorrect == Spec => []TypeOK
<1>1. TInv => TypeOK BY DEF TInv
<1>2. QED BY InitTInv, NextTInv, UartConstAssumption, <1>1, PTL DEF Spec

-----------------------------------------------------------------------------
(* configure() beside control(), putc() and the ISR.                      *)

\* A pending LCR write knows its target from where it returns to: the 8N1
\* write returns to setbrg(), the BKSE write to the DLL write, the last one
\* to the IER restore.
LcrShape ==
    cpc \in {"lcrWrite", "lcrCheck"} =>
        /\ wRet \in {"bkse", "dll", "ierRestore"}
        /\ wTarget = (wRet = "dll")

\* Where DLAB stands along configure() while every LCR write has taken:
\* clear from the call up to the BKSE write and again from the last LCR
\* write on, set from the DLL write to the DLM write.
DlabInv ==
    /\ LcrShape
    /\ ~lcrLost =>
          /\ cpc \in {"idle", "temt", "readIer", "ier0", "fifo", "ierRestore"}
                => ~dlab
          /\ cpc \in {"dll", "dlm"} => dlab

\* The strengthening of IerOnlyRx: the IER value configure() restores was
\* read from IER itself.
IerInv == DlabInv /\ IerOnlyRx /\ (~lcrLost => saved \in {0, 1})

LEMMA InitIerInv == Init => IerInv
BY DEF Init, IerInv, DlabInv, LcrShape, IerOnlyRx

\* The end of an LCR write: it returns where it was called from, and if
\* LCR does not hold the value the history records the loss.
LEMMA LcrReturnKeepsDlab ==
    ASSUME IerInv, LcrCheck, cpc' = wRet,
           lcrLost' = (lcrLost \/ dlab # wTarget),
           UNCHANGED <<dlab, ier, saved, wTarget, wRet>>
    PROVE  IerInv'
<1> USE DEF IerInv, DlabInv, LcrShape, IerOnlyRx
<1>1. cpc = "lcrCheck" BY DEF LcrCheck
<1>2. wRet \in {"bkse", "dll", "ierRestore"} /\ wTarget = (wRet = "dll")
      BY <1>1
<1>3. CASE lcrLost' BY <1>2, <1>3
<1>4. CASE ~lcrLost'
      <2>1. ~lcrLost /\ dlab = wTarget BY <1>4
      <2>2. CASE wRet = "dll" BY <1>2, <2>1, <2>2
      <2>3. CASE wRet # "dll" BY <1>2, <2>1, <2>3
      <2>4. QED BY <2>2, <2>3
<1>5. QED BY <1>3, <1>4

LEMMA NextIerInv ==
    ASSUME IerInv, [Next]_vars
    PROVE  IerInv'
<1> USE DEF IerInv, DlabInv, LcrShape, IerOnlyRx
<1>1. CASE CfgCall BY <1>1 DEF CfgCall, uart
<1>2. CASE CfgWaitTemt BY <1>2 DEF CfgWaitTemt, uart
<1>3. CASE CfgReadIer BY <1>3 DEF CfgReadIer, uart
<1>4. CASE CfgIer0
      <2>1. ~lcrLost => ier' \in {0, 1} BY <1>4, Offset1 DEF CfgIer0
      <2>2. QED BY <1>4, <2>1 DEF CfgIer0
<1>5. CASE CfgFifo BY <1>5 DEF CfgFifo
<1>6. CASE LcrWrite BY <1>6 DEF LcrWrite, WriteLcr
<1>7. CASE LcrCheck
      <2>1. CASE cpc' = wRet /\ lcrLost' = (lcrLost \/ dlab # wTarget)
                 /\ UNCHANGED <<uart, tries>>
            <3>1. UNCHANGED <<dlab, ier, saved, wTarget, wRet>>
                  BY <1>7, <2>1, LcrCheckCases DEF uart
            <3>2. QED BY <1>7, <2>1, <3>1, LcrReturnKeepsDlab
      <2>2. CASE tries > 0 /\ UNCHANGED <<ier, cpc, lcrLost>>
            <3>1. UNCHANGED <<saved, wTarget, wRet>> /\ cpc = "lcrCheck"
                  BY <1>7, LcrCheckCases DEF LcrCheck
            <3>2. QED BY <2>2, <3>1
      <2>3. QED BY <1>7, <2>1, <2>2, LcrCheckCases
<1>8. CASE CfgBkse BY <1>8 DEF CfgBkse, uart
<1>9. CASE CfgDll BY <1>9 DEF CfgDll
<1>10. CASE CfgDlm
      <2>1. ~lcrLost => ier' = ier BY <1>10, Offset1 DEF CfgDlm
      <2>2. QED BY <1>10, <2>1 DEF CfgDlm
<1>11. CASE CfgIerRestore
      <2>1. ~lcrLost => ier' = saved % 256 BY <1>11, Offset1 DEF CfgIerRestore
      <2>2. ~lcrLost => ier' \in {0, 1} BY <2>1
      <2>3. QED BY <1>11, <2>2 DEF CfgIerRestore
<1>12. CASE CtlStep
      <2>1. CASE CtlCall BY <2>1, CfgPutFrame DEF CtlCall, uart
      <2>2. CASE CtlIer
            <3>1. ier' \in {0, 1} \/ ier' = ier BY <2>2, Offset1 DEF CtlIer
            <3>2. QED BY <2>2, <3>1, CfgPutFrame DEF CtlIer
      <2>3. CASE CtlMask BY <2>3, CfgPutFrame DEF CtlMask, uart
      <2>4. QED BY <1>12, <2>1, <2>2, <2>3 DEF CtlStep
<1>13. CASE PutcStep
      <2>1. UNCHANGED <<ier, dlab, cpc, saved, wTarget, wRet, lcrLost>>
            BY <1>13, CfgCtlFrame
               DEF PutcStep, PutcCall, PutcWait, PutcWrite, uart
      <2>2. QED BY <2>1
<1>14. CASE Isr BY <1>14 DEF Isr, cfgVars
<1>15. CASE HwStep
      <2>1. UNCHANGED <<ier, dlab>> BY <1>15 DEF HwStep, HwRxStart, HwRxEnd,
                                                 HwRxTimeout, HwTx
      <2>2. UNCHANGED <<cpc, saved, wTarget, wRet, lcrLost>>
            BY <1>15, SwFrame DEF HwStep, HwRxStart, HwRxEnd, HwRxTimeout, HwTx
      <2>3. QED BY <2>1, <2>2
<1>16. CASE UNCHANGED vars BY <1>16 DEF vars, uart, cfgVars
<1>17. QED
      BY <1>1, <1>2, <1>3, <1>4, <1>5, <1>6, <1>7, <1>8, <1>9, <1>10,
         <1>11, <1>12, <1>13, <1>14, <1>15, <1>16 DEF Next, CfgStep

(* IER only ever enables the RX data interrupt unless an LCR write of     *)
(* configure() has given up, for every value of the constants and any     *)
(* interleaving of configure(), control(), putc() and the ISR:            *)
(* configure() restores the value it read from IER itself, control()      *)
(* writes 0 or UART_IER_RDI, and the divisor's high byte goes to IER only *)
(* when the BKSE write was lost.                                          *)
THEOREM IerOnlyRxHolds == Spec => []IerOnlyRx
<1>1. IerInv => IerOnlyRx BY DEF IerInv
<1>2. QED BY InitIerInv, NextIerInv, <1>1, PTL DEF Spec

-----------------------------------------------------------------------------
(* configure() with no control() call beside it.                          *)

\* The stretch of configure() from the IER write to the BKSE write, where
\* it relies on IER.RDI being clear before it raises DLAB.
RdiClearForBkse ==
    \/ cpc \in {"fifo", "bkse"}
    \/ cpc \in {"lcrWrite", "lcrCheck"} /\ wRet # "ierRestore"

\* The strengthening of NoIsrHang: DLAB is set only while IER.RDI is
\* clear, whether or not the LCR writes took.  Only the BKSE write sets
\* DLAB, and IER = 0 comes before it (or DLAB was set already).
HangInv ==
    /\ LcrShape
    /\ cpc \in CfgPC
    /\ tpc = "idle" /\ nctl \in Nat
    /\ dlab => ier % 2 = 0
    /\ RdiClearForBkse => ier % 2 = 0
    /\ NoIsrHang

\* The ISR's identification is even (an RX cause) only with IER.RDI set.
LEMMA IIREven ==
    ASSUME IIR % 2 = 0
    PROVE  ier % 2 = 1
<1>1. CASE ier % 2 = 1 BY <1>1
<1>2. CASE ier % 2 # 1
      <2>1. IIR \in {IIR_BUSY, IIR_NO_INT} BY <1>2 DEF IIR
      <2>2. QED BY <2>1 DEF IIR_BUSY, IIR_NO_INT
<1>3. QED BY <1>1, <1>2

\* With IER.RDI clear whenever DLAB is set, the ISR returns.
LEMMA IsrReturns ==
    ASSUME HangInv, Isr
    PROVE  ~isrHung' /\ UNCHANGED <<ier, dlab, cfgVars, ctlVars, putVars>>
<1>1. UNCHANGED <<ier, dlab, cfgVars, ctlVars, putVars>> BY DEF Isr
<1>2. ~isrHung BY DEF HangInv, NoIsrHang
<1>3. CASE IIR % 2 = 0
      <2>1. ier % 2 = 1 BY <1>3, IIREven
      <2>2. ~dlab BY <2>1 DEF HangInv
      <2>3. QED BY <1>1, <1>2, <1>3, <2>2 DEF Isr
<1>4. CASE IIR % 2 # 0 BY <1>1, <1>2, <1>4 DEF Isr
<1>5. QED BY <1>3, <1>4

LEMMA InitHangInv == Init => HangInv
BY DEF Init, HangInv, LcrShape, CfgPC, RdiClearForBkse, NoIsrHang

\* An LCR write of DLAB value v leaves DLAB as it was or sets it to v.
LEMMA LcrDlab ==
    ASSUME NEW v, NEW tx, WriteLcr(v, tx)
    PROVE  dlab' \in {dlab, v}
BY DEF WriteLcr

LEMMA NextHangInv ==
    ASSUME MaxCtl = 0, HangInv, [Next]_vars
    PROVE  HangInv'
<1> USE DEF HangInv, LcrShape, RdiClearForBkse, NoIsrHang
<1>1. CASE Isr
      <2>1. ~isrHung' /\ UNCHANGED <<ier, dlab, cfgVars, ctlVars>>
            BY <1>1, IsrReturns
      <2>2. UNCHANGED <<cpc, wRet, wTarget, tpc, nctl>>
            BY <2>1 DEF cfgVars, ctlVars
      <2>3. QED BY <2>1, <2>2
<1>2. CASE CfgIer0
      <2>1. UNCHANGED <<dlab, wRet, wTarget, isrHung, tpc, nctl>> /\ cpc' = "fifo"
            BY <1>2, CtlPutFrame DEF CfgIer0, sys
      <2>2. ier' % 2 = 0 BY <1>2, Offset1 DEF CfgIer0
      <2>3. QED BY <2>1, <2>2 DEF CfgPC
<1>3. CASE CfgFifo
      <2>1. UNCHANGED <<ier, dlab, isrHung, tpc, nctl>> /\ cpc' = "lcrWrite"
            /\ cpc = "fifo" /\ wRet' = "bkse" /\ wTarget' = FALSE
            BY <1>3, CtlPutFrame DEF CfgFifo, uart, sys
      <2>2. QED BY <2>1 DEF CfgPC
<1>4. CASE LcrWrite
      <2>1. UNCHANGED <<ier, wRet, wTarget, isrHung, tpc, nctl>>
            /\ cpc = "lcrWrite" /\ cpc' = "lcrCheck"
            BY <1>4, CtlPutFrame DEF LcrWrite, uart, sys
      <2>2. dlab' \in {dlab, wTarget} BY <1>4, LcrDlab DEF LcrWrite
      <2>3. CASE dlab' = dlab BY <2>1, <2>3 DEF CfgPC
      <2>4. CASE dlab' = wTarget BY <2>1, <2>4 DEF CfgPC
      <2>5. QED BY <2>2, <2>3, <2>4
<1>5. CASE LcrCheck
      <2>1. UNCHANGED <<ier, wTarget, wRet, tpc, nctl, isrHung>> /\ cpc = "lcrCheck"
            BY <1>5, LcrCheckCases, CtlPutFrame DEF LcrCheck, uart, sys
      <2>2. CASE cpc' = wRet /\ UNCHANGED dlab
            BY <2>1, <2>2 DEF CfgPC
      <2>3. CASE WriteLcr(wTarget, FifoResetTx) /\ UNCHANGED cpc
            <3>1. dlab' \in {dlab, wTarget} BY <2>3, LcrDlab
            <3>2. CASE dlab' = dlab BY <2>1, <2>3, <3>2
            <3>3. CASE dlab' = wTarget BY <2>1, <2>3, <3>3
            <3>4. QED BY <3>1, <3>2, <3>3
      <2>4. QED BY <1>5, <2>2, <2>3, LcrCheckCases DEF uart
<1>6. CASE CfgBkse
      <2>1. UNCHANGED <<ier, dlab, isrHung, tpc, nctl>> /\ cpc' = "lcrWrite"
            /\ cpc = "bkse" /\ wRet' = "dll" /\ wTarget' = TRUE
            BY <1>6, CtlPutFrame DEF CfgBkse, uart, sys
      <2>2. QED BY <2>1 DEF CfgPC
<1>7. CASE CfgDlm
      <2>1. UNCHANGED <<dlab, isrHung, tpc, nctl>> /\ cpc' = "lcrWrite"
            /\ wRet' = "ierRestore" /\ wTarget' = FALSE
            BY <1>7, CtlPutFrame DEF CfgDlm, sys
      <2>2. dlab => ier' = ier BY <1>7, Offset1 DEF CfgDlm
      <2>3. QED BY <2>1, <2>2 DEF CfgPC
<1>8. CASE CfgIerRestore
      <2>1. UNCHANGED <<dlab, isrHung, wRet, wTarget, tpc, nctl>> /\ cpc' = "idle"
            BY <1>8, CtlPutFrame DEF CfgIerRestore, sys
      <2>2. dlab => ier' = ier BY <1>8, Offset1 DEF CfgIerRestore
      <2>3. QED BY <2>1, <2>2 DEF CfgPC
<1>9. CASE CfgCall \/ CfgWaitTemt \/ CfgReadIer \/ CfgDll
      <2>1. UNCHANGED <<ier, dlab, wRet, wTarget, isrHung, tpc, nctl>>
            /\ cpc' \in {"temt", "readIer", "ier0", "dlm"}
            BY <1>9, CtlPutFrame DEF CfgCall, CfgWaitTemt, CfgReadIer, CfgDll,
                                     uart, sys
      <2>2. QED BY <2>1 DEF CfgPC
<1>10. CASE CtlStep
      BY <1>10 DEF CtlStep, CtlCall, CtlIer, CtlMask
<1>11. CASE PutcStep
      <2>1. UNCHANGED <<ier, dlab, isrHung>>
            BY <1>11 DEF PutcStep, PutcCall, PutcWait, PutcWrite, uart, sys
      <2>2. UNCHANGED <<cpc, wRet, wTarget, tpc, nctl>>
            BY <1>11, CfgCtlFrame DEF PutcStep, PutcCall, PutcWait, PutcWrite
      <2>3. QED BY <2>1, <2>2
<1>12. CASE HwStep
      <2>1. UNCHANGED <<ier, dlab>>
            BY <1>12 DEF HwStep, HwRxStart, HwRxEnd, HwRxTimeout, HwTx
      <2>2. UNCHANGED <<cpc, wRet, wTarget, tpc, nctl, isrHung>>
            BY <1>12, SwFrame DEF HwStep, HwRxStart, HwRxEnd, HwRxTimeout, HwTx
      <2>3. QED BY <2>1, <2>2
<1>13. CASE UNCHANGED vars BY <1>13 DEF vars, uart, sys, cfgVars, ctlVars
<1>14. QED
      BY <1>1, <1>2, <1>3, <1>4, <1>5, <1>6, <1>7, <1>8, <1>9, <1>10, <1>11,
         <1>12, <1>13 DEF Next, CfgStep

(* rt_hw_uart_isr() always returns when configure() runs with no control()*)
(* call beside it, whether or not the LCR retry loop gives up: configure() *)
(* clears IER before its BKSE write, the only write that sets DLAB, so the *)
(* ISR never meets an RX cause while DLAB is set and its getc() loop reads *)
(* DLL.                                                                    *)
THEOREM IsrAlwaysReturns ==
    ASSUME MaxCtl = 0
    PROVE  Spec => []NoIsrHang
<1>1. HangInv => NoIsrHang BY DEF HangInv
<1>2. QED BY InitHangInv, NextHangInv, <1>1, PTL DEF Spec

-----------------------------------------------------------------------------
(* configure() with neither control() nor putc() beside it.               *)

\* Where configure() has written the divisor: DLL from the DLL write on,
\* DLM from the DLM write on, both until the next call.
DivWritten ==
    \/ cpc = "ierRestore"
    \/ cpc \in {"lcrWrite", "lcrCheck"} /\ wRet = "ierRestore"

\* The strengthening of DivisorProgrammed: while every LCR write has
\* taken, the divisor bytes written so far are those of the rate asked for.
DivInv ==
    /\ IerInv
    /\ tpc = "idle" /\ nctl \in Nat /\ ppc = "idle" /\ nput \in Nat
    /\ baud \in Bauds \cup {OpenBaud}
    /\ ~lcrLost =>
          /\ DivWritten \/ cpc = "dlm" => dll = DivLo(baud)
          /\ DivWritten => dlm = DivHi(baud)
    /\ DivisorProgrammed

LEMMA InitDivInv == Init => DivInv
BY InitIerInv DEF Init, DivInv, DivWritten, DivisorProgrammed

LEMMA NextDivInv ==
    ASSUME UartConstAssumption, MaxCtl = 0, MaxPutc = 0, DivInv, [Next]_vars
    PROVE  DivInv'
<1>1. IerInv' BY NextIerInv DEF DivInv
<1>2. baud \in Nat \ {0} BY UartConstAssumption DEF DivInv
<1>3. /\ DivLo(baud) % 256 = DivLo(baud) /\ DivHi(baud) % 256 = DivHi(baud)
      BY <1>2, DivBytes
<1> USE DEF DivInv, DivWritten, DivisorProgrammed
<1>4. CASE CfgCall
      BY <1>1, <1>4, CtlPutFrame DEF CfgCall
<1>5. CASE CfgWaitTemt \/ CfgReadIer
      <2>1. UNCHANGED <<dll, dlm, baud, ncfg, lcrLost, tpc, nctl, ppc, nput>>
            /\ cpc' \in {"readIer", "ier0"}
            BY <1>5, CtlPutFrame DEF CfgWaitTemt, CfgReadIer, uart
      <2>2. QED BY <1>1, <2>1
<1>16. CASE CfgFifo \/ CfgBkse
      <2>1. UNCHANGED <<dll, dlm, baud, ncfg, lcrLost, tpc, nctl, ppc, nput>>
            /\ cpc' = "lcrWrite" /\ wRet' # "ierRestore"
            BY <1>16, CtlPutFrame DEF CfgFifo, CfgBkse, uart
      <2>2. QED BY <1>1, <2>1
<1>17. CASE LcrWrite
      <2>1. UNCHANGED <<dll, dlm, baud, wRet, ncfg, lcrLost, tpc, nctl, ppc, nput>>
            /\ cpc = "lcrWrite" /\ cpc' = "lcrCheck"
            BY <1>17, CtlPutFrame DEF LcrWrite
      <2>2. QED BY <1>1, <2>1
<1>6. CASE CfgIer0
      <2>1. ~lcrLost => dlm' = dlm BY <1>6 DEF CfgIer0, WriteOffset1,
                                            IerInv, DlabInv
      <2>2. QED BY <1>1, <1>6, <2>1, CtlPutFrame DEF CfgIer0
<1>7. CASE LcrCheck
      <2>1. UNCHANGED <<dll, dlm, baud, wRet, ncfg, tpc, nctl, ppc, nput>>
            BY <1>7, LcrCheckCases, CtlPutFrame DEF uart
      <2>2. CASE cpc' = wRet /\ lcrLost' = (lcrLost \/ dlab # wTarget)
                 /\ UNCHANGED <<uart, tries>>
            <3>1. cpc = "lcrCheck" BY <1>7 DEF LcrCheck
            <3>2. ~lcrLost' => dlab' = wTarget /\ ~lcrLost BY <2>2 DEF uart
            <3>3. QED BY <1>1, <2>1, <2>2, <3>1, <3>2 DEF IerInv, DlabInv, LcrShape
      <2>3. CASE tries > 0 /\ UNCHANGED <<cpc, lcrLost>>
            <3>1. cpc = "lcrCheck" BY <1>7 DEF LcrCheck
            <3>2. QED BY <1>1, <2>1, <2>3, <3>1
      <2>4. QED BY <1>7, <2>2, <2>3, LcrCheckCases
<1>8. CASE CfgDll
      <2>1. ~lcrLost => dlab BY <1>8 DEF CfgDll, IerInv, DlabInv
      <2>2. ~lcrLost => dll' = DivLo(baud) BY <1>3, <1>8, <2>1 DEF CfgDll, WriteOffset0
      <2>3. QED BY <1>1, <1>8, <2>2, CtlPutFrame DEF CfgDll
<1>9. CASE CfgDlm
      <2>1. ~lcrLost => dlab BY <1>9 DEF CfgDlm, IerInv, DlabInv
      <2>2. ~lcrLost => dlm' = DivHi(baud) BY <1>3, <1>9, <2>1 DEF CfgDlm, WriteOffset1
      <2>3. QED BY <1>1, <1>9, <2>2, CtlPutFrame DEF CfgDlm
<1>10. CASE CfgIerRestore
      <2>1. ~lcrLost => ~dlab /\ saved \in {0, 1}
            BY <1>10 DEF CfgIerRestore, IerInv, DlabInv
      <2>2. ~lcrLost => ier' = saved /\ dlm' = dlm
            BY <1>10, <2>1 DEF CfgIerRestore, WriteOffset1
      <2>3. QED BY <1>1, <1>10, <2>1, <2>2, CtlPutFrame DEF CfgIerRestore
<1>11. CASE CtlStep
      BY <1>11, UartConstAssumption DEF CtlStep, CtlCall, CtlIer, CtlMask
<1>12. CASE PutcStep
      BY <1>12, UartConstAssumption DEF PutcStep, PutcCall, PutcWait, PutcWrite
<1>13. CASE Isr
      BY <1>1, <1>13 DEF Isr, cfgVars, ctlVars, putVars
<1>14. CASE HwStep
      <2>1. UNCHANGED <<dll, dlm, ier, dlab>>
            BY <1>14 DEF HwStep, HwRxStart, HwRxEnd, HwRxTimeout, HwTx
      <2>2. UNCHANGED <<cpc, baud, saved, wRet, ncfg, lcrLost, tpc, nctl, ppc, nput>>
            BY <1>14, SwFrame DEF HwStep, HwRxStart, HwRxEnd, HwRxTimeout, HwTx
      <2>3. QED BY <1>1, <2>1, <2>2
<1>15. CASE UNCHANGED vars BY <1>1, <1>15 DEF vars, uart, cfgVars, ctlVars, putVars
<1>18. QED
      BY <1>4, <1>5, <1>6, <1>7, <1>8, <1>9, <1>10, <1>11, <1>12, <1>13,
         <1>14, <1>15, <1>16, <1>17 DEF Next, CfgStep

(* dw8250_uart_configure() does what it is for when nothing else touches  *)
(* the UART's registers while it runs (no control() or putc() call), with *)
(* the ISR and the line running beside it, unless an LCR write gave up:   *)
(* once it has returned, the divisor latch holds                          *)
(* DIV_ROUND_CLOSEST(UART_INPUT_CLK, 16 * baud) for the rate asked for,   *)
(* DLAB is clear and IER holds the value read on entry.                   *)
THEOREM BaudRateProgrammed ==
    ASSUME MaxCtl = 0, MaxPutc = 0
    PROVE  Spec => []DivisorProgrammed
<1>1. DivInv => DivisorProgrammed BY DEF DivInv
<1>2. QED BY InitDivInv, NextDivInv, UartConstAssumption, <1>1, PTL DEF Spec

=============================================================================
