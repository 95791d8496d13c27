----------------------------- MODULE SpiProofs -----------------------------
(***************************************************************************)
(* Proofs about Spi for every set of rates, widths, frame lengths, modes   *)
(* and message lengths: the type invariant, that a configuration           *)
(* spi_configure() accepts is the one the controller holds, and that every *)
(* transfer runs in the transfer mode of its own message.                  *)
(*                                                                         *)
(* The three together are inductive: each step either leaves the          *)
(* controller and the record of the last call alone, or sets both from the *)
(* same configuration or message.  The one fact about the code itself is  *)
(* ModeBits: the switch of spi_configure() maps every mode to its CPOL and *)
(* CPHA bits.                                                              *)
(***************************************************************************)
EXTENDS Spi, TLAPS

SInv == TypeOK /\ ConfigApplied /\ TranModeMatchesMessage

(* The switch on cfg->mode & RT_SPI_MODE_3 sets CPOL to bit 1 and CPHA to  *)
(* bit 0 of the mode, for each of the four modes.                          *)
LEMMA ModeBits ==
    \A m \in 0..3 : SpiFormat[m] = <<m \div 2, m % 2>>
BY DEF SpiFormat

(* The initial state satisfies SInv.                                      *)
LEMMA InitSInv == Init => SInv
<1> SUFFICES ASSUME Init PROVE SInv
  OBVIOUS
<1>1. xferCfg \in (Rates \cup {0}) \X {0, 1, 2} \X (Formats \cup {<<>>})
  BY DEF Init
<1>2. devCfg \in Cfgs \cup {ZeroCfg} /\ lastOk \in Cfgs \cup {ZeroCfg}
  BY DEF Init
<1>3. pending \in Msgs \cup {NoMsg} /\ lastMsg \in Msgs \cup {NoMsg}
  BY DEF Init
<1>4. fmt \in Formats \cup {<<>>} /\ clk \in Rates \cup {0}
  BY DEF Init
<1>5. calls \in 0..MaxCalls /\ nbytes \in {0, 1, 2}
  BY SpiConstAssumption DEF Init
<1>6. TypeOK
  BY <1>1, <1>2, <1>3, <1>4, <1>5 DEF Init, TypeOK
<1>7. QED
  BY <1>6 DEF Init, SInv, ConfigApplied, TranModeMatchesMessage

(* The fields of a stored or a zeroed configuration.                      *)
LEMMA CfgFields ==
    ASSUME NEW cfg \in Cfgs \cup {ZeroCfg}
    PROVE  /\ cfg.mode \in 0..3
           /\ cfg.hz \in Rates \cup {0}
           /\ cfg.width \in FrameLens => cfg \in Cfgs
<1>1. CASE cfg \in Cfgs
  BY <1>1, SpiConstAssumption DEF Cfgs
<1>2. CASE cfg = ZeroCfg
  BY <1>2, SpiConstAssumption DEF ZeroCfg
<1>3. QED
  BY <1>1, <1>2

(* A successful spi_configure(cfg) leaves the controller holding cfg.      *)
LEMMA ConfigureOkApplied ==
    ASSUME NEW cfg \in Cfgs \cup {ZeroCfg}, ConfigureOk(cfg)
    PROVE  /\ en' /\ ser'
           /\ clk' = cfg.hz
           /\ nbytes' = NBytes(cfg.width)
           /\ fmt' = <<cfg.mode \div 2, cfg.mode % 2>>
<1>1. cfg.mode \in 0..3
  BY CfgFields
<1>2. QED
  BY <1>1, ModeBits DEF ConfigureOk

(* What a call of spi_configure(cfg) leaves behind: the types kept, and   *)
(* RT_EOK only from the full path, which a zeroed configuration (data      *)
(* width 0) never reaches.                                                *)
ConfigureOutcome(cfg) ==
    /\ en' \in BOOLEAN /\ ser' \in BOOLEAN /\ csLow' \in BOOLEAN
    /\ clk' \in Rates \cup {0}
    /\ nbytes' \in {0, 1, 2}
    /\ fmt' \in Formats \cup {<<>>}
    /\ ret' \in {"ok", "einval", "error"}
    /\ ret' = "ok" => ConfigureOk(cfg) /\ cfg \in Cfgs
    /\ UNCHANGED <<tmod, txp, rxp, xferCfg>>

(* spi_configure(cfg), for a stored or a zeroed configuration, has that    *)
(* outcome.                                                               *)
LEMMA ConfigureTyped ==
    ASSUME TypeOK, NEW cfg \in Cfgs \cup {ZeroCfg}, SpiConfigure(cfg)
    PROVE  ConfigureOutcome(cfg)
<1> USE DEF ConfigureOutcome
<1>1. cfg.mode \in 0..3 /\ cfg.hz \in Rates \cup {0}
  BY CfgFields
<1>2. SpiFormat[cfg.mode] \in Formats
  BY <1>1 DEF SpiFormat, Formats
<1>3. ConfigureOk(cfg) => cfg \in Cfgs
  BY CfgFields DEF ConfigureOk
<1>4. CASE cfg.slave /\ ret' = "einval" /\ UNCHANGED <<en, ser, clk, nbytes, fmt>>
  BY <1>4 DEF SpiConfigure, TypeOK
<1>5. CASE /\ cfg.width \notin FrameLens
           /\ clk' = cfg.hz
           /\ en' = FALSE /\ ser' = FALSE
           /\ ret' = "error"
           /\ UNCHANGED <<nbytes, fmt>>
  BY <1>1, <1>5 DEF SpiConfigure, TypeOK
<1>6. CASE ConfigureOk(cfg)
  BY <1>1, <1>2, <1>3, <1>6 DEF SpiConfigure, ConfigureOk, NBytes
<1>7. QED
  BY <1>4, <1>5, <1>6 DEF SpiConfigure

(* Every step preserves SInv.                                             *)
LEMMA NextSInv == SInv /\ [Next]_vars => SInv'
<1> SUFFICES ASSUME SInv, [Next]_vars PROVE SInv'
  OBVIOUS
<1>1. ASSUME NEW cfg \in Cfgs, CoreConfigure(cfg)
      PROVE  SInv'
  <2>1. CASE /\ owner /\ SpiConfigure(cfg) /\ lastOp' = "configure"
             /\ lastOk' = IF ret' = "ok" THEN cfg ELSE lastOk
    <3>1. ConfigureOutcome(cfg)
      BY <2>1, ConfigureTyped DEF SInv
    <3>2. TypeOK'
      BY <1>1, <2>1, <3>1, SpiConstAssumption
      DEF CoreConfigure, SInv, TypeOK, ConfigureOutcome
    <3>3. ConfigApplied'
      <4>1. ConfigureOk(cfg) => ConfigApplied'
        BY <2>1, ConfigureOkApplied DEF ConfigApplied
      <4>2. QED
        BY <2>1, <3>1, <4>1 DEF ConfigApplied, ConfigureOutcome
    <3>4. TranModeMatchesMessage'
      BY <2>1 DEF TranModeMatchesMessage
    <3>5. QED
      BY <3>2, <3>3, <3>4 DEF SInv
  <2>2. CASE ~owner /\ UNCHANGED <<hw, ret, xferCfg, lastOp, lastOk>>
    BY <1>1, <2>2, SpiConstAssumption
    DEF CoreConfigure, SInv, TypeOK, ConfigApplied, TranModeMatchesMessage, hw
  <2>3. QED
    BY <1>1, <2>1, <2>2 DEF CoreConfigure
<1>2. ASSUME NEW msg \in Msgs, CoreTransfer(msg)
      PROVE  SInv'
  <2>1. CASE owner /\ pending' = msg
             /\ UNCHANGED <<hw, ret, xferCfg, owner, lastOp, lastOk>>
    BY <1>2, <2>1, SpiConstAssumption
    DEF CoreTransfer, SInv, TypeOK, ConfigApplied, TranModeMatchesMessage, hw
  <2>2. CASE /\ ~owner /\ SpiConfigure(devCfg)
             /\ owner' = (ret' = "ok")
             /\ pending' = IF ret' = "ok" THEN msg ELSE NoMsg
             /\ lastOp' = IF ret' = "ok" THEN "configure" ELSE "eio"
             /\ lastOk' = IF ret' = "ok" THEN devCfg ELSE lastOk
    <3>1. devCfg \in Cfgs \cup {ZeroCfg}
      BY DEF SInv, TypeOK
    <3>2. ConfigureOutcome(devCfg)
      BY <2>2, <3>1, ConfigureTyped DEF SInv
    <3>3. TypeOK'
      <4>1. /\ en' \in BOOLEAN /\ ser' \in BOOLEAN /\ csLow' \in BOOLEAN
            /\ clk' \in Rates \cup {0} /\ nbytes' \in {0, 1, 2}
            /\ fmt' \in Formats \cup {<<>>}
            /\ ret' \in {"none", "ok", "einval", "error"}
            /\ UNCHANGED <<tmod, txp, rxp, xferCfg>>
        BY <3>2 DEF ConfigureOutcome
      <4>2. /\ owner' = (ret' = "ok")
            /\ pending' = IF ret' = "ok" THEN msg ELSE NoMsg
            /\ lastOp' = IF ret' = "ok" THEN "configure" ELSE "eio"
            /\ lastOk' = IF ret' = "ok" THEN devCfg ELSE lastOk
        BY <2>2
      <4>3. /\ owner' \in BOOLEAN
            /\ lastOp' \in {"none", "configure", "xfer", "eio"}
            /\ pending' \in Msgs \cup {NoMsg}
        BY <4>2
      <4>4. lastOk' \in Cfgs \cup {ZeroCfg}
        BY <4>2, <3>2 DEF SInv, TypeOK, ConfigureOutcome
      <4>5. calls' \in 0..MaxCalls /\ UNCHANGED <<devCfg, lastMsg>>
        BY <1>2, SpiConstAssumption DEF CoreTransfer, SInv, TypeOK
      <4>6. QED
        BY <4>1, <4>3, <4>4, <4>5 DEF SInv, TypeOK
    <3>4. ConfigApplied'
      <4>1. ASSUME ConfigureOk(devCfg) PROVE ConfigApplied'
        <5>1. /\ en' /\ ser'
              /\ clk' = devCfg.hz
              /\ nbytes' = NBytes(devCfg.width)
              /\ fmt' = <<devCfg.mode \div 2, devCfg.mode % 2>>
          BY <3>1, <4>1, ConfigureOkApplied
        <5>2. ret' = "ok"
          BY <4>1 DEF ConfigureOk
        <5>3. lastOp' = "configure" /\ lastOk' = devCfg
          BY <2>2, <5>2
        <5>4. QED
          BY <5>1, <5>2, <5>3 DEF ConfigApplied
      <4>2. QED
        BY <2>2, <3>2, <4>1 DEF ConfigApplied, ConfigureOutcome
    <3>5. TranModeMatchesMessage'
      BY <2>2 DEF TranModeMatchesMessage
    <3>6. QED
      BY <3>3, <3>4, <3>5 DEF SInv
  <2>3. QED
    BY <1>2, <2>1, <2>2 DEF CoreTransfer
<1>3. CASE SpiXfer
  <2>1. CASE (pending.tx \/ pending.rx) /\ TransferOne(pending)
    BY <1>3, <2>1
    DEF SpiXfer, TransferOne, SInv, TypeOK, ConfigApplied,
        TranModeMatchesMessage, TMode, Msgs, NoMsg
  <2>2. CASE ~pending.tx /\ ~pending.rx
             /\ UNCHANGED <<en, ser, tmod, txp, rxp, xferCfg, ret>>
    BY <1>3, <2>2
    DEF SpiXfer, SInv, TypeOK, ConfigApplied, TranModeMatchesMessage,
        Msgs, NoMsg
  <2>3. QED
    BY <1>3, <2>1, <2>2 DEF SpiXfer
<1>4. CASE UNCHANGED vars
  BY <1>4 DEF vars, hw, core, SInv, TypeOK, ConfigApplied,
     TranModeMatchesMessage
<1>5. QED
  BY <1>1, <1>2, <1>3, <1>4 DEF Next

\* SInv holds in every state of every run.
LEMMA AlwaysSInv == Spec => []SInv
BY InitSInv, NextSInv, PTL DEF Spec

(* The driver keeps the controller's registers, the transfer mode and the *)
(* record of the last call within their types whatever configuration or   *)
(* message the callers pass, the zeroed one a device starts with included.*)
THEOREM SpiTypeCorrect == Spec => []TypeOK
BY AlwaysSInv, PTL DEF SInv

(* In every run, whatever the callers pass, a configuration the driver     *)
(* accepted is the one the controller holds when spi_configure() returns.  *)
THEOREM ConfigurationApplied == Spec => []ConfigApplied
BY AlwaysSInv, PTL DEF SInv

(* In every run, each transfer runs in the transfer mode of its own       *)
(* message: dw_spi_transfer_one() never keeps a previous message's        *)
(* buffer pointer.                                                        *)
THEOREM TransferModeCorrect == Spec => []TranModeMatchesMessage
BY AlwaysSInv, PTL DEF SInv

=============================================================================
