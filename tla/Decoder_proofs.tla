--------------------------- MODULE Decoder_proofs ---------------------------
(***************************************************************************)
(* Proofs about the two threads of the decoder, for every number of         *)
(* channels, every set of layouts and every set of package kinds.           *)
(***************************************************************************)
EXTENDS Decoder, TLAPS

\* The two bits beyond the channels are no channels, and there is a channel 0.
LEMMA Bits == /\ 0 \in Chans /\ Chans \subseteq 0 .. NumChans
              /\ Check \notin Chans /\ Boot \notin Chans /\ Check # Boot
              /\ \A i \in Chans : i + 1 \in 0 .. NumChans
              /\ \A i \in 0 .. NumChans : i # NumChans => i \in Chans
  BY DecoderAssumption DEF Chans, Check, Boot

\* Setting or clearing flags leaves a word of five bits.
LEMMA WordType == /\ ZeroWord \in Word
                  /\ \A w \in Word, x \in BOOLEAN :
                        /\ [w EXCEPT !.pkg = x] \in Word
                        /\ [w EXCEPT !.err = x] \in Word
                        /\ [w EXCEPT !.start = x] \in Word
                        /\ [w EXCEPT !.ref = x] \in Word
                        /\ [w EXCEPT !.wait = x] \in Word
                        /\ [w EXCEPT !.pkg = FALSE, !.ref = FALSE,
                                     !.wait = FALSE, !.start = FALSE] \in Word
  BY DEF Word, ZeroWord

\* The locals of a thread that runs nothing.
LEMMA IdleType == MainIdle \in MainType /\ OsalIdle \in OsalType
  BY Bits, WordType DEF MainIdle, OsalIdle, MainType, OsalType

\* main() starts the threads with nothing armed but OSALSTART of the check.
LEMMA InitInv == Init => Inv
<1> SUFFICES ASSUME Init PROVE Inv
  OBVIOUS
<1>1. TypeOK
  <2>1. [reset |-> {}, left |-> {Boot}]
          \in [reset : SUBSET Chans, left : SUBSET (Chans \cup {Check, Boot})]
    OBVIOUS
  <2>2. m \in MainType /\ o \in OsalType
    BY IdleType DEF Init
  <2> QED BY <2>1, <2>2, WordType, DecoderAssumption DEF Init, TypeOK
<1>2. m.pc = "idle" /\ m.op = "none" /\ o.pc = "sleep" /\ ~o.ld
  BY DEF Init, MainIdle, OsalIdle
<1>3. LockHeld /\ OsalLocals /\ ClearInv /\ ReleaseInv /\ WatchdogInv /\ CutInv
  BY <1>2, Bits DEF Init, ZeroWord, LockHeld, OsalLocals, HandlerPcs, ClearInv, ReleaseInv, WatchdogInv, WatchdogAlive, CutInv
<1> QED BY <1>1, <1>3 DEF Inv

\* What the main thread stores is typed, whatever it does to its flags.
LEMMA MainStep ==
  ASSUME TypeOK, CutInv, Main
  PROVE  TypeOK'
<1> USE DEF sdk, osal, flags, history
<1>0. /\ 0 \in Chans /\ ZeroWord \in Word /\ MainIdle \in MainType
      /\ \A i \in Chans : <<"reset", i>> \in Keys
      /\ m.ch \in Chans /\ m.reg \in Word /\ m.ereg \subseteq Chans
      /\ m.op = "cut" => m.to \in Layouts
  BY Bits, WordType, IdleType DEF TypeOK, MainType, Keys, CutInv
<1>m. /\ \A pc \in FlagPcs : [m EXCEPT !.pc = pc, !.ld = FALSE, !.reg = ZeroWord] \in MainType
      /\ \A pc \in {"wait", "fin"}, b \in BOOLEAN :
           [m EXCEPT !.pc = pc, !.seen = b] \in MainType
  <2>1. m \in MainType
    BY DEF TypeOK
  <2>2. ASSUME NEW pc \in FlagPcs
        PROVE  [m EXCEPT !.pc = pc, !.ld = FALSE, !.reg = ZeroWord] \in MainType
    BY <1>0, <2>1 DEF MainType
  <2>3. ASSUME NEW pc \in {"wait", "fin"}, NEW b \in BOOLEAN
        PROVE  [m EXCEPT !.pc = pc, !.seen = b] \in MainType
    BY <2>1 DEF MainType, FlagPcs
  <2> QED BY <2>2, <2>3
<1>s. ASSUME NEW w \in Word, MainStore(w) \/ UNCHANGED flags
      PROVE  word' \in [Chans -> Word] /\ restored' \in [Chans -> BOOLEAN]
  <2>1. w.ref \in BOOLEAN /\ word[m.ch].ref \in BOOLEAN
    BY <1>0, <1>s DEF TypeOK, Word
  <2>2. (w.ref /\ (restored[m.ch] \/ ~word[m.ch].ref)) \in BOOLEAN
    BY <2>1
  <2>3. CASE MainStore(w)
    BY <1>0, <2>2, <2>3 DEF MainStore, TypeOK
  <2> QED BY <1>s, <2>3 DEF TypeOK
<1>1. CASE MainLoad
  BY <1>0, <1>1 DEF MainLoad, TypeOK, MainType
<1>2. CASE LeaveErr
  <2>1. m' \in MainType
    <3>1. m' = [m EXCEPT !.pc = "start", !.ld = FALSE, !.reg = ZeroWord]
            \/ m' = [m EXCEPT !.pc = "flags", !.ld = FALSE, !.reg = ZeroWord]
      BY <1>2 DEF LeaveErr, MainGoto
    <3> QED BY <1>m, <3>1 DEF FlagPcs
  <2>2. word' \in [Chans -> Word] /\ restored' \in [Chans -> BOOLEAN]
    <3>1. MainStore([m.reg EXCEPT !.err = FALSE]) \/ UNCHANGED flags
      BY <1>2 DEF LeaveErr
    <3>2. [m.reg EXCEPT !.err = FALSE] \in Word
      BY <1>0, WordType
    <3> QED BY <3>1, <3>2, <1>s
  <2> QED BY <1>0, <1>2, <2>1, <2>2 DEF LeaveErr, TypeOK
<1>3. CASE StartRecv
  <2>1. m' \in MainType
    BY <1>0, <1>3 DEF StartRecv, TypeOK, MainType, MainGoto, FlagPcs
  <2>2. word' \in [Chans -> Word] /\ restored' \in [Chans -> BOOLEAN]
    <3>1. MainStore([m.reg EXCEPT !.start = TRUE]) \/ UNCHANGED flags
      BY <1>3 DEF StartRecv
    <3>2. [m.reg EXCEPT !.start = TRUE] \in Word
      BY <1>0, WordType
    <3> QED BY <3>1, <3>2, <1>s
  <2>3. recv' \in [Chans -> BOOLEAN]
    BY <1>0, <1>3 DEF StartRecv, TypeOK
  <2>4. UNCHANGED <<hdr, wnd, pic, left, osal, o, history>>
    BY <1>3 DEF StartRecv
  <2> QED BY <2>1, <2>2, <2>3, <2>4 DEF TypeOK
<1>4. CASE ResetFlags
  <2>1. m' \in MainType
    <3>1. \E pc \in {"clr", "arm"} :
             m' = [m EXCEPT !.pc = pc, !.ld = FALSE, !.reg = ZeroWord]
      BY <1>4 DEF ResetFlags, MainGoto
    <3>2. m \in MainType
      BY DEF TypeOK
    <3> QED BY <1>0, <3>1, <3>2 DEF MainType
  <2>2. word' \in [Chans -> Word] /\ restored' \in [Chans -> BOOLEAN]
    <3>1. MainStore([m.reg EXCEPT !.pkg = FALSE, !.ref = FALSE, !.wait = FALSE,
                                !.start = FALSE])
      BY <1>4 DEF ResetFlags
    <3>2. [m.reg EXCEPT !.pkg = FALSE, !.ref = FALSE, !.wait = FALSE,
                                !.start = FALSE] \in Word
      BY <1>0, WordType
    <3> QED BY <3>1, <3>2, <1>s
  <2> QED BY <1>0, <1>4, <2>1, <2>2 DEF ResetFlags, TypeOK
<1>5. CASE ArmClear
  BY <1>0, <1>5 DEF ArmClear, TypeOK, StartTimer, MainDone
<1>6. CASE ClearLoad
  <2>1. m' \in MainType
    BY <1>0, <1>6 DEF ClearLoad, TypeOK, MainType
  <2> QED BY <1>0, <1>6, <2>1 DEF ClearLoad, TypeOK
<1>7. CASE ClearStore
  <2>1. m' \in MainType /\ wnd' \in Layouts
    <3>1. wnd \in Layouts /\ wnd \in 1 .. NumChans /\ NumChans \in Nat /\ m.ch \in Nat
      BY <1>0, DecoderAssumption DEF TypeOK, Chans
    <3>2. CASE m.op = "data" /\ m.ch >= wnd /\ MainDone /\ UNCHANGED wnd
      BY <1>0, <3>1, <3>2 DEF MainDone
    <3>3. CASE /\ m' = [m EXCEPT !.pc = IF m.kind = "start" THEN "begin" ELSE "unpack",
                                  !.ereg = {}]
               /\ UNCHANGED wnd
      BY <3>1, <3>3 DEF TypeOK, MainType, FlagPcs
    <3>4. CASE m' = [m EXCEPT !.pc = "estop", !.ereg = {}] /\ UNCHANGED wnd
      BY <3>1, <3>4 DEF TypeOK, MainType, FlagPcs
    <3>5. CASE /\ m.ch + 1 < wnd
               /\ m' = [m EXCEPT !.pc = "err", !.ch = m.ch + 1, !.ereg = {}]
               /\ UNCHANGED wnd
      <4>1. m.ch + 1 \in Chans
        BY <3>1, <3>5 DEF Chans
      <4> QED BY <3>1, <3>5, <4>1 DEF TypeOK, MainType, FlagPcs
    <3>6. CASE /\ m.op = "cut"
               /\ m' = [m EXCEPT !.pc = "arm", !.ch = 0, !.ereg = {}]
               /\ wnd' = m.to
      BY <1>0, <3>6 DEF TypeOK, MainType
    <3> QED BY <1>7, <3>2, <3>3, <3>4, <3>5, <3>6 DEF ClearStore, AfterClear
  <2>2. events' \in [reset : SUBSET Chans, left : SUBSET (Chans \cup {Check, Boot})]
    BY <1>0, <1>7 DEF ClearStore, TypeOK
  <2> QED BY <1>0, <1>7, <2>1, <2>2 DEF ClearStore, StopTimer, TypeOK
<1>8. CASE ErrStop
  <2>1. m' \in MainType
    BY <1>0, <1>8 DEF ErrStop, TypeOK, MainType, MainGoto, FlagPcs
  <2>2. word' \in [Chans -> Word] /\ restored' \in [Chans -> BOOLEAN]
    <3>1. MainStore([m.reg EXCEPT !.start = TRUE]) \/ UNCHANGED flags
      BY <1>8 DEF ErrStop
    <3>2. [m.reg EXCEPT !.start = TRUE] \in Word
      BY <1>0, WordType
    <3> QED BY <3>1, <3>2, <1>s
  <2> QED BY <1>0, <1>8, <2>1, <2>2 DEF ErrStop, TypeOK
<1>9. CASE ErrFlags
  <2>2. word' \in [Chans -> Word] /\ restored' \in [Chans -> BOOLEAN]
    <3>1. MainStore([ZeroWord EXCEPT !.err = TRUE])
      BY <1>9 DEF ErrFlags
    <3>2. [ZeroWord EXCEPT !.err = TRUE] \in Word
      BY <1>0, WordType
    <3> QED BY <3>1, <3>2, <1>s
  <2> QED BY <1>0, <1>9, <2>2 DEF ErrFlags, TypeOK, MainDone
<1>10. CASE FrameBegins
  <2>2. word' \in [Chans -> Word] /\ restored' \in [Chans -> BOOLEAN]
    <3>1. MainStore([m.reg EXCEPT !.pkg = TRUE])
      BY <1>10 DEF FrameBegins
    <3>2. [m.reg EXCEPT !.pkg = TRUE] \in Word
      BY <1>0, WordType
    <3> QED BY <3>1, <3>2, <1>s
  <2> QED BY <1>0, <1>10, <2>2 DEF FrameBegins, TypeOK, MainDone
<1>11. CASE FrameGoesOn
  BY <1>0, <1>11 DEF FrameGoesOn, TypeOK, MainDone
<1>12. CASE FrameEnds
  <2>1. m' \in MainType
    BY <1>0, <1>12 DEF FrameEnds, TypeOK, MainType
  <2> QED BY <1>0, <1>12, <2>1 DEF FrameEnds, TypeOK
<1>13. CASE SendFrame
  <2>1. m' \in MainType
    <3> DEFINE refuses == m.kind = "endI" /\ word[m.ch].ref
    <3>1. refuses \in BOOLEAN
      BY <1>0 DEF TypeOK, Word
    <3>2. m' = [m EXCEPT !.pc = "wait", !.seen = refuses]
            \/ m' = [m EXCEPT !.pc = "fin", !.seen = refuses]
      BY <1>13 DEF SendFrame
    <3> HIDE DEF refuses
    <3> QED BY <1>m, <3>1, <3>2
  <2>2. left' \in [Chans -> BOOLEAN] /\ needI' \in [Chans -> BOOLEAN]
    <3>1. CASE MaySend(m.kind, word[m.ch])
      BY <1>0, <1>13, <3>1 DEF SendFrame, TypeOK
    <3>2. CASE ~MaySend(m.kind, word[m.ch])
      <4>1. word[m.ch].ref \in BOOLEAN
        BY <1>0 DEF TypeOK, Word
      <4> QED BY <1>0, <1>13, <3>2, <4>1 DEF SendFrame, TypeOK
    <3> QED BY <3>1, <3>2
  <2> QED BY <1>0, <1>13, <2>1, <2>2 DEF SendFrame, TypeOK
<1>14. CASE SetWait
  <2>1. m' \in MainType
    BY <1>0, <1>14 DEF SetWait, TypeOK, MainType, MainGoto, FlagPcs
  <2>2. word' \in [Chans -> Word] /\ restored' \in [Chans -> BOOLEAN]
    <3>1. CASE UNCHANGED flags
      BY <3>1 DEF TypeOK
    <3>2. CASE MainStore([m.reg EXCEPT !.wait = TRUE])
      BY <1>0, <1>s, <3>2, WordType
    <3>3. CASE MainStore([m.reg EXCEPT !.wait = m.seen])
      <4>1. m.seen \in BOOLEAN
        BY DEF TypeOK, MainType
      <4>2. [m.reg EXCEPT !.wait = m.seen] \in Word
        BY <1>0, <4>1, WordType
      <4> QED BY <1>s, <3>3, <4>2
    <3> QED BY <1>14, <3>1, <3>2, <3>3 DEF SetWait
  <2> QED BY <1>0, <1>14, <2>1, <2>2 DEF SetWait, TypeOK
<1>15. CASE FrameDone
  <2>2. word' \in [Chans -> Word] /\ restored' \in [Chans -> BOOLEAN]
    <3>1. MainStore([m.reg EXCEPT !.pkg = FALSE])
      BY <1>15 DEF FrameDone
    <3>2. [m.reg EXCEPT !.pkg = FALSE] \in Word
      BY <1>0, WordType
    <3> QED BY <3>1, <3>2, <1>s
  <2> QED BY <1>0, <1>15, <2>2 DEF FrameDone, TypeOK, MainDone
<1> QED BY <1>1, <1>2, <1>3, <1>4, <1>5, <1>6, <1>7, <1>8, <1>9, <1>10, <1>11,
           <1>12, <1>13, <1>14, <1>15 DEF Main

\* The packages that arrive find the main thread idle.
LEMMA ArrivalStep ==
  ASSUME TypeOK, Arrival
  PROVE  TypeOK'
<1>0. MainIdle \in MainType
  BY IdleType
<1>1. m' \in MainType
  <2>1. ASSUME NEW i \in Chans, NEW k \in Kinds, RecvData(i, k)
        PROVE  m' \in MainType
    BY <1>0, <2>1 DEF RecvData, MainType, FlagPcs
  <2>2. ASSUME NEW i \in Chans, RecvUpdate(i)
        PROVE  m' \in MainType
    BY <1>0, <2>2 DEF RecvUpdate, MainType, FlagPcs
  <2>3. ASSUME NEW i \in Chans, RecvErr(i)
        PROVE  m' \in MainType
    BY <1>0, <2>3 DEF RecvErr, MainType
  <2>4. ASSUME NEW n \in Layouts, RecvCut(n)
        PROVE  m' \in MainType
    BY <1>0, <2>4 DEF RecvCut, MainType, FlagPcs
  <2> QED BY <2>1, <2>2, <2>3, <2>4 DEF Arrival
<1> QED BY <1>1 DEF Arrival, RecvData, RecvUpdate, RecvCut, RecvErr, TypeOK, sdk, osal, flags, history

\* What the osal thread stores is typed.
LEMMA OsalStep ==
  ASSUME TypeOK, OsalLocals, Osal
  PROVE  TypeOK'
<1> USE DEF sdk, osal, flags, history
<1>0. /\ 0 \in 0 .. NumChans /\ ZeroWord \in Word /\ OsalIdle \in OsalType
      /\ Chans \subseteq 0 .. NumChans
      /\ \A i \in 0 .. NumChans : <<"left", i>> \in Keys
      /\ <<"left", Check>> \in Keys
      /\ o.ch \in 0 .. NumChans /\ o.reg \in Word
      /\ o.cap \subseteq Chans \cup {Check, Boot}
      /\ o.ch \in Chans => o.ch + 1 \in 0 .. NumChans
  BY Bits, WordType, IdleType DEF TypeOK, OsalType, Keys, Check
<1>e. /\ events.reset \subseteq Chans /\ events.left \subseteq Chans \cup {Check, Boot}
      /\ \A e : /\ e \subseteq Chans =>
                     [events EXCEPT !.reset = e]
                       \in [reset : SUBSET Chans, left : SUBSET (Chans \cup {Check, Boot})]
                /\ e \subseteq Chans \cup {Check, Boot} =>
                     [events EXCEPT !.left = e]
                       \in [reset : SUBSET Chans, left : SUBSET (Chans \cup {Check, Boot})]
  BY DEF TypeOK
<1>1. ASSUME NEW expired \in SUBSET pending, TicksUpdate(expired)
      PROVE  TypeOK'
  <2>1. /\ EventsOf("reset", expired) \subseteq Chans
        /\ EventsOf("left", expired) \subseteq Chans \cup {Check}
    BY DEF EventsOf, TypeOK, Keys
  <2>2. o' \in OsalType
    BY <1>1 DEF TicksUpdate, TypeOK, OsalType
  <2>3. events' \in [reset : SUBSET Chans, left : SUBSET (Chans \cup {Check, Boot})]
    BY <1>1, <1>e, <2>1 DEF TicksUpdate, TypeOK
  <2> QED BY <1>1, <2>2, <2>3 DEF TicksUpdate, TypeOK
<1>2. CASE ResetCalled
  <2>1. o' \in OsalType
    BY <1>e, <1>2 DEF ResetCalled, TypeOK, OsalType
  <2> QED BY <1>2, <2>1 DEF ResetCalled, TypeOK
<1>3. CASE ResetReturns
  <2>1. o' \in OsalType /\ o.cap \subseteq Chans
    BY <1>0, <1>3 DEF ResetReturns, OsalType, OsalLocals
  <2> QED BY <1>3, <1>e, <2>1 DEF ResetReturns, TypeOK
<1>4. CASE LeftCalled
  <2>1. o' \in OsalType
    <3>1. CASE o' = OsalIdle
      BY <1>0, <3>1
    <3>2. CASE o' = [OsalIdle EXCEPT !.pc = "boot", !.cap = events.left]
      BY <1>0, <1>e, <3>2 DEF OsalType
    <3>3. CASE o' = [OsalIdle EXCEPT !.pc = "scan", !.cap = events.left]
      BY <1>0, <1>e, <3>3 DEF OsalType
    <3>4. CASE o' = [OsalIdle EXCEPT !.pc = "release", !.cap = events.left]
      BY <1>0, <1>e, <3>4 DEF OsalType
    <3> QED BY <1>4, <3>1, <3>2, <3>3, <3>4 DEF LeftCalled
  <2> QED BY <1>4, <2>1 DEF LeftCalled, TypeOK
<1>5. CASE BootCheck
  <2>1. o' \in OsalType
    BY <1>5 DEF BootCheck, TypeOK, OsalType
  <2> QED BY <1>0, <1>5, <2>1 DEF BootCheck, TypeOK, StartTimer
<1>6. CASE ScanChannel
  <2>1. o' \in OsalType
    BY <1>0, <1>6 DEF ScanChannel, TypeOK, OsalType
  <2>2. hdr' \in [Chans -> BOOLEAN]
    BY <1>6 DEF ScanChannel, TypeOK
  <2>3. UNCHANGED <<flags, wnd, sdk, osal, m, history>>
    BY <1>6 DEF ScanChannel
  <2> QED BY <2>1, <2>2, <2>3 DEF TypeOK
<1>7. CASE ScanDone
  <2>1. o' \in OsalType
    BY <1>0, <1>7 DEF ScanDone, TypeOK, OsalType
  <2> QED BY <1>7, <2>1 DEF ScanDone, TypeOK
<1>8. CASE RefuseLoad
  <2>1. o' \in OsalType
    BY <1>8 DEF RefuseLoad, TypeOK, OsalType, OsalLocals
  <2> QED BY <1>8, <2>1 DEF RefuseLoad, TypeOK
<1>9. CASE Refuse
  <2>1. o' \in OsalType
    BY <1>0, <1>9 DEF Refuse, TypeOK, OsalType
  <2>2. [o.reg EXCEPT !.ref = TRUE] \in Word
    BY <1>0, WordType
  <2> QED BY <1>9, <2>1, <2>2 DEF Refuse, TypeOK
<1>10. CASE HoldRefusal
  <2>1. o' \in OsalType
    BY <1>0, <1>10 DEF HoldRefusal, TypeOK, OsalType, OsalLocals
  <2> QED BY <1>0, <1>10, <2>1 DEF HoldRefusal, TypeOK, StartTimer
<1>11. CASE RearmCheck
  <2>1. o' \in OsalType
    BY <1>11 DEF RearmCheck, TypeOK, OsalType
  <2> QED BY <1>0, <1>11, <2>1 DEF RearmCheck, TypeOK, StartTimer
<1>12. CASE Release
  <2>1. o' \in OsalType
    BY <1>0, <1>12 DEF Release, TypeOK, OsalType
  <2>2. [o.reg EXCEPT !.ref = FALSE] \in Word
    BY <1>0, WordType
  <2> QED BY <1>12, <2>1, <2>2 DEF Release, TypeOK
<1>13. CASE LeftReturns
  <2> QED BY <1>0, <1>13, <1>e DEF LeftReturns, TypeOK
<1>14. ASSUME NEW i \in Chans, ClearScreen(i)
       PROVE  TypeOK'
  <2>1. o' \in OsalType
    BY <1>14 DEF ClearScreen, TypeOK, OsalType
  <2> QED BY <1>14, <2>1 DEF ClearScreen, TypeOK
<1>15. ASSUME NEW i \in Chans, ReleaseLoad(i)
       PROVE  TypeOK'
  <2>1. o' \in OsalType
    BY <1>0, <1>15 DEF ReleaseLoad, TypeOK, OsalType
  <2> QED BY <1>15, <2>1 DEF ReleaseLoad, TypeOK
<1> QED BY <1>1, <1>2, <1>3, <1>4, <1>5, <1>6, <1>7, <1>8, <1>9, <1>10, <1>11,
           <1>12, <1>13, <1>14, <1>15 DEF Osal

\* Every step of either thread and of the hardware keeps the state typed.
LEMMA TypeStep ==
  ASSUME Inv, [Next]_vars
  PROVE  TypeOK'
<1>1. TypeOK /\ CutInv /\ OsalLocals
  BY DEF Inv
<1>2. CASE Main
  BY <1>1, <1>2, MainStep
<1>3. CASE Arrival
  BY <1>1, <1>3, ArrivalStep
<1>4. CASE Osal
  BY <1>1, <1>4, OsalStep
<1>5. CASE \E i \in Chans : Drain(i)
  BY <1>1, <1>5 DEF Drain, TypeOK, osal, flags, history
<1>6. CASE UNCHANGED vars
  BY <1>1, <1>6 DEF vars, TypeOK
<1> QED BY <1>2, <1>3, <1>4, <1>5, <1>6 DEF Next
-----------------------------------------------------------------------------
\* All steps of the main thread but three leave the timers, the events, the
\* lock and the promises about them alone.
Quiet == UNCHANGED <<pending, events, lock, o, asked>>

\* ... and take no lock: all but ArmClear and the two halves of a cancel.
LEMMA MainQuiet ==
  ASSUME TypeOK, Main
  PROVE  \/ ArmClear \/ ClearLoad \/ ClearStore
         \/ Quiet /\ m.pc # "clr2" /\ m'.pc # "clr2"
<1> USE DEF Quiet, osal, history, Loaded, MainGoto, MainDone, MainIdle
<1>0. m \in MainType
  BY DEF TypeOK
<1>1. CASE MainLoad
  BY <1>0, <1>1 DEF MainLoad, FlagPcs, MainType
<1>1a. CASE LeaveErr
  <2>1. \E pc \in {"start", "flags"} :
           m' = [m EXCEPT !.pc = pc, !.ld = FALSE, !.reg = ZeroWord]
    BY <1>1a DEF LeaveErr
  <2>2. m'.pc # "clr2"
    BY <1>0, <2>1 DEF MainType
  <2> QED BY <2>2, <1>1a DEF LeaveErr
<1>1b. CASE StartRecv
  BY <1>0, <1>1b DEF StartRecv, MainType
<1>1c. CASE ResetFlags
  <2>1. \E pc \in {"clr", "arm"} :
           m' = [m EXCEPT !.pc = pc, !.ld = FALSE, !.reg = ZeroWord]
    BY <1>1c DEF ResetFlags
  <2>2. m'.pc # "clr2"
    BY <1>0, <2>1 DEF MainType
  <2> QED BY <2>2, <1>1c DEF ResetFlags
<1>2. CASE ErrStop
  <2>1. m' = [m EXCEPT !.pc = "eflags", !.ld = FALSE, !.reg = ZeroWord]
    BY <1>2 DEF ErrStop
  <2>2. m'.pc # "clr2"
    BY <1>0, <2>1 DEF MainType
  <2> QED BY <2>2, <1>2 DEF ErrStop
<1>2a. CASE ErrFlags
  BY <1>2a DEF ErrFlags
<1>3. CASE FrameBegins \/ FrameGoesOn \/ FrameEnds
  BY <1>0, <1>3 DEF FrameBegins, FrameGoesOn, FrameEnds, MainType
<1>4. CASE SendFrame
  <2>1. \E pc \in {"wait", "fin"}, b \in {m'.seen} :
           m' = [m EXCEPT !.pc = pc, !.seen = b]
    <3>1. m' = [m EXCEPT !.pc = IF m.kind \in {"endI", "endP"} THEN "wait" ELSE "fin",
                         !.seen = m.kind = "endI" /\ word[m.ch].ref]
      BY <1>4 DEF SendFrame
    <3>2. m'.seen = (m.kind = "endI" /\ word[m.ch].ref)
      BY <1>0, <3>1 DEF MainType
    <3> QED BY <3>1, <3>2
  <2>2. m'.pc # "clr2"
    BY <1>0, <2>1 DEF MainType
  <2> QED BY <2>2, <1>4 DEF SendFrame
<1>5. CASE SetWait
  <2>1. m' = [m EXCEPT !.pc = "fin", !.ld = FALSE, !.reg = ZeroWord]
    BY <1>5 DEF SetWait
  <2>2. m'.pc # "clr2"
    BY <1>0, <2>1 DEF MainType
  <2> QED BY <2>2, <1>5 DEF SetWait
<1>6. CASE FrameDone
  BY <1>6 DEF FrameDone
<1> QED BY <1>1, <1>1a, <1>1b, <1>1c, <1>2, <1>2a, <1>3, <1>4, <1>5, <1>6 DEF Main

\* A package that arrives changes the locals of the main thread only.
LEMMA ArrivalQuiet ==
  ASSUME Arrival
  PROVE  Quiet /\ m.pc # "clr2" /\ m'.pc # "clr2"
BY DEF Arrival, RecvData, RecvUpdate, RecvCut, RecvErr, Quiet, osal, history, MainIdle

\* The hardware touches nothing of the two threads.
LEMMA DrainQuiet ==
  ASSUME NEW i \in Chans, Drain(i)
  PROVE  Quiet /\ UNCHANGED m
BY DEF Drain, Quiet, osal, history

\* The fields of the three steps of the main thread that do not leave them.
LEMMA ArmEffect ==
  ASSUME TypeOK, ArmClear
  PROVE  /\ pending' = pending \cup {<<"reset", m.ch>>}
         /\ asked' = [asked EXCEPT ![m.ch] = TRUE]
         /\ UNCHANGED <<events, lock, o>>
         /\ m.pc # "clr2" /\ m'.pc # "clr2" /\ m.ch \in Chans
BY DEF ArmClear, StartTimer, MainDone, MainIdle, TypeOK, MainType

\* The first half of a cancel takes the lock and a copy of eventFlag.
LEMMA ClearLoadEffect ==
  ASSUME TypeOK, ClearLoad
  PROVE  /\ lock = "free" /\ lock' = "main"
         /\ m.pc = "clr" /\ m'.pc = "clr2" /\ m'.ereg = events.reset
         /\ UNCHANGED <<pending, events, o, asked>>
BY DEF ClearLoad, TypeOK, MainType, history

\* The second half gives back the copy without the channel and its timer.
LEMMA ClearStoreEffect ==
  ASSUME TypeOK, ClearStore
  PROVE  /\ lock' = "free" /\ m.pc = "clr2" /\ m'.pc # "clr2"
         /\ events'.reset = m.ereg \ {m.ch} /\ events'.left = events.left
         /\ pending' = pending \ {<<"reset", m.ch>>}
         /\ asked' = [asked EXCEPT ![m.ch] = FALSE]
         /\ UNCHANGED o
<1>1. m'.pc # "clr2"
  <2>1. \/ m' = MainIdle
        \/ \E pc \in {"begin", "unpack", "estop"} :
              m' = [m EXCEPT !.pc = pc, !.ereg = {}]
        \/ m' = [m EXCEPT !.pc = "err", !.ch = m.ch + 1, !.ereg = {}]
        \/ m' = [m EXCEPT !.pc = "arm", !.ch = 0, !.ereg = {}]
    BY DEF ClearStore, AfterClear, MainDone
  <2>2. CASE m' = MainIdle
    BY <2>2 DEF MainIdle
  <2>3. CASE m' # MainIdle
    <3>1. m \in MainType
      BY DEF TypeOK
    <3> QED BY <2>1, <2>3, <3>1 DEF MainType
  <2> QED BY <2>2, <2>3
<1> QED BY <1>1 DEF ClearStore, StopTimer, TypeOK
-----------------------------------------------------------------------------
\* The lock is held only between the halves of osalClearTaskEvent, and no
\* event of dec_reset_handler is added meanwhile.
LEMMA LockStep ==
  ASSUME Inv, [Next]_vars
  PROVE  LockHeld'
<1>0. TypeOK /\ LockHeld /\ OsalLocals
  BY DEF Inv
<1>1. CASE Main
  <2>1. CASE ArmClear
    BY <1>0, <2>1, ArmEffect DEF LockHeld
  <2>2. CASE ClearLoad
    BY <1>0, <2>2, ClearLoadEffect DEF LockHeld
  <2>3. CASE ClearStore
    BY <1>0, <2>3, ClearStoreEffect DEF LockHeld
  <2>4. CASE Quiet /\ m.pc # "clr2" /\ m'.pc # "clr2"
    BY <1>0, <2>4 DEF LockHeld, Quiet
  <2> QED BY <1>0, <1>1, <2>1, <2>2, <2>3, <2>4, MainQuiet
<1>2. CASE Arrival
  BY <1>0, <1>2, ArrivalQuiet DEF LockHeld, Quiet
<1>3. CASE \E i \in Chans : Drain(i)
  BY <1>0, <1>3, DrainQuiet DEF LockHeld, Quiet
<1>4. CASE Osal
  <2>0. UNCHANGED <<m, lock>>
    BY <1>4 DEF Osal, TicksUpdate, ResetCalled, ResetReturns, LeftCalled, BootCheck,
       ScanChannel, ScanDone, RefuseLoad, Refuse, HoldRefusal, RearmCheck,
       Release, LeftReturns, ClearScreen, ReleaseLoad, osal
  <2>1. ASSUME m.pc = "clr2"
        PROVE  events'.reset \subseteq events.reset
    <3>1. lock # "free" /\ events \in [reset : SUBSET Chans, left : SUBSET (Chans \cup {Check, Boot})]
      BY <1>0, <2>1 DEF LockHeld, TypeOK
    <3>2. CASE ResetReturns
      <4>1. o.cap = {}
        BY <1>0, <3>2 DEF ResetReturns, OsalLocals
      <4> QED BY <3>1, <3>2, <4>1 DEF ResetReturns
    <3>3. CASE LeftReturns
      BY <3>1, <3>3 DEF LeftReturns
    <3>4. CASE ~ResetReturns /\ ~LeftReturns
      <4>1. UNCHANGED events
        BY <1>4, <3>1, <3>4 DEF Osal, TicksUpdate, ResetCalled, LeftCalled, BootCheck,
           ScanChannel, ScanDone, RefuseLoad, Refuse, HoldRefusal, RearmCheck,
           Release, ClearScreen, ReleaseLoad, osal
      <4> QED BY <4>1
    <3> QED BY <3>2, <3>3, <3>4
  <2> QED BY <1>0, <2>0, <2>1 DEF LockHeld
<1>5. CASE UNCHANGED vars
  BY <1>0, <1>5 DEF vars, LockHeld
<1> QED BY <1>1, <1>2, <1>3, <1>4, <1>5 DEF Next
-----------------------------------------------------------------------------
\* Whatever the main thread does, the release timers, the check and the
\* locals of the osal thread stay as they are.
LEMMA LeftUntouched ==
  ASSUME TypeOK, Main \/ Arrival \/ (\E i \in Chans : Drain(i)) \/ UNCHANGED vars
  PROVE  /\ UNCHANGED o
         /\ events'.left = events.left
         /\ \A i : <<"left", i>> \in pending => <<"left", i>> \in pending'
<1>1. CASE Quiet \/ UNCHANGED vars
  BY <1>1 DEF Quiet, vars
<1>2. CASE ArmClear
  BY <1>2, ArmEffect
<1>3. CASE ClearLoad
  BY <1>3, ClearLoadEffect
<1>4. CASE ClearStore
  <2>1. \A i : <<"left", i>> # <<"reset", m.ch>>
    OBVIOUS
  <2> QED BY <1>4, <2>1, ClearStoreEffect
<1> QED BY <1>1, <1>2, <1>3, <1>4, MainQuiet, ArrivalQuiet, DrainQuiet

\* A channel that refuses after a step outside the osal thread refused before
\* it, or the step brought the bit back.
RefusalKept ==
  \A i \in Chans : word'[i].ref => restored'[i] \/ (word[i].ref /\ ~restored[i])

\* A store of the main thread keeps to it, whatever it had loaded.
LEMMA StoreKeeps ==
  ASSUME TypeOK, NEW w \in Word, MainStore(w)
  PROVE  RefusalKept
<1>1. /\ word' = [word EXCEPT ![m.ch] = w]
      /\ restored' = [restored EXCEPT ![m.ch] = w.ref /\ (restored[m.ch] \/ ~word[m.ch].ref)]
      /\ word \in [Chans -> Word] /\ restored \in [Chans -> BOOLEAN]
      /\ m.ch \in Chans
  BY DEF MainStore, TypeOK, MainType
<1>2. SUFFICES ASSUME NEW i \in Chans, word'[i].ref
               PROVE  restored'[i] \/ (word[i].ref /\ ~restored[i])
  BY DEF RefusalKept
<1>3. CASE i # m.ch
  BY <1>1, <1>2, <1>3
<1>4. CASE i = m.ch
  <2>1. w.ref
    BY <1>1, <1>2, <1>4
  <2>2. restored'[i] = (restored[i] \/ ~word[i].ref)
    BY <1>1, <1>4, <2>1
  <2> QED BY <2>2
<1> QED BY <1>3, <1>4

\* So do the main thread, the packages that arrive and the hardware.
LEMMA MainKeepsRefusals ==
  ASSUME TypeOK, Main \/ Arrival \/ (\E i \in Chans : Drain(i)) \/ UNCHANGED vars
  PROVE  RefusalKept
<1>0. m.reg \in Word /\ m.seen \in BOOLEAN /\ ZeroWord \in Word
  BY WordType DEF TypeOK, MainType
<1>1. (\E w \in Word : MainStore(w)) \/ UNCHANGED flags
  <2>1. CASE LeaveErr \/ StartRecv \/ ErrStop \/ SetWait
    <3>1. \/ MainStore([m.reg EXCEPT !.err = FALSE])
          \/ MainStore([m.reg EXCEPT !.start = TRUE])
          \/ MainStore([m.reg EXCEPT !.wait = TRUE])
          \/ MainStore([m.reg EXCEPT !.wait = m.seen])
          \/ UNCHANGED flags
      BY <2>1 DEF LeaveErr, StartRecv, ErrStop, SetWait
    <3>2. /\ [m.reg EXCEPT !.err = FALSE] \in Word
          /\ [m.reg EXCEPT !.start = TRUE] \in Word
          /\ [m.reg EXCEPT !.wait = TRUE] \in Word
          /\ [m.reg EXCEPT !.wait = m.seen] \in Word
      BY <1>0, WordType
    <3> QED BY <3>1, <3>2
  <2>2. CASE ResetFlags \/ ErrFlags \/ FrameBegins \/ FrameDone
    <3>1. \/ MainStore([m.reg EXCEPT !.pkg = FALSE, !.ref = FALSE, !.wait = FALSE,
                                     !.start = FALSE])
          \/ MainStore([ZeroWord EXCEPT !.err = TRUE])
          \/ MainStore([m.reg EXCEPT !.pkg = TRUE])
          \/ MainStore([m.reg EXCEPT !.pkg = FALSE])
      BY <2>2 DEF ResetFlags, ErrFlags, FrameBegins, FrameDone
    <3>2. /\ [m.reg EXCEPT !.pkg = FALSE, !.ref = FALSE, !.wait = FALSE,
                           !.start = FALSE] \in Word
          /\ [ZeroWord EXCEPT !.err = TRUE] \in Word
          /\ [m.reg EXCEPT !.pkg = TRUE] \in Word
          /\ [m.reg EXCEPT !.pkg = FALSE] \in Word
      BY <1>0, WordType
    <3> QED BY <3>1, <3>2
  <2>3. CASE UNCHANGED vars
    BY <2>3 DEF vars, flags
  <2> QED BY <2>1, <2>2, <2>3 DEF Main, Arrival, MainLoad, ArmClear, ClearLoad,
             ClearStore, FrameGoesOn, FrameEnds, SendFrame, RecvData, RecvUpdate,
             RecvCut, RecvErr, Drain
<1>2. CASE UNCHANGED flags
  <2>1. word' = word /\ restored' = restored
    BY <1>2 DEF flags
  <2> QED BY <2>1 DEF RefusalKept
<1> QED BY <1>1, <1>2, StoreKeeps

\* So the locals, the releases and the check survive every other step.
LEMMA LeftInvs ==
  ASSUME Inv, Main \/ Arrival \/ (\E i \in Chans : Drain(i)) \/ UNCHANGED vars
  PROVE  OsalLocals' /\ ReleaseInv' /\ WatchdogInv'
<1>1. TypeOK /\ OsalLocals /\ ReleaseInv /\ WatchdogInv
  BY DEF Inv
<1>2. /\ o' = o
      /\ events'.left = events.left
      /\ \A i : <<"left", i>> \in pending => <<"left", i>> \in pending'
      /\ RefusalKept
  BY <1>1, LeftUntouched, MainKeepsRefusals
<1>3. OsalLocals'
  BY <1>1, <1>2 DEF OsalLocals
<1>4. ReleaseInv'
  <2> SUFFICES ASSUME NEW i \in Chans, word'[i].ref
               PROVE  \/ <<"left", i>> \in pending'
                      \/ o'.pc \in HandlerPcs /\ i \in o'.cap
                      \/ o'.pc \notin HandlerPcs /\ i \in events'.left
                      \/ o'.pc = "hold" /\ o'.ch = i
                      \/ restored'[i]
    BY DEF ReleaseInv, HandlerPcs
  <2>1. restored'[i] \/ (word[i].ref /\ ~restored[i])
    BY <1>2 DEF RefusalKept
  <2> QED BY <1>1, <1>2, <2>1 DEF ReleaseInv
<1>5. WatchdogInv'
  BY <1>1, <1>2 DEF WatchdogInv, WatchdogAlive
<1> QED BY <1>3, <1>4, <1>5

\* The main thread cancels the clear of one channel and keeps the others.
LEMMA ClearKept ==
  ASSUME Inv, Main \/ Arrival \/ (\E i \in Chans : Drain(i)) \/ UNCHANGED vars
  PROVE  ClearInv'
<1>1. TypeOK /\ LockHeld /\ ClearInv
  BY DEF Inv
<1>2. CASE Quiet \/ UNCHANGED vars
  BY <1>1, <1>2 DEF Quiet, vars, ClearInv
<1>3. CASE ArmClear
  BY <1>1, <1>3, ArmEffect DEF ClearInv, TypeOK
<1>4. CASE ClearLoad
  BY <1>1, <1>4, ClearLoadEffect DEF ClearInv
<1>5. CASE ClearStore
  <2>1. /\ o' = o
        /\ events.reset \subseteq m.ereg
        /\ events'.reset = m.ereg \ {m.ch}
        /\ pending' = pending \ {<<"reset", m.ch>>}
        /\ asked' = [asked EXCEPT ![m.ch] = FALSE]
        /\ asked \in [Chans -> BOOLEAN] /\ m.ch \in Chans
    BY <1>1, <1>5, ClearStoreEffect DEF LockHeld, TypeOK, MainType
  <2>2. ASSUME NEW i \in Chans, asked'[i]
        PROVE  /\ asked[i] /\ <<"reset", i>> # <<"reset", m.ch>> /\ i # m.ch
    BY <2>1, <2>2
  <2> QED BY <1>1, <2>1, <2>2 DEF ClearInv
<1> QED BY <1>1, <1>2, <1>3, <1>4, <1>5, MainQuiet, ArrivalQuiet, DrainQuiet

\* Every step of the osal thread keeps its locals in order and loses neither
\* a clear, nor a release, nor the check.
LEMMA OsalInvs ==
  ASSUME Inv, Osal
  PROVE  OsalLocals' /\ ClearInv' /\ ReleaseInv' /\ WatchdogInv'
<1> USE DEF sdk, osal, flags, history
<1>0. /\ o \in OsalType /\ OsalLocals /\ ClearInv /\ ReleaseInv /\ WatchdogInv
      /\ events \in [reset : SUBSET Chans, left : SUBSET (Chans \cup {Check, Boot})]
      /\ word \in [Chans -> Word] /\ restored \in [Chans -> BOOLEAN] /\ asked \in [Chans -> BOOLEAN]
  BY DEF Inv, TypeOK
<1>b. Check \notin Chans /\ Boot \notin Chans /\ Check # Boot
  BY Bits
<1>1. ASSUME NEW expired \in SUBSET pending, TicksUpdate(expired)
      PROVE  OsalLocals' /\ ClearInv' /\ ReleaseInv' /\ WatchdogInv'
  <2>1. o.pc = "sleep" /\ o'.pc = "task1" /\ o'.ld = o.ld
    BY <1>0, <1>1 DEF TicksUpdate, OsalType
  <2>2. /\ events'.reset = events.reset \cup EventsOf("reset", expired)
        /\ events'.left = events.left \cup EventsOf("left", expired)
        /\ pending' = pending \ expired
        /\ UNCHANGED <<word, restored, asked>>
    BY <1>0, <1>1 DEF TicksUpdate
  <2>3. \A t, i : <<t, i>> \in expired => i \in EventsOf(t, expired)
    BY DEF EventsOf
  <2>4. OsalLocals'
    BY <1>0, <2>1 DEF OsalLocals, HandlerPcs
  <2>5. ClearInv'
    BY <1>0, <2>1, <2>2, <2>3 DEF ClearInv
  <2>6. ReleaseInv'
    BY <1>0, <2>1, <2>2, <2>3 DEF ReleaseInv, HandlerPcs
  <2>7. WatchdogInv'
    BY <1>0, <2>1, <2>2, <2>3 DEF WatchdogInv, WatchdogAlive
  <2> QED BY <2>4, <2>5, <2>6, <2>7
<1>2. CASE ResetCalled
  <2>1. /\ o.pc = "task1" /\ o'.pc = "clear" /\ o'.cap = events.reset /\ o'.ld = o.ld
        /\ UNCHANGED <<events, pending, word, restored, asked>>
    BY <1>0, <1>2 DEF ResetCalled, OsalType
  <2> QED BY <1>0, <2>1 DEF OsalLocals, HandlerPcs, ClearInv, ReleaseInv, WatchdogInv, WatchdogAlive
<1>3. ASSUME NEW i \in Chans, ClearScreen(i)
      PROVE  OsalLocals' /\ ClearInv' /\ ReleaseInv' /\ WatchdogInv'
  <2>1. /\ o.pc = "clear" /\ o'.pc = "clear" /\ o'.cap = o.cap \ {i} /\ o'.ld = o.ld
        /\ asked' = [asked EXCEPT ![i] = FALSE]
        /\ UNCHANGED <<events, pending, word, restored>>
    BY <1>0, <1>3 DEF ClearScreen, ClearsScreen, OsalType
  <2> QED BY <1>0, <2>1 DEF OsalLocals, HandlerPcs, ClearInv, ReleaseInv, WatchdogInv, WatchdogAlive
<1>4. CASE ResetReturns
  <2>1. /\ o.pc = "clear" /\ o'.pc = "task2" /\ o.cap = {} /\ ~o'.ld
        /\ events'.left = events.left
        /\ UNCHANGED <<pending, word, restored, asked>>
    BY <1>0, <1>4 DEF ResetReturns, OsalLocals, OsalIdle
  <2> QED BY <1>0, <2>1 DEF OsalLocals, HandlerPcs, ClearInv, ReleaseInv, WatchdogInv, WatchdogAlive
<1>5. CASE LeftCalled
  <2>1. /\ o.pc = "task2" /\ o'.pc \in {"sleep", "boot", "scan", "release"}
        /\ o'.pc # "sleep" => o'.cap = events.left
        /\ o'.pc = "sleep" => events.left = {}
        /\ o'.pc = "release" => events.left \subseteq Chans
        /\ ~o'.ld
        /\ UNCHANGED <<events, pending, word, restored, asked>>
    <3>1. CASE events.left = {} /\ o' = OsalIdle
      BY <1>5, <3>1 DEF LeftCalled, OsalIdle
    <3>2. CASE o' = [OsalIdle EXCEPT !.pc = "boot", !.cap = events.left]
      BY <1>5, <3>2 DEF LeftCalled, OsalIdle
    <3>3. CASE o' = [OsalIdle EXCEPT !.pc = "scan", !.cap = events.left]
      BY <1>5, <3>3 DEF LeftCalled, OsalIdle
    <3>4. CASE /\ events.left \subseteq Chans
               /\ o' = [OsalIdle EXCEPT !.pc = "release", !.cap = events.left]
      BY <1>5, <3>4 DEF LeftCalled, OsalIdle
    <3> QED BY <1>5, <3>1, <3>2, <3>3, <3>4 DEF LeftCalled
  <2> QED BY <1>0, <1>b, <2>1 DEF OsalLocals, HandlerPcs, ClearInv, ReleaseInv, WatchdogInv, WatchdogAlive
<1>6. CASE BootCheck
  <2>1. /\ o.pc = "boot" /\ o'.pc \in {"scan", "release"}
        /\ o'.cap = o.cap \ {Boot} /\ o'.ld = o.ld
        /\ pending' = pending \cup {<<"left", Check>>}
        /\ UNCHANGED <<events, word, restored, asked>>
    BY <1>0, <1>6 DEF BootCheck, OsalType, StartTimer
  <2> QED BY <1>0, <1>b, <2>1 DEF OsalLocals, HandlerPcs, ClearInv, ReleaseInv, WatchdogInv, WatchdogAlive
<1>7. CASE ScanChannel
  <2>1. /\ o.pc = "scan" /\ o'.pc \in {"scan", "rearm", "refuse"} /\ o.ch \in Chans
        /\ o'.cap = o.cap /\ o'.ld = o.ld
        /\ o'.pc = "refuse" => o'.ch = o.ch
        /\ UNCHANGED <<events, pending, word, restored, asked>>
    <3>1. \/ o' = [o EXCEPT !.ch = @ + 1]
          \/ o' = [o EXCEPT !.pc = "rearm", !.ch = 0]
          \/ o' = [o EXCEPT !.pc = "refuse"]
      BY <1>7 DEF ScanChannel
    <3>2. o.pc = "scan" /\ o.ch \in Chans /\ UNCHANGED <<events, pending, word, restored, asked>>
      BY <1>7 DEF ScanChannel
    <3> QED BY <1>0, <3>1, <3>2 DEF OsalType
  <2> QED BY <1>0, <2>1 DEF OsalLocals, HandlerPcs, ClearInv, ReleaseInv, WatchdogInv, WatchdogAlive
<1>8. CASE ScanDone
  <2>1. /\ o.pc = "scan" /\ o'.pc = "rearm" /\ o'.cap = o.cap /\ o'.ld = o.ld
        /\ UNCHANGED <<events, pending, word, restored, asked>>
    BY <1>0, <1>8 DEF ScanDone, OsalType
  <2> QED BY <1>0, <2>1 DEF OsalLocals, HandlerPcs, ClearInv, ReleaseInv, WatchdogInv, WatchdogAlive
<1>9. CASE RefuseLoad
  <2>1. /\ o.pc = "refuse" /\ o'.pc = "refuse" /\ o'.cap = o.cap /\ o'.ch = o.ch
        /\ UNCHANGED <<events, pending, word, restored, asked>>
    BY <1>0, <1>9 DEF RefuseLoad, OsalType
  <2> QED BY <1>0, <2>1 DEF OsalLocals, HandlerPcs, ClearInv, ReleaseInv, WatchdogInv, WatchdogAlive
<1>10. CASE Refuse
  <2>1. /\ o.pc = "refuse" /\ o'.pc = "hold" /\ o'.cap = o.cap /\ o'.ch = o.ch /\ ~o'.ld
        /\ o.ch \in Chans
        /\ \A i \in Chans : i # o.ch => word'[i] = word[i] /\ restored'[i] = restored[i]
        /\ UNCHANGED <<events, pending, asked>>
    BY <1>0, <1>10 DEF Refuse, OsalType, OsalLocals
  <2> QED BY <1>0, <2>1 DEF OsalLocals, HandlerPcs, ClearInv, ReleaseInv, WatchdogInv, WatchdogAlive
<1>11. CASE HoldRefusal
  <2>1. /\ o.pc = "hold" /\ o'.pc = "scan" /\ o'.cap = o.cap /\ o'.ld = o.ld
        /\ pending' = pending \cup {<<"left", o.ch>>}
        /\ UNCHANGED <<events, word, restored, asked>>
    BY <1>0, <1>11 DEF HoldRefusal, OsalType, StartTimer
  <2> QED BY <1>0, <2>1 DEF OsalLocals, HandlerPcs, ClearInv, ReleaseInv, WatchdogInv, WatchdogAlive
<1>12. CASE RearmCheck
  <2>1. /\ o.pc = "rearm" /\ o'.pc = "release" /\ o'.cap = o.cap \ {Check}
        /\ o'.ld = o.ld /\ o'.ch = o.ch
        /\ pending' = pending \cup {<<"left", Check>>}
        /\ UNCHANGED <<events, word, restored, asked>>
    BY <1>0, <1>12 DEF RearmCheck, OsalType, StartTimer
  <2> QED BY <1>0, <1>b, <2>1 DEF OsalLocals, HandlerPcs, ClearInv, ReleaseInv, WatchdogInv, WatchdogAlive
<1>13. ASSUME NEW i \in Chans, ReleaseLoad(i)
       PROVE  OsalLocals' /\ ClearInv' /\ ReleaseInv' /\ WatchdogInv'
  <2>1. /\ o.pc = "release" /\ o'.pc = "release" /\ o'.cap = o.cap /\ o'.ch = i
        /\ UNCHANGED <<events, pending, word, restored, asked>>
    BY <1>0, <1>13 DEF ReleaseLoad, OsalType
  <2> QED BY <1>0, <2>1 DEF OsalLocals, HandlerPcs, ClearInv, ReleaseInv, WatchdogInv, WatchdogAlive
<1>14. CASE Release
  <2>1. /\ o.pc = "release" /\ o'.pc = "release" /\ o'.cap = o.cap \ {o.ch} /\ ~o'.ld
        /\ \A i \in Chans : IF i = o.ch THEN ~word'[i].ref
                           ELSE word'[i] = word[i] /\ restored'[i] = restored[i]
        /\ UNCHANGED <<events, pending, asked>>
    BY <1>0, <1>14 DEF Release, OsalType
  <2> QED BY <1>0, <2>1 DEF OsalLocals, HandlerPcs, ClearInv, ReleaseInv, WatchdogInv, WatchdogAlive
<1>15. CASE LeftReturns
  <2>1. /\ o.pc = "release" /\ o'.pc = "sleep" /\ o.cap \cap Chans = {} /\ ~o'.ld
        /\ events'.reset = events.reset
        /\ UNCHANGED <<pending, word, restored, asked>>
    BY <1>0, <1>15 DEF LeftReturns, OsalIdle
  <2> QED BY <1>0, <2>1 DEF OsalLocals, HandlerPcs, ClearInv, ReleaseInv, WatchdogInv, WatchdogAlive
<1> QED BY <1>1, <1>2, <1>3, <1>4, <1>5, <1>6, <1>7, <1>8, <1>9, <1>10, <1>11,
           <1>12, <1>13, <1>14, <1>15 DEF Osal
-----------------------------------------------------------------------------
\* A cut has stopped every channel it has passed.
LEMMA CutStep ==
  ASSUME Inv, [Next]_vars
  PROVE  CutInv'
<1> USE DEF sdk, osal, flags, history
<1>0. /\ m \in MainType /\ CutInv /\ recv \in [Chans -> BOOLEAN]
      /\ m.ch \in Chans /\ m.ch \in Int
  BY DEF Inv, TypeOK, MainType, Chans
<1>1. CASE UNCHANGED <<m, recv>>
  BY <1>0, <1>1 DEF CutInv
<1>2. ASSUME m'.op # "cut"
      PROVE  CutInv'
  BY <1>2 DEF CutInv
<1>3. CASE MainLoad
  <2>1. m' = [m EXCEPT !.ld = TRUE, !.reg = word[m.ch]] /\ UNCHANGED recv
    BY <1>3 DEF MainLoad
  <2>2. m'.op = m.op /\ m'.pc = m.pc /\ m'.ch = m.ch /\ m'.to = m.to
    BY <1>0, <2>1 DEF MainType
  <2> QED BY <1>0, <2>1, <2>2 DEF CutInv
<1>4. CASE LeaveErr
  <2>1. CASE m.op # "cut"
    <3>1. \E pc \in {"start", "flags"} :
             m' = [m EXCEPT !.pc = pc, !.ld = FALSE, !.reg = ZeroWord]
      BY <1>4 DEF LeaveErr, MainGoto
    <3>2. m'.op # "cut"
      BY <1>0, <2>1, <3>1 DEF MainType
    <3> QED BY <1>2, <3>2
  <2>2. CASE m.op = "cut"
    <3>1. /\ m.pc = "err" /\ recv' = [recv EXCEPT ![m.ch] = FALSE]
          /\ m' = [m EXCEPT !.pc = "flags", !.ld = FALSE, !.reg = ZeroWord]
      BY <1>4, <2>2 DEF LeaveErr, MainGoto, Loaded
    <3>2. m'.op = m.op /\ m'.pc = "flags" /\ m'.ch = m.ch /\ m'.to = m.to
      BY <1>0, <3>1 DEF MainType
    <3> QED BY <1>0, <2>2, <3>1, <3>2 DEF CutInv
  <2> QED BY <2>1, <2>2
<1>5. CASE ResetFlags
  <2>1. CASE m.op # "cut"
    <3>1. m' = [m EXCEPT !.pc = "arm", !.ld = FALSE, !.reg = ZeroWord]
      BY <1>5, <2>1 DEF ResetFlags, MainGoto
    <3>2. m'.op # "cut"
      BY <1>0, <2>1, <3>1 DEF MainType
    <3> QED BY <1>2, <3>2
  <2>2. CASE m.op = "cut"
    <3>1. /\ m.pc = "flags" /\ recv' = recv
          /\ m' = [m EXCEPT !.pc = "clr", !.ld = FALSE, !.reg = ZeroWord]
      BY <1>5, <2>2 DEF ResetFlags, MainGoto, Loaded
    <3>2. m'.op = m.op /\ m'.pc = "clr" /\ m'.ch = m.ch /\ m'.to = m.to
      BY <1>0, <3>1 DEF MainType
    <3> QED BY <1>0, <2>2, <3>1, <3>2 DEF CutInv
  <2> QED BY <2>1, <2>2
<1>6. CASE ClearLoad
  <2>1. m' = [m EXCEPT !.pc = "clr2", !.ereg = events.reset] /\ UNCHANGED recv /\ m.pc = "clr"
    BY <1>6 DEF ClearLoad
  <2>2. m'.op = m.op /\ m'.pc = "clr2" /\ m'.ch = m.ch /\ m'.to = m.to
    BY <1>0, <2>1 DEF MainType
  <2> QED BY <1>0, <2>1, <2>2 DEF CutInv
<1>7. CASE ClearStore
  <2>1. CASE m.op # "cut"
    <3>1. \/ m' = MainIdle
          \/ \E pc \in {"begin", "unpack", "estop"} : m' = [m EXCEPT !.pc = pc, !.ereg = {}]
      BY <1>7, <2>1 DEF ClearStore, AfterClear, MainDone
    <3>2. CASE m' = MainIdle
      BY <1>2, <3>2 DEF MainIdle
    <3>3. CASE m' # MainIdle
      <4>1. m'.op # "cut"
        BY <1>0, <2>1, <3>1, <3>3 DEF MainType
      <4> QED BY <1>2, <4>1
    <3> QED BY <3>2, <3>3
  <2>2. CASE m.op = "cut"
    <3>1. /\ m.pc = "clr2" /\ recv' = recv
          /\ \/ m' = [m EXCEPT !.pc = "err", !.ch = m.ch + 1, !.ereg = {}]
             \/ m' = [m EXCEPT !.pc = "arm", !.ch = 0, !.ereg = {}]
      BY <1>7, <2>2 DEF ClearStore, AfterClear
    <3>2. CASE m' = [m EXCEPT !.pc = "err", !.ch = m.ch + 1, !.ereg = {}]
      <4>1. m'.op = m.op /\ m'.pc = "err" /\ m'.ch = m.ch + 1 /\ m'.to = m.to
        BY <1>0, <3>2 DEF MainType
      <4>2. \A i \in Chans : i < m.ch + 1 => i < m.ch \/ i = m.ch
        BY <1>0 DEF Chans
      <4> QED BY <1>0, <2>2, <3>1, <4>1, <4>2 DEF CutInv
    <3>3. CASE m' = [m EXCEPT !.pc = "arm", !.ch = 0, !.ereg = {}]
      <4>1. m'.op = m.op /\ m'.pc = "arm" /\ m'.to = m.to
        BY <1>0, <3>3 DEF MainType
      <4> QED BY <1>0, <2>2, <3>1, <4>1 DEF CutInv
    <3> QED BY <3>1, <3>2, <3>3
  <2> QED BY <2>1, <2>2
<1>8. CASE m' = MainIdle
  BY <1>2, <1>8 DEF MainIdle
<1>9. CASE StartRecv \/ ErrStop \/ FrameEnds \/ SendFrame \/ SetWait
  <2>1. CASE m.op = "cut"
    BY <1>0, <1>9, <2>1 DEF CutInv, StartRecv, ErrStop, FrameEnds, SendFrame, SetWait, Loaded
  <2>2. CASE m.op # "cut"
    <3>1. m'.op = m.op
      <4>1. CASE StartRecv
        BY <1>0, <4>1 DEF StartRecv, MainGoto, MainType
      <4>2. CASE ErrStop
        <5>1. m' = [m EXCEPT !.pc = "eflags", !.ld = FALSE, !.reg = ZeroWord]
          BY <4>2 DEF ErrStop, MainGoto
        <5> QED BY <1>0, <5>1 DEF MainType
      <4>3. CASE FrameEnds
        BY <1>0, <4>3 DEF FrameEnds, MainType
      <4>4. CASE SendFrame
        <5>1. PICK pc \in {"wait", "fin"} : \E b : m' = [m EXCEPT !.pc = pc, !.seen = b]
          BY <4>4 DEF SendFrame
        <5> QED BY <1>0, <5>1 DEF MainType
      <4>5. CASE SetWait
        <5>1. m' = [m EXCEPT !.pc = "fin", !.ld = FALSE, !.reg = ZeroWord]
          BY <4>5 DEF SetWait, MainGoto
        <5> QED BY <1>0, <5>1 DEF MainType
      <4> QED BY <1>9, <4>1, <4>2, <4>3, <4>4, <4>5
    <3> QED BY <1>2, <2>2, <3>1
  <2> QED BY <2>1, <2>2
<1>10. CASE Main
  <2>1. \/ MainLoad \/ LeaveErr \/ ResetFlags \/ ClearLoad \/ ClearStore
        \/ m' = MainIdle \/ StartRecv \/ ErrStop \/ FrameEnds \/ SendFrame \/ SetWait
    BY <1>10 DEF Main, ArmClear, ErrFlags, FrameBegins, FrameGoesOn, FrameDone, MainDone
  <2> QED BY <1>3, <1>4, <1>5, <1>6, <1>7, <1>8, <1>9, <2>1
<1>11. CASE Arrival
  <2>1. ASSUME NEW n \in Layouts, RecvCut(n)
        PROVE  CutInv'
    <3>1. m' = [MainIdle EXCEPT !.pc = "err", !.op = "cut", !.to = n]
      BY <2>1 DEF RecvCut
    <3>2. m'.op = "cut" /\ m'.pc = "err" /\ m'.ch = 0 /\ m'.to = n
      BY <3>1 DEF MainIdle
    <3>3. \A i \in Chans : ~(i < 0)
      BY DecoderAssumption DEF Chans
    <3> QED BY <2>1, <3>2, <3>3 DEF CutInv
  <2>2. ASSUME NEW i \in Chans, NEW k \in Kinds, RecvData(i, k)
        PROVE  CutInv'
    <3>1. m'.op = "data"
      BY <2>2 DEF RecvData, MainIdle
    <3> QED BY <1>2, <3>1
  <2>3. ASSUME NEW i \in Chans, RecvUpdate(i) \/ RecvErr(i)
        PROVE  CutInv'
    <3>1. m'.op \in {"update", "err"}
      BY <2>3 DEF RecvUpdate, RecvErr, MainIdle
    <3> QED BY <1>2, <3>1
  <2> QED BY <1>11, <2>1, <2>2, <2>3 DEF Arrival
<1>12. CASE Osal
  <2>1. UNCHANGED <<m, recv>>
    BY <1>12 DEF Osal, TicksUpdate, ResetCalled, ResetReturns, LeftCalled, BootCheck,
       ScanChannel, ScanDone, RefuseLoad, Refuse, HoldRefusal, RearmCheck,
       Release, LeftReturns, ClearScreen, ReleaseLoad
  <2> QED BY <1>1, <2>1
<1>13. CASE (\E i \in Chans : Drain(i)) \/ UNCHANGED vars
  BY <1>1, <1>13 DEF Drain, vars
<1> QED BY <1>10, <1>11, <1>12, <1>13 DEF Next

\* The invariant is inductive.
LEMMA NextInv == Inv /\ [Next]_vars => Inv'
<1> SUFFICES ASSUME Inv, [Next]_vars PROVE Inv'
  OBVIOUS
<1>1. TypeOK' /\ LockHeld' /\ CutInv'
  BY TypeStep, LockStep, CutStep
<1>2. CASE Osal
  BY <1>1, <1>2, OsalInvs DEF Inv
<1>3. CASE Main \/ Arrival \/ (\E i \in Chans : Drain(i)) \/ UNCHANGED vars
  BY <1>1, <1>3, LeftInvs, ClearKept DEF Inv
<1> QED BY <1>2, <1>3 DEF Next

\* The two threads keep the shared state typed, and every promise below.
THEOREM DecoderInvariant == Spec => []Inv
<1> QED BY InitInv, NextInv, PTL DEF Spec

\* Type correctness.
THEOREM DecoderTypes == Spec => []TypeOK
<1>1. Inv => TypeOK
  BY DEF Inv
<1> QED BY <1>1, DecoderInvariant, PTL

\* No delayed clear of a screen is lost between the two threads.
THEOREM NoClearLost == Spec => []ClearNotLost
<1>1. Inv => ClearNotLost
  BY DEF Inv, ClearInv, ClearNotLost
<1> QED BY <1>1, DecoderInvariant, PTL

\* A channel whose stored bit refuses frames has its release on the way, unless
\* a store of the main thread brought the bit back behind a release.
THEOREM EveryRefusalEnds == Spec => []RefusalEnds
<1>1. Inv => RefusalEnds
  BY DEF Inv, OsalLocals, ReleaseInv, RefusalEnds, ReleasePending
<1> QED BY <1>1, DecoderInvariant, PTL

\* The check for late decoders never dies.
THEOREM CheckNeverDies == Spec => []WatchdogAlive
<1>1. Inv => WatchdogAlive
  BY DEF Inv, WatchdogInv
<1> QED BY <1>1, DecoderInvariant, PTL

\* When the layout changes, every channel of the old one has been stopped.
THEOREM CutStopsAllOld == Spec => CutStopsAll
<1>1. Inv /\ [Next]_vars => [wnd' # wnd => \A i \in Chans : i < wnd => ~recv[i]]_vars
  <2> SUFFICES ASSUME Inv, Next, wnd' # wnd, NEW i \in Chans, i < wnd
               PROVE  ~recv[i]
    OBVIOUS
  <2>1. ClearStore
    BY DEF Next, Main, Arrival, Osal, Drain, MainLoad, LeaveErr, StartRecv, ResetFlags,
       ArmClear, ClearLoad, ErrStop, ErrFlags, FrameBegins, FrameGoesOn, FrameEnds,
       SendFrame, SetWait, FrameDone, RecvData, RecvUpdate, RecvCut, RecvErr,
       TicksUpdate, ResetCalled, ResetReturns, LeftCalled, BootCheck,
       ScanChannel, ScanDone, RefuseLoad, Refuse, HoldRefusal, RearmCheck,
       Release, LeftReturns, ClearScreen, ReleaseLoad
  <2>2. m.op = "cut" /\ m.ch + 1 >= wnd /\ m.pc = "clr2"
    BY <2>1 DEF ClearStore, AfterClear
  <2>3. m.ch \in Int /\ i \in Int /\ wnd \in Int
    BY DecoderAssumption DEF Inv, TypeOK, MainType, Chans
  <2>4. i < m.ch \/ i = m.ch
    BY <2>2, <2>3
  <2> QED BY <2>2, <2>4 DEF Inv, CutInv
<1> QED BY <1>1, DecoderInvariant, PTL DEF Spec, CutStopsAll
=============================================================================
