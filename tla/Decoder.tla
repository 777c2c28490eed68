------------------------------ MODULE Decoder ------------------------------
(***************************************************************************)
(* The two threads of the decoder process and the state they share.         *)
(*                                                                          *)
(* The main thread takes packages from the socket and runs pkgProcess:      *)
(* stream data, a change of the source of a channel ("update"), a new       *)
(* window layout ("cut"), a lost camera ("err").  The osal thread runs      *)
(* osalRunSystem every 100 ms: it turns expired timers into task events and *)
(* calls dec_reset_handler (clears the screen of a channel that got no      *)
(* picture) and check_left_freams (makes a channel whose decoder is behind  *)
(* refuse frames for 2.2 s).                                                *)
(*                                                                          *)
(* Only the timer list is protected by osalEnv->lock.  The five flags of a  *)
(* channel are bit-fields of one word (struct decoder_st), so setting one   *)
(* of them is a load of the word and a store of the word, and a store of    *)
(* one thread between the two of the other is lost; eventFlag is read       *)
(* before a handler runs and written when it returns.  Both are modelled as *)
(* the two steps they are.                                                  *)
(*                                                                          *)
(* H.264 streams (dec_type 0).  A timer may expire in any round of the osal *)
(* thread after it was started: durations are not modelled.                 *)
(***************************************************************************)
EXTENDS Integers, FiniteSets

CONSTANTS NumChans,        \* CHNS, 16 in decoder.h
          Layouts,         \* numbers of windows a layout may have
          FirstLayout,     \* 4 in pkgProcess
          Packages         \* kinds of packages that arrive

Kinds == {"start", "mid", "endI", "endP", "singleP", "single"}
Commands == {"update", "cut", "err"}

ASSUME DecoderAssumption == /\ NumChans \in Nat \ {0}
                            /\ Layouts \subseteq 1 .. NumChans
                            /\ FirstLayout \in Layouts
                            /\ Packages \subseteq Kinds \cup Commands

Chans == 0 .. NumChans - 1
Check == NumChans                     \* OSAL_CHECK; event i is bit i
Boot == NumChans + 1                  \* OSALSTART of check_left_freams
Keys == ({"reset"} \X Chans) \cup ({"left"} \X (Chans \cup {Check}))

Word == [pkg : BOOLEAN, err : BOOLEAN, start : BOOLEAN, ref : BOOLEAN,
         wait : BOOLEAN]
ZeroWord == [pkg |-> FALSE, err |-> FALSE, start |-> FALSE, ref |-> FALSE,
             wait |-> FALSE]

VARIABLES
  \* struct decoder_st and the static u32WndNum of pkgProcess
  word,      \* the bit-fields PKG_STARTED, err, startRcv, refused, waitIfream
  hdr,       \* the reassembly buffer holds the start of a fragmented frame
  wnd,       \* u32WndNum
  \* the SDK's side of a channel
  recv,      \* StartRecvStream called last (not StopRecvStream)
  pic,       \* the "no video" picture is shown instead of the stream
  left,      \* more than 50 frames wait in the decoder
  \* osal
  pending,   \* the timers in timerList, by task and event
  events,    \* eventFlag of the two tasks
  lock,      \* osalEnv->lock: "free" or its holder
  \* program counters and locals of the two threads
  m, o,
  \* history
  restored,  \* refused stands because a store of the main thread undid a release
  asked,     \* a delayed clear of the screen was asked for and not cancelled
  needI      \* a finished frame was dropped and no I frame was sent since

vars == <<word, hdr, wnd, recv, pic, left, pending, events, lock, m, o,
          restored, asked, needI>>

sdk == <<recv, pic, left>>
osal == <<pending, events, lock>>
flags == <<word, restored>>
history == <<asked, needI>>

MainIdle == [pc |-> "idle", op |-> "none", ch |-> 0, kind |-> "none",
             ld |-> FALSE, reg |-> ZeroWord, ereg |-> {}, seen |-> FALSE, to |-> 0]
OsalIdle == [pc |-> "sleep", ch |-> 0, cap |-> {}, ld |-> FALSE, reg |-> ZeroWord]

Init == /\ word = [i \in Chans |-> ZeroWord]
        /\ hdr = [i \in Chans |-> FALSE]
        /\ wnd = FirstLayout
        /\ recv = [i \in Chans |-> TRUE]
        /\ pic = [i \in Chans |-> FALSE]
        /\ left = [i \in Chans |-> FALSE]
        /\ pending = {}
        /\ events = [reset |-> {}, left |-> {Boot}]
        /\ lock = "free"
        /\ m = MainIdle
        /\ o = OsalIdle
        /\ restored = [i \in Chans |-> FALSE]
        /\ asked = [i \in Chans |-> FALSE]
        /\ needI = [i \in Chans |-> FALSE]
-----------------------------------------------------------------------------
(* Timers (timers.c, under the lock): start or refresh, and stop.           *)

StartTimer(k) == pending' = pending \cup {k}
StopTimer(k) == pending' = pending \ {k}
-----------------------------------------------------------------------------
(* The main thread: pkgProcess on one package.                              *)

\* Program counters at which a flag of channel m.ch is read and set.
FlagPcs == {"err", "start", "begin", "wait", "fin", "flags", "estop", "eflags"}

MainLoad == /\ m.pc \in FlagPcs
            /\ ~m.ld
            /\ m' = [m EXCEPT !.ld = TRUE, !.reg = word[m.ch]]
            /\ UNCHANGED <<flags, hdr, wnd, sdk, osal, o, history>>

\* The main thread is at pc, with the word loaded.
Loaded(pc) == m.pc = pc /\ m.ld

\* The whole word is stored, with what it was when it was loaded: a release in
\* between is undone (restored).
MainStore(w) ==
  /\ word' = [word EXCEPT ![m.ch] = w]
  /\ restored' = [restored EXCEPT ![m.ch] = w.ref /\ (@ \/ ~word[m.ch].ref)]
MainGoto(pc) == m' = [m EXCEPT !.pc = pc, !.ld = FALSE, !.reg = ZeroWord]
MainDone == m' = MainIdle

RecvData(i, k) ==
  /\ m.pc = "idle"
  /\ m' = [MainIdle EXCEPT !.pc = "err", !.op = "data", !.ch = i, !.kind = k]
  /\ UNCHANGED <<flags, hdr, wnd, sdk, osal, o, history>>

\* cmd 88, same layout, update set.
RecvUpdate(i) ==
  /\ m.pc = "idle"
  /\ m' = [MainIdle EXCEPT !.pc = "err", !.op = "update", !.ch = i]
  /\ UNCHANGED <<flags, hdr, wnd, sdk, osal, o, history>>

\* cmd 88, another layout.
RecvCut(n) ==
  /\ m.pc = "idle"
  /\ n # wnd
  /\ m' = [MainIdle EXCEPT !.pc = "err", !.op = "cut", !.to = n]
  /\ UNCHANGED <<flags, hdr, wnd, sdk, osal, o, history>>

\* cmd 89: ignored while the channel is in error already.
RecvErr(i) ==
  /\ m.pc = "idle"
  /\ ~word[i].err
  /\ m' = [MainIdle EXCEPT !.pc = "clr", !.op = "err", !.ch = i]
  /\ UNCHANGED <<flags, hdr, wnd, sdk, osal, o, history>>

\* Leave the error state: DisableUserPic and err = 0; a cut stops the stream
\* first, data resets the channel.
LeaveErr ==
  /\ Loaded("err")
  /\ IF m.reg.err
     THEN /\ MainStore([m.reg EXCEPT !.err = FALSE])
          /\ pic' = [pic EXCEPT ![m.ch] = FALSE]
     ELSE UNCHANGED <<flags, pic>>
  /\ recv' = IF m.op = "cut" THEN [recv EXCEPT ![m.ch] = FALSE] ELSE recv
  /\ left' = IF m.op = "data" /\ m.reg.err
             THEN [left EXCEPT ![m.ch] = FALSE] ELSE left
  /\ MainGoto(IF m.op = "data" THEN "start" ELSE "flags")
  /\ UNCHANGED <<hdr, wnd, osal, o, history>>

\* StartRecvStream when the channel is not started; it may fail.
StartRecv ==
  /\ Loaded("start")
  /\ \/ m.reg.start /\ UNCHANGED <<flags, recv>>
     \/ ~m.reg.start /\ UNCHANGED <<flags, recv>>
     \/ /\ ~m.reg.start
        /\ MainStore([m.reg EXCEPT !.start = TRUE])
        /\ recv' = [recv EXCEPT ![m.ch] = TRUE]
  /\ MainGoto("clr")
  /\ UNCHANGED <<hdr, wnd, pic, left, osal, o, history>>

\* The common reset of a channel (update, cut): buffer, flags, ResetChn; an
\* update stops the stream here.
ResetFlags ==
  /\ Loaded("flags")
  /\ MainStore([m.reg EXCEPT !.pkg = FALSE, !.ref = FALSE, !.wait = FALSE,
                             !.start = FALSE])
  /\ hdr' = [hdr EXCEPT ![m.ch] = FALSE]
  /\ recv' = IF m.op = "update" THEN [recv EXCEPT ![m.ch] = FALSE] ELSE recv
  /\ left' = [left EXCEPT ![m.ch] = FALSE]
  /\ needI' = [needI EXCEPT ![m.ch] = FALSE]
  /\ MainGoto(IF m.op = "cut" THEN "clr" ELSE "arm")
  /\ UNCHANGED <<wnd, pic, osal, o, asked>>

\* osalStartTimerEx(1, 1 << ch, 300): the delayed clear of the screen.
ArmClear ==
  /\ m.pc = "arm"
  /\ lock = "free"
  /\ StartTimer(<<"reset", m.ch>>)
  /\ asked' = [asked EXCEPT ![m.ch] = TRUE]
  /\ MainDone
  /\ UNCHANGED <<flags, hdr, wnd, sdk, events, lock, o, needI>>

\* osalClearTaskEvent(1, 1 << ch), first half: the lock is taken and
\* eventFlag read.
ClearLoad ==
  /\ m.pc = "clr"
  /\ lock = "free"
  /\ lock' = "main"
  /\ m' = [m EXCEPT !.pc = "clr2", !.ereg = events.reset]
  /\ UNCHANGED <<flags, hdr, wnd, sdk, pending, events, o, history>>

\* The cut counts the windows of the new layout.
AfterClearNewLayout ==
  \/ /\ m.op = "cut" /\ m.ch + 1 < m.to
     /\ m' = [m EXCEPT !.pc = "err", !.ch = m.ch + 1, !.ereg = {}]
     /\ UNCHANGED wnd
  \/ /\ m.op = "cut" /\ m.ch + 1 >= m.to
     /\ m' = [m EXCEPT !.pc = "arm", !.ch = 0, !.ereg = {}]
     /\ wnd' = m.to

\* What follows the cancelled clear: nothing for data of a channel that has
\* no window, else the rest of the package; a cut goes to its next channel.
AfterClear ==
  \/ m.op = "data" /\ m.ch >= wnd /\ MainDone /\ UNCHANGED wnd
  \/ /\ m.op = "data" /\ m.ch < wnd
     /\ m' = [m EXCEPT !.pc = IF m.kind = "start" THEN "begin" ELSE "unpack",
                       !.ereg = {}]
     /\ UNCHANGED wnd
  \/ /\ m.op = "err"
     /\ m' = [m EXCEPT !.pc = "estop", !.ereg = {}]
     /\ UNCHANGED wnd
  \/ /\ m.op = "cut" /\ m.ch + 1 < wnd
     /\ m' = [m EXCEPT !.pc = "err", !.ch = m.ch + 1, !.ereg = {}]
     /\ UNCHANGED wnd
  \/ /\ m.op = "cut" /\ m.ch + 1 >= wnd
     /\ m' = [m EXCEPT !.pc = "arm", !.ch = 0, !.ereg = {}]
     /\ wnd' = m.to

\* All the events of the task are cleared.
ClearStoreAll ==
  /\ m.pc = "clr2"
  /\ events' = [events EXCEPT !.reset = {}]
  /\ StopTimer(<<"reset", m.ch>>)
  /\ lock' = "free"
  /\ asked' = [asked EXCEPT ![m.ch] = FALSE]
  /\ AfterClear
  /\ UNCHANGED <<flags, hdr, sdk, o, needI>>

\* The timer of the other task is stopped.
ClearStoreTask2 ==
  /\ m.pc = "clr2"
  /\ events' = [events EXCEPT !.reset = m.ereg \ {m.ch}]
  /\ StopTimer(<<"left", m.ch>>)
  /\ lock' = "free"
  /\ asked' = [asked EXCEPT ![m.ch] = FALSE]
  /\ AfterClear
  /\ UNCHANGED <<flags, hdr, sdk, o, needI>>

\* Second half: eventFlag is written, the timer stopped, the lock released.
ClearStore ==
  /\ m.pc = "clr2"
  /\ events' = [events EXCEPT !.reset = m.ereg \ {m.ch}]
  /\ StopTimer(<<"reset", m.ch>>)
  /\ lock' = "free"
  /\ asked' = [asked EXCEPT ![m.ch] = FALSE]
  /\ AfterClear
  /\ UNCHANGED <<flags, hdr, sdk, o, needI>>

\* cmd 89: StopRecvStream if the channel was started (startRcv = 1 again).
ErrStop ==
  /\ Loaded("estop")
  /\ IF m.reg.start
     THEN /\ MainStore([m.reg EXCEPT !.start = TRUE])
          /\ recv' = [recv EXCEPT ![m.ch] = FALSE]
     ELSE UNCHANGED <<flags, recv>>
  /\ MainGoto("eflags")
  /\ UNCHANGED <<hdr, wnd, pic, left, osal, o, history>>

\* cmd 89: ResetChn, EnableUserPic, buffer and flags reset, err = 1.
ErrFlags ==
  /\ Loaded("eflags")
  /\ MainStore([ZeroWord EXCEPT !.err = TRUE])
  /\ pic' = [pic EXCEPT ![m.ch] = TRUE]
  /\ left' = [left EXCEPT ![m.ch] = FALSE]
  /\ hdr' = [hdr EXCEPT ![m.ch] = FALSE]
  /\ needI' = [needI EXCEPT ![m.ch] = FALSE]
  /\ MainDone
  /\ UNCHANGED <<wnd, recv, osal, o, asked>>
-----------------------------------------------------------------------------
(* The main thread: process_rtp, H.264.  Appending a fragment changes only  *)
(* hdr; "single" is a NAL unit that came whole, "singleP" one of these that *)
(* is a P slice (NAL type 1) with head 0x01 or 0x21: one with head 0x41 or  *)
(* 0x61 is taken for H.265 and discarded (stream.c:166-170).                *)

\* FU-A start: PKG_STARTED = 1.
FrameBegins ==
  /\ Loaded("begin")
  /\ MainStore([m.reg EXCEPT !.pkg = TRUE])
  /\ hdr' = [hdr EXCEPT ![m.ch] = TRUE]
  /\ MainDone
  /\ UNCHANGED <<wnd, sdk, osal, o, history>>

\* FU-A middle: appended, nothing to decode.  FU-A end without a start: "bad
\* buf", the buffer is dropped.
FrameGoesOn ==
  /\ m.pc = "unpack"
  /\ \/ m.kind = "mid" /\ UNCHANGED hdr
     \/ /\ m.kind \in {"endI", "endP"}
        /\ ~word[m.ch].pkg
        /\ hdr' = [hdr EXCEPT ![m.ch] = FALSE]
  /\ MainDone
  /\ UNCHANGED <<flags, wnd, sdk, osal, o, history>>

\* A frame is complete: on to do_decode.
FrameEnds ==
  /\ m.pc = "unpack"
  /\ m.kind \in {"single", "singleP"} \/ (m.kind \in {"endI", "endP"} /\ word[m.ch].pkg)
  /\ m' = [m EXCEPT !.pc = "send"]
  /\ UNCHANGED <<flags, hdr, wnd, sdk, osal, o, history>>

\* The conditions under which do_decode calls SendStream.
MaySend(k, w) == ~w.ref /\ (k = "endP" => ~w.wait)

Sends(i) == m.pc = "send" /\ m.ch = i /\ MaySend(m.kind, word[i])

\* SendStream, or the frame is dropped; the decoder may fall behind.
SendFrame ==
  /\ m.pc = "send"
  /\ IF MaySend(m.kind, word[m.ch])
     THEN /\ \E l \in {left[m.ch], TRUE} : left' = [left EXCEPT ![m.ch] = l]
          /\ needI' = [needI EXCEPT ![m.ch] = @ /\ m.kind # "endI"]
     ELSE /\ needI' = [needI EXCEPT ![m.ch] = @ \/ (word[m.ch].ref /\ m.kind # "single")]
          /\ UNCHANGED left
  /\ m' = [m EXCEPT !.pc = IF m.kind \in {"endI", "endP"} THEN "wait" ELSE "fin",
                    !.seen = m.kind = "endI" /\ word[m.ch].ref]
  /\ UNCHANGED <<flags, hdr, wnd, recv, pic, osal, o, asked>>

\* P reads refused a second time and sets waitIfream; I sets it to what it
\* read before.
SetWait ==
  /\ Loaded("wait")
  /\ \/ /\ m.kind = "endP"
        /\ IF m.reg.ref THEN MainStore([m.reg EXCEPT !.wait = TRUE])
                        ELSE UNCHANGED flags
     \/ m.kind = "endI" /\ MainStore([m.reg EXCEPT !.wait = m.seen])
  /\ MainGoto("fin")
  /\ UNCHANGED <<hdr, wnd, sdk, osal, o, history>>

\* dec_buf_init and PKG_STARTED = 0.
FrameDone ==
  /\ Loaded("fin")
  /\ MainStore([m.reg EXCEPT !.pkg = FALSE])
  /\ hdr' = [hdr EXCEPT ![m.ch] = FALSE]
  /\ MainDone
  /\ UNCHANGED <<wnd, sdk, osal, o, history>>

Main == \/ MainLoad \/ LeaveErr \/ StartRecv \/ ResetFlags \/ ArmClear
        \/ ClearLoad \/ ClearStore \/ ErrStop \/ ErrFlags
        \/ FrameBegins \/ FrameGoesOn \/ FrameEnds \/ SendFrame \/ SetWait
        \/ FrameDone

Arrival == \/ \E i \in Chans : \/ \E k \in Packages \cap Kinds : RecvData(i, k)
                               \/ "update" \in Packages /\ RecvUpdate(i)
                               \/ "err" \in Packages /\ RecvErr(i)
           \/ "cut" \in Packages /\ \E n \in Layouts : RecvCut(n)
-----------------------------------------------------------------------------
(* The osal thread: osalRunSystem.                                          *)

\* for (i = 0; i < 16; i++) if (events & (1 << i)): i is the next such bit.
NextBit(i) == i \in o.cap \cap Chans /\ \A j \in o.cap \cap Chans : i <= j

\* An expired timer sets its event in every task.
EventsOfAny(task, keys) == {k[2] : k \in keys}

EventsOf(task, keys) == {k[2] : k \in {d \in keys : d[1] = task}}

\* osalTicksUpdate: the expired timers leave the list and set their events.
TicksUpdate(expired) ==
  /\ o.pc = "sleep"
  /\ lock = "free"
  /\ events' = [events EXCEPT !.reset = @ \cup EventsOf("reset", expired),
                              !.left = @ \cup EventsOf("left", expired)]
  /\ pending' = pending \ expired
  /\ o' = [o EXCEPT !.pc = "task1"]
  /\ UNCHANGED <<flags, hdr, wnd, sdk, lock, m, history>>

\* dec_reset_handler is called in every round (it never clears OSALSTART).
ResetCalled ==
  /\ o.pc = "task1"
  /\ o' = [o EXCEPT !.pc = "clear", !.cap = events.reset]
  /\ UNCHANGED <<flags, hdr, wnd, sdk, osal, m, history>>

ClearsScreen(i) == o.pc = "clear" /\ NextBit(i)

\* One channel of dec_reset_handler: clear and refresh its window.
ClearScreen(i) ==
  /\ ClearsScreen(i)
  /\ o' = [o EXCEPT !.cap = @ \ {i}]
  /\ asked' = [asked EXCEPT ![i] = FALSE]
  /\ UNCHANGED <<flags, hdr, wnd, sdk, osal, m, needI>>

\* eventFlag = handle(..): all the bits the handler saw are off.
ResetReturns ==
  /\ o.pc = "clear"
  /\ o.cap \cap Chans = {}
  /\ events' = [events EXCEPT !.reset = o.cap]
  /\ o' = [OsalIdle EXCEPT !.pc = "task2"]
  /\ UNCHANGED <<flags, hdr, wnd, sdk, pending, lock, m, history>>

\* check_left_freams, called when it has an event.
LeftCalled ==
  /\ o.pc = "task2"
  /\ \/ events.left = {} /\ o' = OsalIdle
     \/ /\ Boot \in events.left
        /\ o' = [OsalIdle EXCEPT !.pc = "boot", !.cap = events.left]
     \/ /\ Boot \notin events.left
        /\ Check \in events.left
        /\ o' = [OsalIdle EXCEPT !.pc = "scan", !.cap = events.left]
     \/ /\ events.left # {}
        /\ events.left \subseteq Chans
        /\ o' = [OsalIdle EXCEPT !.pc = "release", !.cap = events.left]
  /\ UNCHANGED <<flags, hdr, wnd, sdk, osal, m, history>>

\* OSALSTART: the first OSAL_CHECK timer.
BootCheck ==
  /\ o.pc = "boot"
  /\ lock = "free"
  /\ StartTimer(<<"left", Check>>)
  /\ o' = [o EXCEPT !.pc = IF Check \in o.cap THEN "scan" ELSE "release",
                    !.cap = @ \ {Boot}]
  /\ UNCHANGED <<flags, hdr, wnd, sdk, events, lock, m, history>>

\* "return" where the code has "break".
ScanChannelReturns ==
  /\ o.pc = "scan"
  /\ o.ch \in Chans
  /\ \/ ~left[o.ch] /\ o' = [o EXCEPT !.ch = @ + 1]
     \/ /\ left[o.ch]
        /\ word[o.ch].err
        /\ o' = [o EXCEPT !.pc = "release", !.ch = 0, !.cap = @ \ {Check}]
     \/ left[o.ch] /\ ~word[o.ch].err /\ o' = [o EXCEPT !.pc = "refuse"]
  /\ UNCHANGED <<flags, hdr, wnd, sdk, osal, m, history>>

\* One turn of the loop over the channels: a channel in error ends the loop
\* if its decoder is behind.
ScanChannel ==
  /\ o.pc = "scan"
  /\ o.ch \in Chans
  /\ \/ /\ ~left[o.ch]
        /\ o' = [o EXCEPT !.ch = @ + 1]
        /\ UNCHANGED hdr
     \/ /\ left[o.ch]
        /\ word[o.ch].err
        /\ o' = [o EXCEPT !.pc = "rearm", !.ch = 0]
        /\ UNCHANGED hdr
     \/ /\ left[o.ch]
        /\ ~word[o.ch].err
        /\ hdr' = [hdr EXCEPT ![o.ch] = FALSE]
        /\ o' = [o EXCEPT !.pc = "refuse"]
  /\ UNCHANGED <<flags, wnd, sdk, osal, m, history>>

ScanDone ==
  /\ o.pc = "scan"
  /\ o.ch = NumChans
  /\ o' = [o EXCEPT !.pc = "rearm", !.ch = 0]
  /\ UNCHANGED <<flags, hdr, wnd, sdk, osal, m, history>>

\* refused = 1: the word is loaded, then stored.
RefuseLoad ==
  /\ o.pc = "refuse"
  /\ ~o.ld
  /\ o' = [o EXCEPT !.ld = TRUE, !.reg = word[o.ch]]
  /\ UNCHANGED <<flags, hdr, wnd, sdk, osal, m, history>>

Refuse ==
  /\ o.pc = "refuse"
  /\ o.ld
  /\ word' = [word EXCEPT ![o.ch] = [o.reg EXCEPT !.ref = TRUE]]
  /\ restored' = [restored EXCEPT ![o.ch] = FALSE]
  /\ o' = [o EXCEPT !.pc = "hold", !.ld = FALSE, !.reg = ZeroWord]
  /\ UNCHANGED <<hdr, wnd, sdk, osal, m, asked, needI>>

\* The release timer is forgotten.
HoldForever ==
  /\ o.pc = "hold"
  /\ lock = "free"
  /\ o' = [o EXCEPT !.pc = "scan", !.ch = @ + 1]
  /\ UNCHANGED <<flags, hdr, wnd, sdk, osal, m, history>>

\* osalStartTimerEx(2, 1 << i, 2200), on to the next channel.
HoldRefusal ==
  /\ o.pc = "hold"
  /\ lock = "free"
  /\ StartTimer(<<"left", o.ch>>)
  /\ o' = [o EXCEPT !.pc = "scan", !.ch = @ + 1]
  /\ UNCHANGED <<flags, hdr, wnd, sdk, events, lock, m, history>>

\* The check is not started again.
CheckOnce ==
  /\ o.pc = "rearm"
  /\ lock = "free"
  /\ o' = [o EXCEPT !.pc = "release", !.cap = @ \ {Check}]
  /\ UNCHANGED <<flags, hdr, wnd, sdk, osal, m, history>>

\* osalStartTimerEx(2, OSAL_CHECK, 1000), also after a break.
RearmCheck ==
  /\ o.pc = "rearm"
  /\ lock = "free"
  /\ StartTimer(<<"left", Check>>)
  /\ o' = [o EXCEPT !.pc = "release", !.cap = @ \ {Check}]
  /\ UNCHANGED <<flags, hdr, wnd, sdk, events, lock, m, history>>

\* refused = 0 for a channel whose 2.2 s are over: load and store.
ReleaseLoad(i) ==
  /\ o.pc = "release"
  /\ ~o.ld
  /\ NextBit(i)
  /\ o' = [o EXCEPT !.ld = TRUE, !.reg = word[i], !.ch = i]
  /\ UNCHANGED <<flags, hdr, wnd, sdk, osal, m, history>>

Release ==
  /\ o.pc = "release"
  /\ o.ld
  /\ word' = [word EXCEPT ![o.ch] = [o.reg EXCEPT !.ref = FALSE]]
  /\ restored' = [restored EXCEPT ![o.ch] = FALSE]
  /\ o' = [o EXCEPT !.cap = @ \ {o.ch}, !.ch = 0, !.ld = FALSE, !.reg = ZeroWord]
  /\ UNCHANGED <<hdr, wnd, sdk, osal, m, asked, needI>>

LeftReturns ==
  /\ o.pc = "release"
  /\ o.cap \cap Chans = {}
  /\ events' = [events EXCEPT !.left = o.cap]
  /\ o' = OsalIdle
  /\ UNCHANGED <<flags, hdr, wnd, sdk, pending, lock, m, history>>

Osal == \/ \E expired \in SUBSET pending : TicksUpdate(expired)
        \/ ResetCalled \/ ResetReturns \/ LeftCalled \/ BootCheck
        \/ ScanChannel \/ ScanDone \/ RefuseLoad \/ Refuse \/ HoldRefusal
        \/ RearmCheck \/ Release \/ LeftReturns
        \/ \E i \in Chans : ClearScreen(i) \/ ReleaseLoad(i)

\* The hardware decodes what waits in channel i.
Drain(i) == /\ left[i]
            /\ left' = [left EXCEPT ![i] = FALSE]
            /\ UNCHANGED <<flags, hdr, wnd, recv, pic, osal, m, o, history>>

Next == \/ Main
        \/ Arrival
        \/ Osal
        \/ \E i \in Chans : Drain(i)

Spec == Init /\ [][Next]_vars
-----------------------------------------------------------------------------
\* A round of the osal thread in which timer k has expired.
Expires(k) == \E expired \in SUBSET pending : k \in expired /\ TicksUpdate(expired)

\* Neither thread waits for anything but the lock, which is held for a few
\* instructions and is not kept from one thread for ever; time passes.
Fairness == /\ SF_vars(Main)
            /\ SF_vars(Osal)
            /\ \A k \in Keys : SF_vars(Expires(k))

FairSpec == Spec /\ Fairness
-----------------------------------------------------------------------------
MainType == [pc : {"idle", "unpack", "send", "arm", "clr", "clr2"} \cup FlagPcs,
             op : {"none", "data", "update", "cut", "err"}, ch : Chans,
             kind : Kinds \cup {"none"}, ld : BOOLEAN, reg : Word,
             ereg : SUBSET Chans, seen : BOOLEAN, to : Layouts \cup {0}]

OsalType == [pc : {"sleep", "task1", "clear", "task2", "boot", "scan", "refuse",
                   "hold", "rearm", "release"},
             ch : 0 .. NumChans, cap : SUBSET (Chans \cup {Check, Boot}),
             ld : BOOLEAN, reg : Word]

TypeOK ==
  /\ word \in [Chans -> Word]
  /\ hdr \in [Chans -> BOOLEAN]
  /\ wnd \in Layouts
  /\ recv \in [Chans -> BOOLEAN]
  /\ pic \in [Chans -> BOOLEAN]
  /\ left \in [Chans -> BOOLEAN]
  /\ pending \subseteq Keys
  /\ events \in [reset : SUBSET Chans, left : SUBSET (Chans \cup {Check, Boot})]
  /\ lock \in {"free", "main"}
  /\ m \in MainType
  /\ o \in OsalType
  /\ restored \in [Chans -> BOOLEAN]
  /\ asked \in [Chans -> BOOLEAN]
  /\ needI \in [Chans -> BOOLEAN]

\* A delayed clear of the screen that was asked for and not cancelled is
\* still on its way: as a timer, as an event, or seen by the running
\* dec_reset_handler.  Neither the unlocked write of eventFlag when a handler
\* returns nor the cancelling of other channels loses one.
ClearNotLost ==
  \A i \in Chans : asked[i] => \/ <<"reset", i>> \in pending
                               \/ i \in events.reset
                               \/ o.pc = "clear" /\ i \in o.cap

\* The release timer of a channel, its event, or the handler that is about to
\* start that timer.
ReleasePending(i) == \/ <<"left", i>> \in pending
                     \/ i \in events.left
                     \/ o.pc = "hold" /\ o.ch = i

\* While a channel refuses frames (the bit in the word), its release is on the
\* way: nothing the main thread does to the channel meanwhile (update, cut,
\* err, data) takes it away.  There is one exception, and no other: a store of
\* the main thread that had loaded the word before a release (alltasks.c:101)
\* and brings the bit back behind it (restored).
RefusalEnds == \A i \in Chans : word[i].ref => ReleasePending(i) \/ restored[i]

\* Once started, the check for late decoders never dies: whatever the loop
\* over the channels does (break included), the next OSAL_CHECK is a timer,
\* an event, or about to be started again.
WatchdogAlive == \/ <<"left", Check>> \in pending
                 \/ Check \in events.left
                 \/ Boot \in events.left

(* The inductive invariant behind these three and CutStopsAll.              *)

\* The lock is held over the two halves of osalClearTaskEvent only, and
\* nobody adds an event of dec_reset_handler between them.
LockHeld == /\ lock = "main" <=> m.pc = "clr2"
            /\ m.pc = "clr2" => events.reset \subseteq m.ereg

HandlerPcs == {"boot", "scan", "refuse", "hold", "rearm", "release"}

\* What the handlers of the osal thread hold in their locals.
OsalLocals == /\ o.pc = "clear" => o.cap \subseteq Chans
              /\ o.pc \in {"refuse", "hold"} => o.ch \in Chans
              /\ o.ld => o.pc \in {"refuse", "release"} /\ o.ch \in Chans
              /\ o.pc \in HandlerPcs => o.cap \subseteq events.left

\* A handler's return overwrites eventFlag: while dec_reset_handler runs only
\* what it saw counts, not what eventFlag holds.
ClearInv ==
  \A i \in Chans : asked[i] => \/ <<"reset", i>> \in pending
                               \/ o.pc = "clear" /\ i \in o.cap
                               \/ o.pc # "clear" /\ i \in events.reset

\* The same for check_left_freams.
ReleaseInv ==
  \A i \in Chans : word[i].ref => \/ <<"left", i>> \in pending
                                  \/ o.pc \in HandlerPcs /\ i \in o.cap
                                  \/ o.pc \notin HandlerPcs /\ i \in events.left
                                  \/ o.pc = "hold" /\ o.ch = i
                                  \/ restored[i]

\* When check_left_freams gets to the channels, its check is a timer again.
WatchdogInv == /\ WatchdogAlive
               /\ o.pc = "release" => <<"left", Check>> \in pending

\* A cut stops the channels of the old layout one after the other.
CutInv ==
  m.op = "cut" =>
    /\ m.to \in Layouts
    /\ m.pc \in {"err", "flags", "clr", "clr2", "arm"}
    /\ m.pc # "arm" => \A i \in Chans : i < m.ch => ~recv[i]
    /\ m.pc \in {"flags", "clr", "clr2"} => ~recv[m.ch]

Inv == /\ TypeOK /\ LockHeld /\ OsalLocals
       /\ ClearInv /\ ReleaseInv /\ WatchdogInv /\ CutInv

\* rtpPkgProcess.c:80: a channel without a window must not be fed, so when
\* the layout changes every channel of the old one has been stopped.
CutStopsAll ==
  [][wnd' # wnd => \A i \in Chans : i < wnd => ~recv[i]]_vars

\* The check for late decoders runs again and again, however much the main
\* thread uses the lock.
WatchdogRuns == []<>(o.pc = "rearm")

\* A channel whose decoder keeps up from some time on does not refuse frames
\* for ever, unless a store of the main thread brought the bit back.
Released == \A i \in Chans : <>[](~left[i]) => <>[](~word[i].ref \/ restored[i])

\* stream.c:77: before decoding starts again after a refusal an I frame must
\* be decoded first, so no P frame is sent while one is still needed.
NoPBeforeI == \A i \in Chans :
                Sends(i) /\ m.kind \in {"endP", "singleP"} => ~needI[i]
=============================================================================
