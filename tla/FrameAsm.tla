------------------------------ MODULE FrameAsm ------------------------------
(***************************************************************************)
(* One channel of stream.c: UnpackRTPH264 / UnpackRTPH265 collect the NAL   *)
(* units of a frame in dec->buf, do_decode hands the buffer to the decoder  *)
(* when the frame is complete.  An H.265 stream with tiles has one slice    *)
(* per tile column, and the frame is complete when as many slices of its    *)
(* type have ended as the last picture parameter set (PPS) said.            *)
(*                                                                          *)
(* The camera sends I frames, each behind its parameter sets, and P frames; *)
(* a slice is one package or fragments (FU).  A package may be missing: the *)
(* link dropped it, or the unpackers dropped it for its header.  The osal   *)
(* thread may empty the buffer (check_left_freams), and a new source or the *)
(* loss of the camera resets the channel (pkgProcess).                      *)
(*                                                                          *)
(* A fragment counts one against Capacity.  Whether a complete frame is     *)
(* sent or refused does not matter to the buffer: Decoder has that.         *)
(***************************************************************************)
EXTENDS Integers, Sequences, SequencesExt

CONSTANTS Capacity,        \* fragments that dec->buf holds
          TileCounts,      \* tile columns a camera may have, 0: no tiles
          MaxP             \* bound: P frames between two I frames

ASSUME FrameAssumption ==
  /\ TileCounts \subseteq Nat
  /\ \E n \in TileCounts : \A k \in TileCounts : k <= n
  /\ MaxP \in Nat
  /\ Capacity \in Nat /\ Capacity >= 5
  /\ \A n \in TileCounts : 2 + 3 * n <= Capacity

\* NAL units of a frame in their order: the parameter sets, then the slices.
Vps == 0                   \* VPS, SPS or SEI; the SPS in H.264
Pps == 1
FirstSlice == 2
Slices(tiles) == IF tiles = 0 THEN 1 ELSE tiles
LastSlice(tiles) == FirstSlice + Slices(tiles) - 1

\* The counters are compared for equality and reset, so a count beyond every
\* TileCounts needs no number of its own.
CountCap == 1 + CHOOSE n \in TileCounts : \A k \in TileCounts : k <= n
Count(n) == IF n < CountCap THEN n + 1 ELSE n

VARIABLES
  codec,     \* dec_type: "h264" or "h265"
  cam,       \* the camera: its tiles, and what it sends next
  buf,       \* dec->buf
  started,   \* PKG_STARTED
  enPps,     \* EN_PPS
  tiles,     \* hevcPPS: tiles_enabled_flag ? num_tile_columns : 0
  cntI, cntP,\* slice_I_counter, slice_P_counter
  type,      \* result of the unpacker; "idle" between two packages
  health     \* history: "clean", "lost", or "half" within the first I frame
             \* that passes without a loss

channel == <<buf, started, enPps, tiles, cntI, cntP>>
vars == <<codec, cam, channel, type, health>>

\* A camera that begins with an I frame.
NewCam(n) == [tiles |-> n, frame |-> 0, kind |-> "I", nal |-> Vps, part |-> "new", p |-> 0]

Init == /\ codec \in {"h264", "h265"}
        /\ \E n \in TileCounts : (codec = "h264" => n = 0) /\ cam = NewCam(n)
        /\ buf = <<>>
        /\ started = FALSE
        /\ enPps = FALSE
        /\ tiles = 0
        /\ cntI = 0 /\ cntP = 0
        /\ type = "idle"
        /\ health = "clean"
-----------------------------------------------------------------------------
(* The camera.                                                              *)

\* How the next NAL unit, or the rest of it, may be packed: H.265 cameras
\* with tiles fragment the slices of an I frame.
Parts == IF cam.part = "new"
         THEN IF cam.nal < FirstSlice THEN {"whole"}
              ELSE IF cam.kind = "I" /\ cam.tiles > 0 THEN {"start"}
              ELSE {"start", "whole"}
         ELSE IF cam.part = "start" THEN {"mid", "end"} ELSE {"end"}

Package(part) == [frame |-> cam.frame, kind |-> cam.kind, nal |-> cam.nal, part |-> part]

EndsFrame(pkg) == pkg.nal = LastSlice(cam.tiles) /\ pkg.part \in {"whole", "end"}

\* The camera after a package; after a frame, a P frame or the next I frame.
Moves(pkg) ==
  IF pkg.part \in {"start", "mid"}
  THEN cam' = [cam EXCEPT !.part = pkg.part]
  ELSE IF ~EndsFrame(pkg)
  THEN cam' = [cam EXCEPT !.part = "new", !.nal = @ + 1]
  ELSE \/ cam' = [NewCam(cam.tiles) EXCEPT !.frame = 1 - cam.frame]
       \/ /\ cam.p < MaxP
          /\ cam' = [cam EXCEPT !.frame = 1 - @, !.kind = "P", !.nal = FirstSlice,
                                !.part = "new", !.p = @ + 1]
-----------------------------------------------------------------------------
(* The unpackers.                                                           *)

\* The bytes of a fragment steer nothing, so those of a stretch with a loss
\* need not be told apart.
Junk == [frame |-> 0, kind |-> "P", nal |-> 0, part |-> "mid"]
Bytes(pkg) == IF health = "clean" THEN pkg ELSE Junk

\* dec_buf_append: a full buffer is emptied first.
Overflows == Len(buf) = Capacity
AppendedAlways(pkg) == Append(buf, Bytes(pkg))
Appended(pkg) == IF Overflows THEN <<Bytes(pkg)>> ELSE Append(buf, Bytes(pkg))

\* The end of a fragmented unit whose start did not come: "bad buf".
Bad(pkg) == pkg.part = "end" /\ ~started

\* What the end of a NAL unit says of the frame.
TypeOf(pkg) ==
  IF Bad(pkg) \/ pkg.part \in {"start", "mid"} THEN "none"
  ELSE IF codec = "h264"
  THEN IF pkg.part = "whole" THEN "PKG" ELSE pkg.kind
  ELSE IF pkg.nal < FirstSlice THEN "PPS"
  ELSE IF pkg.part = "whole" /\ pkg.kind = "I" THEN "PKG" ELSE pkg.kind

\* Slices are counted before they are found bad.
Counts(pkg, kind) == /\ codec = "h265" /\ tiles > 0
                     /\ pkg.kind = kind /\ pkg.nal >= FirstSlice
                     /\ pkg.part = "end" \/ (pkg.part = "whole" /\ kind = "P")

Unpack(pkg) ==
  /\ buf' = IF Bad(pkg) THEN <<>> ELSE Appended(pkg)
  /\ started' = (started \/ pkg.part = "start")
  /\ type' = IF TypeOf(pkg) = "none" THEN "idle" ELSE TypeOf(pkg)
  /\ UNCHANGED enPps

\* A PPS without a reset of the slice counters.
ParseOnly(pkg) ==
  LET isPps == codec = "h265" /\ pkg.nal = Pps
  IN  /\ tiles' = IF isPps THEN cam.tiles ELSE tiles
      /\ cntI' = IF Counts(pkg, "I") THEN Count(cntI) ELSE cntI
      /\ cntP' = IF Counts(pkg, "P") THEN Count(cntP) ELSE cntP

\* parase_pps, and the counters: a PPS with tiles resets both.
ParseAndCount(pkg) ==
  LET isPps == codec = "h265" /\ pkg.nal = Pps
      reset == isPps /\ cam.tiles > 0
  IN  /\ tiles' = IF isPps THEN cam.tiles ELSE tiles
      /\ cntI' = IF reset THEN 0 ELSE IF Counts(pkg, "I") THEN Count(cntI) ELSE cntI
      /\ cntP' = IF reset THEN 0 ELSE IF Counts(pkg, "P") THEN Count(cntP) ELSE cntP

\* A loss ends with the first I frame that passes complete.
HealthAt(pkg) ==
  IF Overflows /\ ~Bad(pkg) THEN "lost"
  ELSE IF health = "lost" /\ pkg.nal = Vps THEN "half" ELSE health

Receive ==
  /\ type = "idle"
  /\ \E part \in Parts :
       LET pkg == Package(part)
       IN  /\ Unpack(pkg)
           /\ ParseAndCount(pkg)
           /\ Moves(pkg)
           /\ health' = HealthAt(pkg)
  /\ UNCHANGED codec

\* A package of which nothing comes to dec->buf: what the link lost, and what
\* the unpackers drop before they look at its contents.
Lose ==
  /\ type = "idle"
  /\ \E part \in Parts : Moves(Package(part))
  /\ health' = "lost"
  /\ buf' = [i \in 1 .. Len(buf) |-> Junk]
  /\ UNCHANGED <<codec, started, enPps, tiles, cntI, cntP, type>>

\* UnpackRTPH264 takes a header for one of H.265: that of a P slice in one
\* package, 0x41 or 0x61, is dropped, not so 0x01 or 0x21.
Discard == codec = "h264" /\ Lose

\* UnpackRTPH265: a layer other than 0, or no temporal id.
Skip == codec = "h265" /\ Lose
-----------------------------------------------------------------------------
(* do_decode.                                                               *)

Complete == \/ type = "PPS" /\ ~enPps
            \/ type = "P" /\ (tiles = 0 \/ cntP = tiles)
            \/ type = "I" /\ (tiles = 0 \/ cntI = tiles)
            \/ type = "PKG"

\* The camera is between two frames: what was unpacked ended one.
AtFrameEnd == cam.part = "new" /\ (cam.nal = Vps \/ (cam.kind = "P" /\ cam.nal = FirstSlice))

HealthAfter == IF health = "half" /\ AtFrameEnd THEN "clean" ELSE health

\* The slice counter of P frames is not reset.
DecodeKeepsCount ==
  /\ type # "idle"
  /\ IF Complete THEN buf' = <<>> /\ started' = FALSE ELSE UNCHANGED <<buf, started>>
  /\ enPps' = (enPps \/ type = "PPS")
  /\ type' = "idle"
  /\ health' = HealthAfter
  /\ UNCHANGED <<codec, cam, tiles, cntI, cntP>>

\* The first parameter set goes to the decoder alone, later ones with the I
\* frame behind them.
Decode ==
  /\ type # "idle"
  /\ IF Complete THEN buf' = <<>> /\ started' = FALSE ELSE UNCHANGED <<buf, started>>
  /\ enPps' = (enPps \/ type = "PPS")
  /\ cntP' = IF type = "P" /\ Complete THEN 0 ELSE cntP
  /\ type' = "idle"
  /\ health' = HealthAfter
  /\ UNCHANGED <<codec, cam, tiles, cntI>>
-----------------------------------------------------------------------------
\* check_left_freams empties the buffer of a late channel, and leaves
\* PKG_STARTED as it is.
Refused ==
  /\ buf # <<>>
  /\ buf' = <<>>
  /\ health' = "lost"
  /\ UNCHANGED <<codec, cam, started, enPps, tiles, cntI, cntP, type>>

\* The buffer keeps what the old source left.
RestartDirty ==
  /\ type = "idle"
  /\ \E n \in TileCounts : (codec = "h264" => n = 0) /\ cam' = NewCam(n)
  /\ started' = FALSE
  /\ enPps' = FALSE
  /\ health' = "clean"
  /\ UNCHANGED <<codec, buf, tiles, cntI, cntP, type>>

\* pkgProcess: a new source, a new layout or the loss of the camera; what
\* comes next is the beginning of a stream.
Restart ==
  /\ type = "idle"
  /\ \E n \in TileCounts : (codec = "h264" => n = 0) /\ cam' = NewCam(n)
  /\ buf' = <<>>
  /\ started' = FALSE
  /\ enPps' = FALSE
  /\ health' = "clean"
  /\ UNCHANGED <<codec, tiles, cntI, cntP, type>>

Next == Receive \/ Discard \/ Skip \/ Decode \/ Refused \/ Restart

Spec == Init /\ [][Next]_vars

\* The camera goes on sending and the main thread runs.
FairSpec == Spec /\ WF_vars(Receive) /\ WF_vars(Decode)
-----------------------------------------------------------------------------
Packages == [frame : 0 .. 1, kind : {"I", "P"}, nal : 0 .. FirstSlice + CountCap,
             part : {"whole", "start", "mid", "end"}]

TypeOK ==
  /\ codec \in {"h264", "h265"}
  /\ cam \in [tiles : TileCounts, frame : 0 .. 1, kind : {"I", "P"},
              nal : 0 .. FirstSlice + CountCap, part : {"new", "start", "mid"},
              p : 0 .. MaxP]
  /\ buf \in Seq(Packages) /\ Len(buf) <= Capacity
  /\ started \in BOOLEAN /\ enPps \in BOOLEAN
  /\ tiles \in TileCounts \cup {0}
  /\ cntI \in 0 .. CountCap /\ cntP \in 0 .. CountCap
  /\ type \in {"idle", "PPS", "I", "P", "PKG"}
  /\ health \in {"clean", "half", "lost"}

\* y is what the camera sends behind x in the same frame.
Follows(x, y) ==
  /\ x.frame = y.frame
  /\ IF x.part \in {"whole", "end"}
     THEN y.nal = x.nal + 1 /\ y.part \in {"whole", "start"}
     ELSE y.nal = x.nal /\ y.part \in {"mid", "end"}

InOrder == \A i \in 1 .. Len(buf) - 1 : Follows(buf[i], buf[i + 1])

\* The buffer is a parameter set, or all slices of one frame, an H.265 I
\* frame with at least the PPS in front.
WholeUnit ==
  /\ buf # <<>>
  /\ InOrder
  /\ Head(buf).part \in {"whole", "start"}
  /\ \/ Len(buf) = 1 /\ Head(buf).nal < FirstSlice
     \/ /\ Last(buf).nal = LastSlice(cam.tiles) /\ Last(buf).part \in {"whole", "end"}
        /\ IF codec = "h265" /\ Last(buf).kind = "I" THEN Head(buf).nal \in {Vps, Pps}
                                                     ELSE Head(buf).nal = FirstSlice

\* While no package is missing, what do_decode gives to the decoder is a
\* complete unit: no fragment of another frame, no slice too early or too
\* late, whatever source the channel had before, and from the second frame
\* after a loss on.
WholeFrames == health = "clean" /\ Complete => WholeUnit

\* While no package is missing, every frame reaches the decoder: when the
\* camera has ended one, nothing of it is left in the buffer.
NothingLeft == health = "clean" /\ type = "idle" /\ AtFrameEnd => buf = <<>>

\* A channel recovers: when losses and resets end, every frame is complete
\* from some time on, whatever state the slice counters were left in.
Recovers ==
  <>[][~Discard /\ ~Skip /\ ~Refused /\ ~Restart]_vars => <>[](health = "clean")
=============================================================================
