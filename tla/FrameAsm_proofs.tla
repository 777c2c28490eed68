---------------------------- MODULE FrameAsm_proofs ----------------------------
(***************************************************************************)
(* Proofs about the reassembly of frames, for every set of tile counts and  *)
(* every capacity of the buffer.                                            *)
(*                                                                          *)
(* The invariant says, between two packages and between the unpacker and    *)
(* do_decode, how the slice counters and the buffer stand to the place of   *)
(* the camera in its frame.  The parts about counters and flags hold from   *)
(* the first complete I frame after a loss on ("half"), those about the     *)
(* buffer from the frame behind it on ("clean").                            *)
(***************************************************************************)
EXTENDS FrameAsm, SequenceTheorems, TLAPS

Cams == [tiles : TileCounts, frame : 0 .. 1, kind : {"I", "P"},
         nal : 0 .. FirstSlice + CountCap, part : {"new", "start", "mid"},
         p : 0 .. MaxP]

\* The camera is at a NAL unit of its frame; H.264 has no tiles.
CamOK ==
  /\ cam.kind = "P" => cam.nal >= FirstSlice
  /\ cam.nal <= LastSlice(cam.tiles)
  /\ cam.part # "new" => cam.nal >= FirstSlice
  /\ codec = "h264" => cam.tiles = 0 /\ tiles = 0

\* Behind the PPS of a frame the counters say how many slices have ended.
Counted ==
  codec = "h265" /\ (cam.kind = "P" \/ cam.nal >= FirstSlice) =>
    /\ tiles = cam.tiles
    /\ tiles > 0 => IF cam.kind = "I" THEN cntI = cam.nal - FirstSlice /\ cntP = 0
                    ELSE cntP = cam.nal - FirstSlice

\* The first parameter set of an I frame has set EN_PPS.
Fed == codec = "h265" /\ cam.kind = "I" /\ cam.nal >= Pps => enPps

\* Between two packages.
Between == type = "idle" /\ health # "lost" =>
  /\ Counted /\ Fed
  /\ cam.part # "new" => started
  /\ health = "half" => cam.kind = "I" /\ cam.nal >= Pps

\* do_decode gets the end of a frame.
FrameEnded ==
  /\ type # "PPS"
  /\ health = "half" => type # "P"
  /\ tiles = cam.tiles
  /\ tiles > 0 => /\ codec = "h265" /\ type # "PKG"
                  /\ type = "I" => cntI = tiles /\ cntP = 0
                  /\ type = "P" => cntP = tiles

\* do_decode gets a parameter set or a slice that is not the last one.
FrameGoesOn ==
  /\ Counted
  /\ cam.nal >= Pps
  /\ health = "half" => cam.kind = "I"
  /\ type = "PPS" => /\ codec = "h265" /\ cam.kind = "I" /\ cam.nal <= FirstSlice
                     /\ cam.nal = FirstSlice => enPps
  /\ type = "PKG" => codec = "h264" /\ cam.kind = "I" /\ cam.nal <= FirstSlice
  /\ type \in {"I", "P"} => codec = "h265" /\ cam.kind = type /\ cam.nal > FirstSlice
  /\ type = "I" => enPps

\* Between the unpacker and do_decode.
Unpacked == type # "idle" /\ health # "lost" =>
  /\ cam.part = "new"
  /\ IF AtFrameEnd THEN FrameEnded ELSE FrameGoesOn

\* The buffer begins where a unit begins, with the parameter sets of an
\* H.265 I frame, and is without a gap.
Chain == buf # <<>> /\ InOrder /\ Head(buf).part \in {"whole", "start"}

HeadOK == IF codec = "h265" /\ Last(buf).kind = "I" THEN Head(buf).nal \in {Vps, Pps}
          ELSE Head(buf).nal = FirstSlice

\* The camera sends next what comes behind the last fragment in the buffer.
Behind ==
  /\ Last(buf).frame = cam.frame /\ Last(buf).kind = cam.kind
  /\ IF cam.part = "new"
     THEN Last(buf).nal + 1 = cam.nal /\ Last(buf).part \in {"whole", "end"}
     ELSE Last(buf).nal = cam.nal /\ Last(buf).part = cam.part

BetweenBuf == type = "idle" /\ health = "clean" =>
  IF buf = <<>>
  THEN /\ cam.part = "new"
       /\ codec = "h265" => IF cam.kind = "I" THEN cam.nal \in {Vps, Pps}
                                              ELSE cam.nal = FirstSlice
  ELSE /\ Chain /\ HeadOK /\ Behind
       /\ cam.part = "new" => codec = "h265" /\ (cam.kind = "P" => cam.nal > FirstSlice)

UnpackedBuf == type # "idle" /\ health = "clean" =>
  /\ Chain
  /\ IF AtFrameEnd
     THEN /\ HeadOK
          /\ Last(buf).nal = LastSlice(cam.tiles) /\ Last(buf).part \in {"whole", "end"}
          /\ type \in {"I", "P"} => Last(buf).kind = type
     ELSE /\ Behind
          /\ type = "PKG" \/ cam.nal = Pps => Len(buf) = 1 /\ Head(buf).nal < FirstSlice
          /\ type # "PKG" => HeadOK

Inv == TypeOK /\ CamOK /\ Between /\ Unpacked /\ BetweenBuf /\ UnpackedBuf
-----------------------------------------------------------------------------
\* The counters can count every slice of a frame.
LEMMA Caps ==
  /\ CountCap \in Nat \ {0}
  /\ \A n \in TileCounts : n \in Nat /\ n < CountCap
  /\ \A n \in TileCounts : /\ Slices(n) \in 1 .. CountCap
                           /\ LastSlice(n) = Slices(n) + 1
                           /\ LastSlice(n) > FirstSlice => Slices(n) = n
<1>1. \E n \in TileCounts : \A k \in TileCounts : k <= n
  BY FrameAssumption
<1> DEFINE top == CHOOSE n \in TileCounts : \A k \in TileCounts : k <= n
<1>2. top \in TileCounts /\ \A k \in TileCounts : k <= top
  BY <1>1
<1>3. CountCap = 1 + top
  BY DEF CountCap
<1> HIDE DEF top
<1>4. TileCounts \subseteq Nat
  BY FrameAssumption
<1>5. CountCap \in Nat \ {0} /\ \A n \in TileCounts : n \in Nat /\ n < CountCap
  BY <1>2, <1>3, <1>4
<1>6. ASSUME NEW n \in TileCounts
      PROVE  /\ Slices(n) \in 1 .. CountCap
             /\ LastSlice(n) = Slices(n) + 1
             /\ LastSlice(n) > FirstSlice => Slices(n) = n
  BY <1>5 DEF Slices, LastSlice, FirstSlice
<1> QED BY <1>5, <1>6

\* The fields of the camera.
LEMMA CamFields ==
  ASSUME cam \in Cams
  PROVE  /\ cam.tiles \in TileCounts /\ cam.frame \in 0 .. 1 /\ cam.kind \in {"I", "P"}
         /\ cam.nal \in 0 .. FirstSlice + CountCap /\ cam.nal \in Nat
         /\ cam.part \in {"new", "start", "mid"} /\ cam.p \in 0 .. MaxP
  BY Caps DEF Cams, FirstSlice

\* What a camera may send next.
LEMMA PartsLemma ==
  ASSUME cam \in Cams, CamOK, NEW part \in Parts
  PROVE  /\ part \in {"whole", "start", "mid", "end"}
         /\ cam.part = "new" => part \in {"whole", "start"}
         /\ cam.part # "new" => part \in {"mid", "end"}
         /\ cam.nal < FirstSlice => part = "whole" /\ cam.kind = "I" /\ cam.part = "new"
         /\ cam.kind = "I" /\ cam.tiles > 0 /\ cam.nal >= FirstSlice => part # "whole"
         /\ Package(part) \in Packages
<1>1. /\ cam.tiles \in TileCounts /\ cam.frame \in 0 .. 1 /\ cam.kind \in {"I", "P"}
      /\ cam.nal \in 0 .. FirstSlice + CountCap /\ cam.nal \in Nat
      /\ cam.part \in {"new", "start", "mid"}
  BY CamFields
<1>2. part \in {"whole", "start", "mid", "end"}
  BY DEF Parts
<1>3. Package(part) \in Packages
  BY <1>1, <1>2 DEF Package, Packages
<1>4. cam.part = "new" => part \in {"whole", "start"}
  BY DEF Parts
<1>5. cam.part # "new" => part \in {"mid", "end"}
  BY DEF Parts
<1>6. cam.nal < FirstSlice => part = "whole" /\ cam.kind = "I" /\ cam.part = "new"
  BY <1>1 DEF Parts, CamOK, FirstSlice
<1>7. cam.kind = "I" /\ cam.tiles > 0 /\ cam.nal >= FirstSlice => part # "whole"
  BY <1>1 DEF Parts, FirstSlice
<1> QED BY <1>2, <1>3, <1>4, <1>5, <1>6, <1>7

\* The camera after a package: within a NAL unit, at the next one, or at the
\* next frame.
LEMMA MovesLemma ==
  ASSUME cam \in Cams, CamOK, NEW part \in Parts, Moves(Package(part))
  PROVE  /\ cam' \in Cams
         /\ cam'.tiles = cam.tiles /\ cam'.nal <= LastSlice(cam'.tiles)
         /\ cam'.kind = "P" => cam'.nal >= FirstSlice
         /\ cam'.part # "new" => cam'.nal >= FirstSlice
         /\ part \in {"start", "mid"} =>
              /\ cam'.part = part /\ cam'.nal = cam.nal /\ cam'.kind = cam.kind
              /\ cam'.frame = cam.frame /\ cam.nal >= FirstSlice
         /\ part \in {"whole", "end"} => cam'.part = "new"
         /\ part \in {"whole", "end"} /\ cam.nal # LastSlice(cam.tiles) =>
              /\ cam'.nal = cam.nal + 1 /\ cam'.kind = cam.kind
              /\ cam'.frame = cam.frame /\ ~AtFrameEnd'
         /\ part \in {"whole", "end"} /\ cam.nal = LastSlice(cam.tiles) =>
              AtFrameEnd' /\ cam.nal >= FirstSlice
<1>1. /\ cam.tiles \in TileCounts /\ cam.frame \in 0 .. 1 /\ cam.kind \in {"I", "P"}
      /\ cam.nal \in 0 .. FirstSlice + CountCap /\ cam.nal \in Nat
      /\ cam.part \in {"new", "start", "mid"} /\ cam.p \in 0 .. MaxP
  BY CamFields
<1>2. /\ part \in {"whole", "start", "mid", "end"}
      /\ cam.nal < FirstSlice => part = "whole" /\ cam.kind = "I" /\ cam.part = "new"
  BY PartsLemma
<1>3. /\ CountCap \in Nat \ {0} /\ MaxP \in Nat
      /\ LastSlice(cam.tiles) \in FirstSlice .. FirstSlice + CountCap
  <2>1. Slices(cam.tiles) \in 1 .. CountCap /\ LastSlice(cam.tiles) = Slices(cam.tiles) + 1
    BY <1>1, Caps
  <2>2. CountCap \in Nat \ {0} /\ MaxP \in Nat
    BY Caps, FrameAssumption
  <2> QED BY <2>1, <2>2 DEF FirstSlice
<1>4. cam.nal <= LastSlice(cam.tiles)
  BY DEF CamOK
<1>5. CASE part \in {"start", "mid"}
  <2>1. cam' = [cam EXCEPT !.part = part]
    BY <1>5 DEF Moves, Package
  <2>2. cam.nal >= FirstSlice
    BY <1>1, <1>2, <1>5 DEF FirstSlice
  <2>3. cam' \in Cams
    BY <1>5, <2>1 DEF Cams
  <2>4. /\ cam'.part = part /\ cam'.nal = cam.nal /\ cam'.kind = cam.kind
        /\ cam'.frame = cam.frame /\ cam'.tiles = cam.tiles
    BY <1>1, <2>1 DEF Cams
  <2> QED BY <1>4, <1>5, <2>2, <2>3, <2>4
<1>6. CASE part \in {"whole", "end"} /\ cam.nal # LastSlice(cam.tiles)
  <2>1. cam' = [cam EXCEPT !.part = "new", !.nal = @ + 1]
    BY <1>6 DEF Moves, Package, EndsFrame
  <2>2. cam.nal + 1 \in 0 .. FirstSlice + CountCap /\ cam.nal + 1 <= LastSlice(cam.tiles)
    BY <1>1, <1>3, <1>4, <1>6 DEF FirstSlice
  <2>3. cam' \in Cams
    BY <2>1, <2>2 DEF Cams
  <2>4. /\ cam'.part = "new" /\ cam'.nal = cam.nal + 1 /\ cam'.kind = cam.kind
        /\ cam'.frame = cam.frame /\ cam'.tiles = cam.tiles
    BY <1>1, <2>1 DEF Cams
  <2>5. cam'.kind = "P" => cam.nal >= FirstSlice
    BY <2>4 DEF CamOK
  <2>6. ~AtFrameEnd'
    BY <1>1, <2>4, <2>5 DEF AtFrameEnd, Vps, FirstSlice
  <2> QED BY <1>1, <1>6, <2>2, <2>3, <2>4, <2>5, <2>6 DEF FirstSlice
<1>7. CASE part \in {"whole", "end"} /\ cam.nal = LastSlice(cam.tiles)
  <2>1. 1 - cam.frame \in 0 .. 1 /\ 0 \in 0 .. MaxP /\ FirstSlice \in 0 .. FirstSlice + CountCap
        /\ 0 \in 0 .. FirstSlice + CountCap
    BY <1>1, <1>3 DEF FirstSlice
  <2>2. EndsFrame(Package(part))
    BY <1>7 DEF EndsFrame, Package
  <2>3. CASE cam' = [NewCam(cam.tiles) EXCEPT !.frame = 1 - cam.frame]
    <3>1. cam' = [tiles |-> cam.tiles, frame |-> 1 - cam.frame, kind |-> "I",
                  nal |-> Vps, part |-> "new", p |-> 0]
      BY <2>3 DEF NewCam
    <3>2. cam' \in Cams
      BY <1>1, <2>1, <3>1 DEF Cams, Vps
    <3> QED BY <1>1, <1>3, <1>7, <3>1, <3>2 DEF AtFrameEnd, Vps, FirstSlice
  <2>4. CASE /\ cam.p < MaxP
             /\ cam' = [cam EXCEPT !.frame = 1 - @, !.kind = "P", !.nal = FirstSlice,
                                   !.part = "new", !.p = @ + 1]
    <3>1. cam.p + 1 \in 0 .. MaxP
      BY <1>1, <1>3, <2>4
    <3>2. cam' \in Cams
      BY <2>1, <2>4, <3>1 DEF Cams
    <3>3. /\ cam'.part = "new" /\ cam'.nal = FirstSlice /\ cam'.kind = "P"
          /\ cam'.tiles = cam.tiles
      BY <2>4 DEF Cams
    <3> QED BY <1>1, <1>3, <1>7, <3>2, <3>3 DEF AtFrameEnd, FirstSlice
  <2> QED BY <1>7, <2>2, <2>3, <2>4 DEF Moves, Package
<1> QED BY <1>2, <1>5, <1>6, <1>7

\* A fragment behind the last one of a buffer without a gap.
LEMMA ChainAppend ==
  ASSUME buf \in Seq(Packages), NEW y \in Packages, buf' = Append(buf, y),
         buf # <<>> => InOrder /\ Follows(Last(buf), y)
  PROVE  /\ buf' \in Seq(Packages) /\ buf' # <<>> /\ Len(buf') = Len(buf) + 1
         /\ Last(buf') = y /\ Head(buf') = IF buf = <<>> THEN y ELSE Head(buf)
         /\ InOrder'
<1>1. /\ buf' \in Seq(Packages) /\ Len(buf') = Len(buf) + 1 /\ Len(buf) \in Nat
      /\ \A i \in 1 .. Len(buf) : buf'[i] = buf[i]
      /\ buf'[Len(buf) + 1] = y
  BY AppendProperties, LenProperties
<1>2. buf' # <<>> /\ Last(buf') = y
  BY <1>1 DEF Last
<1>3. buf = <<>> <=> Len(buf) = 0
  BY EmptySeq
<1>4. Head(buf') = buf'[1] /\ (buf # <<>> => Head(buf) = buf[1])
  BY <1>2, HeadTailProperties, <1>1
<1>5. Head(buf') = IF buf = <<>> THEN y ELSE Head(buf)
  BY <1>1, <1>3, <1>4
<1>6. ASSUME NEW i \in 1 .. Len(buf') - 1
      PROVE  Follows(buf'[i], buf'[i + 1])
  <2>1. buf # <<>> /\ Len(buf) > 0 /\ i \in 1 .. Len(buf)
    BY <1>1, <1>3, <1>6
  <2>2. CASE i = Len(buf)
    BY <1>1, <2>1, <2>2 DEF Last
  <2>3. CASE i # Len(buf)
    <3>1. i \in 1 .. Len(buf) - 1 /\ i + 1 \in 1 .. Len(buf)
      BY <1>1, <2>1, <2>3
    <3>2. Follows(buf[i], buf[i + 1])
      BY <2>1, <3>1 DEF InOrder
    <3> QED BY <1>1, <2>1, <3>1, <3>2
  <2> QED BY <2>2, <2>3
<1>7. InOrder'
  BY <1>6 DEF InOrder
<1> QED BY <1>1, <1>2, <1>5, <1>7

\* The counters stay within their bound.
LEMMA CountLemma ==
  ASSUME NEW n \in 0 .. CountCap
  PROVE  Count(n) \in 0 .. CountCap /\ (n < CountCap => Count(n) = n + 1)
<1>1. CountCap \in Nat
  BY Caps
<1> QED BY <1>1 DEF Count

\* What the buffer is after a fragment.
LEMMA BufTypes ==
  ASSUME TypeOK, CamOK, NEW part \in Parts, Unpack(Package(part))
  PROVE  buf' \in Seq(Packages) /\ Len(buf') <= Capacity
<1>1. Package(part) \in Packages
  BY PartsLemma DEF TypeOK, Cams
<1>2. CountCap \in Nat /\ Junk \in Packages
  BY Caps DEF Junk, Packages, FirstSlice
<1>3. Bytes(Package(part)) \in Packages
  BY <1>1, <1>2 DEF Bytes
<1> DEFINE y == Bytes(Package(part))
<1>4. buf \in Seq(Packages) /\ Len(buf) <= Capacity /\ Capacity \in Nat /\ Capacity >= 5
  BY FrameAssumption DEF TypeOK
<1>5. buf' = <<>> \/ buf' = <<y>> \/ (~Overflows /\ buf' = Append(buf, y))
  BY DEF Unpack, Appended
<1> HIDE DEF y
<1>6. CASE buf' = <<>>
  BY <1>4, <1>6, EmptySeq
<1>7. CASE buf' = <<y>>
  BY <1>3, <1>4, <1>7 DEF y
<1>8. CASE ~Overflows /\ buf' = Append(buf, y)
  <2>1. buf' \in Seq(Packages) /\ Len(buf') = Len(buf) + 1 /\ Len(buf) \in Nat
    BY <1>3, <1>4, <1>8, AppendProperties, LenProperties DEF y
  <2> QED BY <1>4, <1>8, <2>1 DEF Overflows
<1> QED BY <1>5, <1>6, <1>7, <1>8

\* The states a package leads to.
LEMMA ReceiveTypes ==
  ASSUME TypeOK, CamOK, NEW part \in Parts, Unpack(Package(part)),
         ParseAndCount(Package(part)), Moves(Package(part)),
         health' = HealthAt(Package(part)), codec' = codec
  PROVE  TypeOK' /\ CamOK'
<1>1. cam \in Cams
  BY DEF TypeOK, Cams
<1>2. buf' \in Seq(Packages) /\ Len(buf') <= Capacity
  BY BufTypes
<1>3. /\ cam' \in Cams
      /\ cam'.tiles = cam.tiles /\ cam'.nal <= LastSlice(cam'.tiles)
      /\ cam'.kind = "P" => cam'.nal >= FirstSlice
      /\ cam'.part # "new" => cam'.nal >= FirstSlice
  BY <1>1, MovesLemma
<1>4. cntI' \in 0 .. CountCap /\ cntP' \in 0 .. CountCap
  <2>1. cntI \in 0 .. CountCap /\ cntP \in 0 .. CountCap
    BY DEF TypeOK
  <2>2. Count(cntI) \in 0 .. CountCap /\ Count(cntP) \in 0 .. CountCap
    BY <2>1, CountLemma
  <2>3. 0 \in 0 .. CountCap
    BY Caps
  <2> QED BY <2>1, <2>2, <2>3 DEF ParseAndCount
<1>5. tiles' \in TileCounts \cup {0}
  BY <1>1, CamFields DEF ParseAndCount, TypeOK
<1>6. type' \in {"idle", "PPS", "I", "P", "PKG"}
  <2>1. Package(part).kind \in {"I", "P"}
    BY <1>1, CamFields DEF Package
  <2> QED BY <2>1 DEF Unpack, TypeOf
<1>7. health' \in {"clean", "half", "lost"}
  BY DEF HealthAt, TypeOK
<1>8. started' \in BOOLEAN /\ enPps' \in BOOLEAN /\ codec' \in {"h264", "h265"}
  BY DEF Unpack, TypeOK
<1>9. TypeOK'
  BY <1>2, <1>3, <1>4, <1>5, <1>6, <1>7, <1>8 DEF TypeOK, Cams
<1>10. codec' = "h264" => cam'.tiles = 0 /\ tiles' = 0
  BY <1>3 DEF ParseAndCount, CamOK
<1> QED BY <1>3, <1>9, <1>10 DEF CamOK
-----------------------------------------------------------------------------
\* What the invariant gives of a package that does not leave the channel
\* without a frame to wait for: the first part of an I frame, or a package of
\* a unit whose packages before it have come.
LEMMA HeardLemma ==
  ASSUME Inv, type = "idle", NEW part \in Parts, HealthAt(Package(part)) # "lost"
  PROVE  /\ ~Bad(Package(part))
         /\ ~Overflows
         /\ health = "lost" => cam.nal = Vps
         /\ health # "lost" => /\ HealthAt(Package(part)) = health
                               /\ Counted /\ Fed
                               /\ cam.part # "new" => started
                               /\ health = "half" => cam.kind = "I" /\ cam.nal >= Pps
<1>1. cam \in Cams /\ CamOK
  BY DEF Inv, TypeOK, Cams
<1>2. /\ part = "end" => cam.part # "new"
      /\ cam.nal < FirstSlice => part = "whole"
  BY <1>1, PartsLemma
<1>3. Package(part).nal = cam.nal /\ Package(part).part = part
  BY DEF Package
<1>4. health = "lost" => cam.nal = Vps
  BY <1>3 DEF HealthAt
<1>5. health # "lost" => /\ Counted /\ Fed
                         /\ cam.part # "new" => started
                         /\ health = "half" => cam.kind = "I" /\ cam.nal >= Pps
  BY DEF Inv, Between
<1>6. ~Bad(Package(part))
  BY <1>2, <1>3, <1>4, <1>5 DEF Bad, Vps, FirstSlice
<1>7. ~Overflows
  BY <1>6 DEF HealthAt
<1>8. health # "lost" => HealthAt(Package(part)) = health
  BY <1>7 DEF HealthAt
<1> QED BY <1>4, <1>5, <1>6, <1>7, <1>8

\* A package within a NAL unit leaves flags and counters as they are.
LEMMA ReceiveFragment ==
  ASSUME Inv, type = "idle", NEW part \in Parts, Unpack(Package(part)),
         ParseAndCount(Package(part)), Moves(Package(part)),
         health' = HealthAt(Package(part)), codec' = codec
  PROVE  Between'
<1> SUFFICES ASSUME type' = "idle", health' # "lost"
             PROVE  /\ Counted' /\ Fed'
                    /\ cam'.part # "new" => started'
                    /\ health' = "half" => cam'.kind = "I" /\ cam'.nal >= Pps
  BY DEF Between
<1>1. cam \in Cams /\ CamOK
  BY DEF Inv, TypeOK, Cams
<1>2. /\ ~Bad(Package(part))
      /\ health = "lost" => cam.nal = Vps
      /\ health # "lost" => /\ health' = health
                            /\ Counted /\ Fed
                            /\ cam.part # "new" => started
                            /\ health = "half" => cam.kind = "I" /\ cam.nal >= Pps
  BY HeardLemma
<1>3. /\ Package(part).nal = cam.nal /\ Package(part).part = part
      /\ Package(part).kind = cam.kind
  BY DEF Package
<1>4. cam.kind \in {"I", "P"} /\ cam.nal \in Nat
  BY <1>1, CamFields
<1>5. TypeOf(Package(part)) = "none"
  BY <1>4, <1>3 DEF Unpack, TypeOf
<1>6. part \in {"start", "mid"}
  BY <1>2, <1>3, <1>4, <1>5 DEF TypeOf
<1>7. /\ cam'.tiles = cam.tiles /\ cam'.part = part
      /\ cam'.nal = cam.nal /\ cam'.kind = cam.kind /\ cam.nal >= FirstSlice
  BY <1>1, <1>6, MovesLemma
<1>8. health # "lost" /\ cam.nal # Pps
  BY <1>2, <1>7, <1>4 DEF Vps, Pps, FirstSlice
<1>9. tiles' = tiles /\ cntI' = cntI /\ cntP' = cntP
  BY <1>3, <1>6, <1>8 DEF ParseAndCount, Counts
<1>10. started'
  <2>1. CASE part = "start"
    BY <1>3, <2>1 DEF Unpack
  <2>2. CASE part = "mid"
    BY <1>1, <1>2, <1>8, <2>2, PartsLemma DEF Unpack
  <2> QED BY <1>6, <2>1, <2>2
<1>11. Counted'
  BY <1>2, <1>7, <1>8, <1>9 DEF Counted
<1>12. Fed'
  BY <1>2, <1>7, <1>8 DEF Fed, Unpack
<1> QED BY <1>2, <1>7, <1>8, <1>10, <1>11, <1>12

\* The end of a NAL unit: what do_decode finds in flags and counters.
LEMMA ReceiveUnit ==
  ASSUME Inv, type = "idle", NEW part \in Parts, Unpack(Package(part)),
         ParseAndCount(Package(part)), Moves(Package(part)),
         health' = HealthAt(Package(part)), codec' = codec
  PROVE  Unpacked'
<1> SUFFICES ASSUME type' # "idle", health' # "lost"
             PROVE  cam'.part = "new" /\ IF AtFrameEnd' THEN FrameEnded' ELSE FrameGoesOn'
  BY DEF Unpacked
<1>1. cam \in Cams /\ CamOK
  BY DEF Inv, TypeOK, Cams
<1>2. /\ ~Bad(Package(part))
      /\ health = "lost" => cam.nal = Vps
      /\ health # "lost" => /\ health' = health
                            /\ Counted /\ Fed
                            /\ health = "half" => cam.kind = "I" /\ cam.nal >= Pps
  BY HeardLemma
<1>3. /\ Package(part).nal = cam.nal /\ Package(part).part = part
      /\ Package(part).kind = cam.kind
  BY DEF Package
<1>4. /\ cam.kind \in {"I", "P"} /\ cam.nal \in Nat /\ cam.tiles \in TileCounts
      /\ codec \in {"h264", "h265"} /\ tiles \in Nat
      /\ cntI \in 0 .. CountCap /\ cntP \in 0 .. CountCap
  BY <1>1, CamFields, Caps DEF Inv, TypeOK
<1>5. part \in {"whole", "end"}
  <2>1. TypeOf(Package(part)) # "none"
    BY DEF Unpack
  <2>2. part \notin {"start", "mid"}
    BY <1>3, <2>1 DEF TypeOf
  <2> QED BY <1>1, <2>2, PartsLemma
<1>6. TypeOf(Package(part)) # "none" /\ type' = TypeOf(Package(part))
  BY DEF Unpack
<1>7. type' = IF codec = "h264" THEN IF part = "whole" THEN "PKG" ELSE cam.kind
              ELSE IF cam.nal < FirstSlice THEN "PPS"
              ELSE IF part = "whole" /\ cam.kind = "I" THEN "PKG" ELSE cam.kind
  BY <1>2, <1>3, <1>5, <1>6 DEF TypeOf
<1>8. /\ cam'.tiles = cam.tiles /\ cam'.part = "new"
      /\ cam.nal # LastSlice(cam.tiles) =>
           cam'.nal = cam.nal + 1 /\ cam'.kind = cam.kind /\ ~AtFrameEnd'
      /\ cam.nal = LastSlice(cam.tiles) => AtFrameEnd' /\ cam.nal >= FirstSlice
  BY <1>1, <1>5, MovesLemma
<1>9. /\ cam.nal < FirstSlice => part = "whole" /\ cam.kind = "I"
      /\ cam.kind = "I" /\ cam.tiles > 0 /\ cam.nal >= FirstSlice => part # "whole"
  BY <1>1, PartsLemma
<1>10. /\ cam.tiles \in Nat /\ cam.tiles < CountCap /\ CountCap \in Nat
       /\ Slices(cam.tiles) \in 1 .. CountCap
       /\ LastSlice(cam.tiles) = Slices(cam.tiles) + 1
       /\ LastSlice(cam.tiles) > FirstSlice => Slices(cam.tiles) = cam.tiles
       /\ cam.nal <= LastSlice(cam.tiles)
  BY <1>1, <1>4, Caps DEF CamOK
<1>11. enPps' = enPps
  BY DEF Unpack
<1>12. CASE cam.nal < FirstSlice
  <2>1. /\ part = "whole" /\ cam.kind = "I" /\ cam.nal # LastSlice(cam.tiles)
        /\ cam.nal \in {Vps, Pps}
    BY <1>4, <1>9, <1>10, <1>12 DEF FirstSlice, Vps, Pps
  <2>2. cam'.nal = cam.nal + 1 /\ cam'.kind = "I" /\ ~AtFrameEnd'
    BY <1>8, <2>1
  <2>3. Counted'
    <3> SUFFICES ASSUME codec = "h265", cam'.nal >= FirstSlice
                 PROVE  tiles' = cam.tiles /\ (tiles' > 0 => cntI' = 0 /\ cntP' = 0
                                                             /\ cam'.nal = FirstSlice)
      BY <1>8, <2>2 DEF Counted, FirstSlice
    <3>1. cam.nal = Pps
      BY <2>1, <2>2 DEF FirstSlice, Vps, Pps
    <3> QED BY <1>3, <2>2, <3>1 DEF ParseAndCount, Pps, FirstSlice
  <2>4. cam'.nal >= Pps /\ cam'.nal <= FirstSlice
    BY <2>1, <2>2 DEF Vps, Pps, FirstSlice
  <2>5. type' = "PPS" => codec = "h265" /\ (cam'.nal = FirstSlice => enPps')
    <3>1. type' = "PPS" => codec = "h265"
      BY <1>4, <1>7, <1>12, <2>1
    <3>2. ASSUME cam'.nal = FirstSlice, codec = "h265"
          PROVE  enPps'
      <4>1. cam.nal = Pps
        BY <2>1, <2>2, <3>2 DEF FirstSlice, Vps, Pps
      <4> QED BY <1>2, <1>11, <2>1, <3>2, <4>1 DEF Fed, Vps, Pps
    <3> QED BY <3>1, <3>2
  <2>6. type' = "PKG" => codec = "h264"
    BY <1>4, <1>7, <1>12, <2>1
  <2>7. type' \in {"PPS", "PKG"}
    BY <1>4, <1>7, <1>12, <2>1
  <2> QED BY <1>8, <2>2, <2>3, <2>4, <2>5, <2>6, <2>7 DEF FrameGoesOn
<1>13. CASE cam.nal >= FirstSlice
  <2>1. health # "lost" /\ cam.nal # Pps
    BY <1>2, <1>4, <1>13 DEF Vps, Pps, FirstSlice
  <2>2. tiles' = tiles
    BY <1>3, <2>1 DEF ParseAndCount
  <2>3. codec = "h265" =>
          /\ tiles = cam.tiles
          /\ tiles > 0 => IF cam.kind = "I" THEN cntI = cam.nal - FirstSlice /\ cntP = 0
                          ELSE cntP = cam.nal - FirstSlice
    BY <1>2, <1>13, <2>1 DEF Counted
  <2>4. codec = "h264" => cam.tiles = 0 /\ tiles = 0
    BY <1>1 DEF CamOK
  <2>5. codec = "h265" /\ tiles > 0 =>
          IF cam.kind = "I" THEN cntI' = cam.nal - 1 /\ cntP' = 0
          ELSE cntP' = cam.nal - 1
    <3> SUFFICES ASSUME codec = "h265", tiles > 0
                 PROVE  IF cam.kind = "I" THEN cntI' = cam.nal - 1 /\ cntP' = 0
                        ELSE cntP' = cam.nal - 1
      OBVIOUS
    <3>1. tiles = cam.tiles /\ Slices(cam.tiles) = cam.tiles
      BY <1>4, <2>3 DEF Slices
    <3>2. cam.nal - FirstSlice < CountCap
      BY <1>4, <1>10, <3>1 DEF FirstSlice
    <3>3. CASE cam.kind = "I"
      <4>1. part = "end" /\ cntI = cam.nal - FirstSlice /\ cntP = 0
        BY <1>5, <1>9, <1>13, <2>3, <3>1, <3>3
      <4>2. cntI' = Count(cntI) /\ cntP' = cntP
        BY <1>3, <1>13, <2>1, <3>3, <4>1 DEF ParseAndCount, Counts
      <4>3. Count(cntI) = cntI + 1
        BY <1>4, <3>2, <4>1, CountLemma
      <4> QED BY <1>4, <3>3, <4>1, <4>2, <4>3 DEF FirstSlice
    <3>4. CASE cam.kind = "P"
      <4>1. cntP = cam.nal - FirstSlice
        BY <2>3, <3>4
      <4>2. cntP' = Count(cntP)
        BY <1>3, <1>5, <1>13, <2>1, <3>4 DEF ParseAndCount, Counts
      <4>3. Count(cntP) = cntP + 1
        BY <1>4, <3>2, <4>1, CountLemma
      <4> QED BY <1>4, <3>4, <4>1, <4>2, <4>3 DEF FirstSlice
    <3> QED BY <1>4, <3>3, <3>4
  <2>6. CASE cam.nal = LastSlice(cam.tiles)
    <3>1. AtFrameEnd'
      BY <1>8, <2>6
    <3>2. type' # "PPS"
      BY <1>4, <1>7, <1>13 DEF FirstSlice
    <3>3. health' = "half" => type' # "P"
      BY <1>2, <1>7, <2>1
    <3>4. tiles' = cam'.tiles
      BY <1>4, <1>8, <2>2, <2>3, <2>4
    <3>5. tiles' > 0 => codec' = "h265" /\ type' # "PKG"
      BY <1>4, <1>5, <1>7, <1>9, <1>13, <2>2, <2>3, <2>4
    <3>6. tiles' > 0 => /\ type' = "I" => cntI' = tiles' /\ cntP' = 0
                        /\ type' = "P" => cntP' = tiles'
      <4> SUFFICES ASSUME tiles > 0, type' \in {"I", "P"}
                   PROVE  /\ type' = "I" => cntI' = tiles /\ cntP' = 0
                          /\ type' = "P" => cntP' = tiles
        BY <2>2
      <4>1. codec = "h265" /\ tiles = cam.tiles /\ type' = cam.kind
        BY <1>4, <1>7, <2>3, <2>4, <3>5
      <4>2. cam.nal - 1 = tiles
        BY <1>4, <1>10, <2>6, <4>1 DEF Slices
      <4> QED BY <1>4, <2>5, <4>1, <4>2
    <3> QED BY <1>8, <3>1, <3>2, <3>3, <3>4, <3>5, <3>6 DEF FrameEnded
  <2>7. CASE cam.nal # LastSlice(cam.tiles)
    <3>1. cam'.nal = cam.nal + 1 /\ cam'.kind = cam.kind /\ ~AtFrameEnd'
      BY <1>8, <2>7
    <3>2. cam.tiles > 0 /\ codec = "h265"
      <4>1. LastSlice(cam.tiles) > FirstSlice
        BY <1>4, <1>10, <1>13, <2>7 DEF FirstSlice
      <4> QED BY <1>4, <1>10, <2>4, <4>1
    <3>3. Counted'
      BY <1>4, <1>8, <2>2, <2>3, <2>5, <3>1, <3>2 DEF Counted, FirstSlice
    <3>4. type' = cam.kind
      BY <1>4, <1>7, <1>9, <1>13, <3>2 DEF FirstSlice
    <3>5. cam'.nal >= Pps /\ cam'.nal > FirstSlice
      BY <1>4, <1>13, <3>1 DEF Pps, FirstSlice
    <3>6. type' = "I" => enPps'
      BY <1>2, <1>4, <1>11, <1>13, <2>1, <3>2, <3>4 DEF Fed, Pps, FirstSlice
    <3>7. health' = "half" => cam'.kind = "I"
      BY <1>2, <2>1, <3>1
    <3> QED BY <1>4, <1>8, <3>1, <3>2, <3>3, <3>4, <3>5, <3>6, <3>7 DEF FrameGoesOn
  <2> QED BY <2>6, <2>7
<1> QED BY <1>4, <1>12, <1>13 DEF FirstSlice

\* The buffer behind a package of a stream without a loss.
LEMMA ReceiveBuf ==
  ASSUME Inv, type = "idle", NEW part \in Parts, Unpack(Package(part)),
         ParseAndCount(Package(part)), Moves(Package(part)),
         health' = HealthAt(Package(part)), codec' = codec, Unpacked'
  PROVE  BetweenBuf' /\ UnpackedBuf'
<1> SUFFICES ASSUME health' = "clean"
             PROVE  BetweenBuf' /\ UnpackedBuf'
  BY DEF BetweenBuf, UnpackedBuf
<1> DEFINE pkg == Package(part)
<1>1. cam \in Cams /\ CamOK
  BY DEF Inv, TypeOK, Cams
<1>2. ~Bad(pkg) /\ ~Overflows /\ health = "clean"
  <2>1. HealthAt(pkg) # "lost" /\ HealthAt(pkg) # "half"
    OBVIOUS
  <2>2. ~Bad(pkg) /\ ~Overflows
    BY <2>1, HeardLemma
  <2> QED BY <2>1, <2>2 DEF HealthAt, Inv, TypeOK
<1>3. /\ pkg.nal = cam.nal /\ pkg.part = part
      /\ pkg.kind = cam.kind /\ pkg.frame = cam.frame
  BY DEF Package
<1>4. /\ cam.kind \in {"I", "P"} /\ cam.nal \in Nat /\ cam.tiles \in TileCounts
      /\ codec \in {"h264", "h265"} /\ cam.part \in {"new", "start", "mid"}
      /\ cam.tiles \in Nat
  BY <1>1, CamFields, Caps DEF Inv, TypeOK
<1>5. /\ part \in {"whole", "start", "mid", "end"}
      /\ cam.part = "new" => part \in {"whole", "start"}
      /\ cam.part # "new" => part \in {"mid", "end"}
      /\ cam.nal < FirstSlice => part = "whole" /\ cam.kind = "I" /\ cam.part = "new"
      /\ pkg \in Packages
  BY <1>1, PartsLemma
<1>6. /\ cam'.tiles = cam.tiles
      /\ part \in {"start", "mid"} =>
           /\ cam'.part = part /\ cam'.nal = cam.nal /\ cam'.kind = cam.kind
           /\ cam'.frame = cam.frame /\ cam.nal >= FirstSlice
      /\ part \in {"whole", "end"} => cam'.part = "new"
      /\ part \in {"whole", "end"} /\ cam.nal # LastSlice(cam.tiles) =>
           /\ cam'.nal = cam.nal + 1 /\ cam'.kind = cam.kind
           /\ cam'.frame = cam.frame /\ ~AtFrameEnd'
      /\ part \in {"whole", "end"} /\ cam.nal = LastSlice(cam.tiles) =>
           AtFrameEnd' /\ cam.nal >= FirstSlice
  BY <1>1, MovesLemma
<1>7. buf' = Append(buf, pkg)
  BY <1>2 DEF Unpack, Appended, Bytes
<1>8. buf \in Seq(Packages)
  BY DEF Inv, TypeOK
<1> HIDE DEF pkg
<1>9. CASE buf = <<>>
  <2>1. /\ cam.part = "new"
        /\ codec = "h265" => IF cam.kind = "I" THEN cam.nal \in {Vps, Pps}
                                               ELSE cam.nal = FirstSlice
    BY <1>2, <1>9 DEF Inv, BetweenBuf
  <2>2. /\ buf' # <<>> /\ Last(buf') = pkg /\ Head(buf') = pkg /\ InOrder'
        /\ Len(buf') = 1
    BY <1>5, <1>7, <1>8, <1>9, ChainAppend, EmptySeq
  <2>3. codec = "h264" => cam.nal <= FirstSlice /\ LastSlice(cam.tiles) = FirstSlice
    BY <1>1, <1>4 DEF CamOK, LastSlice, Slices, FirstSlice
  <2>4. ~(codec = "h264" /\ cam.nal < FirstSlice) => HeadOK'
    BY <1>3, <1>4, <2>1, <2>2, <2>3 DEF HeadOK, FirstSlice
  <2>5. Chain'
    BY <1>3, <1>5, <2>1, <2>2 DEF Chain
  <2>6. BetweenBuf'
    <3> SUFFICES ASSUME type' = "idle"
                 PROVE  /\ Chain' /\ HeadOK' /\ Behind'
                        /\ cam'.part # "new"
      BY <2>2 DEF BetweenBuf
    <3>1. part \in {"start", "mid"}
      BY <1>2, <1>3, <1>4, <1>5 DEF Unpack, TypeOf, pkg
    <3>2. Behind'
      BY <1>3, <1>6, <2>2, <3>1 DEF Behind
    <3>3. HeadOK'
      BY <1>4, <1>6, <2>4, <3>1 DEF FirstSlice
    <3> QED BY <1>6, <2>5, <3>1, <3>2, <3>3
  <2>7. UnpackedBuf'
    <3> SUFFICES ASSUME type' # "idle"
                 PROVE  /\ AtFrameEnd' =>
                             /\ HeadOK'
                             /\ Last(buf').nal = LastSlice(cam'.tiles)
                             /\ Last(buf').part \in {"whole", "end"}
                             /\ type' \in {"I", "P"} => Last(buf').kind = type'
                        /\ ~AtFrameEnd' =>
                             /\ Behind'
                             /\ type' = "PKG" \/ cam'.nal = Pps =>
                                  Len(buf') = 1 /\ Head(buf').nal < FirstSlice
                             /\ type' # "PKG" => HeadOK'
      BY <2>5 DEF UnpackedBuf
    <3>1. part = "whole" /\ type' = TypeOf(pkg) /\ TypeOf(pkg) # "none"
      <4>1. TypeOf(pkg) # "none" /\ type' = TypeOf(pkg)
        BY DEF Unpack, pkg
      <4>2. part \notin {"start", "mid"}
        BY <1>3, <4>1 DEF TypeOf
      <4> QED BY <1>5, <2>1, <4>1, <4>2
    <3>2. type' \in {"I", "P"} => pkg.kind = type'
      BY <1>3, <1>4, <3>1 DEF TypeOf
    <3>3. AtFrameEnd' => cam.nal = LastSlice(cam.tiles) /\ cam.nal >= FirstSlice
      BY <1>6, <3>1
    <3>4. AtFrameEnd' => HeadOK'
      BY <1>4, <2>4, <3>3 DEF FirstSlice
    <3>5. ~AtFrameEnd' => /\ cam'.nal = cam.nal + 1 /\ cam'.kind = cam.kind
                          /\ cam'.frame = cam.frame /\ cam'.part = "new"
      BY <1>6, <3>1
    <3>6. ~AtFrameEnd' => Behind'
      BY <1>3, <2>2, <3>1, <3>5 DEF Behind
    <3>7. type' = "PKG" /\ ~AtFrameEnd' => cam.nal < FirstSlice
      <4> SUFFICES ASSUME type' = "PKG", ~AtFrameEnd'
                   PROVE  cam.nal < FirstSlice
        OBVIOUS
      <4>1. FrameGoesOn'
        BY DEF Unpacked
      <4>2. cam'.nal <= FirstSlice
        BY <4>1 DEF FrameGoesOn
      <4> QED BY <1>4, <3>5, <4>2 DEF FirstSlice
    <3>8. cam'.nal = Pps /\ ~AtFrameEnd' => cam.nal < FirstSlice
      BY <1>4, <3>5 DEF Pps, FirstSlice
    <3>9. type' # "PKG" => HeadOK'
      <4>1. type' # "PKG" => codec # "h264"
        BY <1>2, <1>3, <3>1 DEF TypeOf
      <4> QED BY <2>4, <4>1
    <3> QED BY <1>3, <1>6, <2>2, <3>1, <3>2, <3>3, <3>4, <3>6, <3>7, <3>8, <3>9
  <2> QED BY <2>6, <2>7
<1>10. CASE buf # <<>>
  <2>1. /\ Chain /\ HeadOK /\ Behind
        /\ cam.part = "new" => codec = "h265" /\ (cam.kind = "P" => cam.nal > FirstSlice)
    BY <1>2, <1>10 DEF Inv, BetweenBuf
  <2>2. Follows(Last(buf), pkg)
    BY <1>3, <1>4, <1>5, <2>1 DEF Follows, Behind
  <2>3. /\ buf' # <<>> /\ Last(buf') = pkg /\ Head(buf') = Head(buf) /\ InOrder'
    BY <1>5, <1>7, <1>8, <1>10, <2>1, <2>2, ChainAppend DEF Chain
  <2>4. HeadOK'
    BY <1>3, <2>1, <2>3 DEF HeadOK, Behind
  <2>5. Chain'
    BY <2>1, <2>3 DEF Chain
  <2>6. Last(buf).nal \in Nat
    <3>1. Last(buf) \in Packages
      BY <1>8, <1>10, LenProperties, EmptySeq, ElementOfSeq DEF Last
    <3>2. CountCap \in Nat
      BY Caps
    <3> QED BY <3>1, <3>2 DEF Packages, FirstSlice
  <2>7. BetweenBuf'
    <3> SUFFICES ASSUME type' = "idle"
                 PROVE  Chain' /\ HeadOK' /\ Behind' /\ cam'.part # "new"
      BY <2>3 DEF BetweenBuf
    <3>1. part \in {"start", "mid"}
      BY <1>2, <1>3, <1>4, <1>5 DEF Unpack, TypeOf, pkg
    <3>2. Behind'
      BY <1>3, <1>6, <2>3, <3>1 DEF Behind
    <3> QED BY <1>6, <2>4, <2>5, <3>1, <3>2
  <2>8. UnpackedBuf'
    <3> SUFFICES ASSUME type' # "idle"
                 PROVE  /\ AtFrameEnd' =>
                             /\ Last(buf').nal = LastSlice(cam'.tiles)
                             /\ Last(buf').part \in {"whole", "end"}
                             /\ type' \in {"I", "P"} => Last(buf').kind = type'
                        /\ ~AtFrameEnd' =>
                             Behind' /\ ~(type' = "PKG" \/ cam'.nal = Pps)
      BY <2>4, <2>5 DEF UnpackedBuf
    <3>1. part \in {"whole", "end"} /\ type' = TypeOf(pkg) /\ TypeOf(pkg) # "none"
      <4>1. TypeOf(pkg) # "none" /\ type' = TypeOf(pkg)
        BY DEF Unpack, pkg
      <4>2. part \notin {"start", "mid"}
        BY <1>3, <4>1 DEF TypeOf
      <4> QED BY <1>5, <4>1, <4>2
    <3>2. type' \in {"I", "P"} => pkg.kind = type'
      BY <1>3, <1>4, <3>1 DEF TypeOf
    <3>3. AtFrameEnd' => cam.nal = LastSlice(cam.tiles)
      BY <1>6, <3>1
    <3>4. ~AtFrameEnd' => /\ cam'.nal = cam.nal + 1 /\ cam'.kind = cam.kind
                          /\ cam'.frame = cam.frame /\ cam'.part = "new"
      BY <1>6, <3>1
    <3>5. ~AtFrameEnd' => Behind'
      BY <1>3, <2>3, <3>1, <3>4 DEF Behind
    <3>6. ASSUME ~AtFrameEnd', type' = "PKG"
          PROVE  FALSE
      <4>1. FrameGoesOn'
        BY <3>6 DEF Unpacked
      <4>2. codec = "h264" /\ cam'.nal <= FirstSlice
        BY <3>6, <4>1 DEF FrameGoesOn
      <4>3. cam.part = "new"
        BY <1>4, <1>5, <3>4, <3>6, <4>2 DEF FirstSlice
      <4> QED BY <2>1, <4>2, <4>3
    <3>7. ASSUME ~AtFrameEnd', cam'.nal = Pps
          PROVE  FALSE
      <4>1. cam.nal = 0 /\ cam.part = "new"
        BY <1>4, <1>5, <3>4, <3>7 DEF Pps, FirstSlice
      <4> QED BY <2>1, <2>6, <4>1 DEF Behind
    <3> QED BY <1>3, <1>6, <2>3, <3>1, <3>2, <3>3, <3>5, <3>6, <3>7
  <2> QED BY <2>7, <2>8
<1> QED BY <1>9, <1>10
-----------------------------------------------------------------------------
\* When do_decode sends the buffer: at the end of a frame always, else only
\* the first parameter set, or a parameter set of an H.264 stream.
LEMMA CompleteLemma ==
  ASSUME Inv, type # "idle", health # "lost"
  PROVE  /\ AtFrameEnd => Complete
         /\ Complete /\ ~AtFrameEnd =>
              \/ type = "PPS" /\ cam.kind = "I" /\ cam.nal = Pps
              \/ type = "PKG" /\ codec = "h264"
<1>1. IF AtFrameEnd THEN FrameEnded ELSE FrameGoesOn
  BY DEF Inv, Unpacked
<1>2. type \in {"PPS", "I", "P", "PKG"} /\ cam \in Cams /\ tiles \in TileCounts \cup {0}
  BY DEF Inv, TypeOK, Cams
<1>3. /\ cam.tiles \in TileCounts /\ cam.nal \in Nat /\ cam.kind \in {"I", "P"}
      /\ tiles \in Nat
  BY <1>2, CamFields, Caps
<1>4. /\ cam.tiles \in Nat /\ CountCap \in Nat
      /\ Slices(cam.tiles) \in 1 .. CountCap
      /\ LastSlice(cam.tiles) = Slices(cam.tiles) + 1
      /\ LastSlice(cam.tiles) > FirstSlice => Slices(cam.tiles) = cam.tiles
      /\ cam.nal <= LastSlice(cam.tiles)
  BY <1>3, Caps DEF Inv, CamOK
<1>5. AtFrameEnd => Complete
  BY <1>1, <1>2, <1>3 DEF FrameEnded, Complete
<1>6. ASSUME ~AtFrameEnd, type \in {"I", "P"}
      PROVE  ~Complete
  <2>1. /\ codec = "h265" /\ cam.kind = type /\ cam.nal > FirstSlice /\ Counted
    BY <1>1, <1>6 DEF FrameGoesOn
  <2>2. tiles = cam.tiles /\ tiles > 0 /\ cam.nal - FirstSlice < tiles
    BY <1>3, <1>4, <2>1 DEF Counted, FirstSlice
  <2>3. IF cam.kind = "I" THEN cntI = cam.nal - FirstSlice ELSE cntP = cam.nal - FirstSlice
    BY <1>3, <2>1, <2>2 DEF Counted, FirstSlice
  <2> QED BY <1>3, <1>6, <2>1, <2>2, <2>3 DEF Complete, FirstSlice
<1>7. ASSUME ~AtFrameEnd, type = "PPS", ~enPps
      PROVE  cam.kind = "I" /\ cam.nal = Pps
  BY <1>1, <1>3, <1>7 DEF FrameGoesOn, Pps, FirstSlice
<1>8. ASSUME ~AtFrameEnd, type = "PKG"
      PROVE  codec = "h264"
  BY <1>1, <1>8 DEF FrameGoesOn
<1> QED BY <1>2, <1>5, <1>6, <1>7, <1>8 DEF Complete

\* The place of the camera at the end of a frame.
LEMMA FrameEndLemma ==
  ASSUME TypeOK, CamOK, AtFrameEnd
  PROVE  /\ cam.part = "new"
         /\ cam.kind = "I" => cam.nal = Vps
         /\ cam.kind = "P" => cam.nal = FirstSlice
<1>1. cam \in Cams
  BY DEF TypeOK, Cams
<1>2. cam.nal \in Nat /\ cam.kind \in {"I", "P"}
  BY <1>1, CamFields
<1> QED BY <1>2 DEF AtFrameEnd, CamOK, Vps, FirstSlice

\* A camera begins with an I frame.
LEMMA NewCamLemma ==
  ASSUME NEW n \in TileCounts
  PROVE  /\ NewCam(n) \in Cams
         /\ NewCam(n).tiles = n /\ NewCam(n).kind = "I" /\ NewCam(n).nal = 0
         /\ NewCam(n).part = "new" /\ 0 <= LastSlice(n)
<1>1. /\ CountCap \in Nat /\ MaxP \in Nat /\ Slices(n) \in 1 .. CountCap
      /\ LastSlice(n) = Slices(n) + 1
  BY Caps, FrameAssumption
<1> QED BY <1>1 DEF NewCam, Cams, Vps, FirstSlice

\* A package is added to the frame.
LEMMA ReceiveInv ==
  ASSUME Inv, Receive
  PROVE  Inv'
<1> PICK part \in Parts : /\ Unpack(Package(part))
                          /\ ParseAndCount(Package(part))
                          /\ Moves(Package(part))
                          /\ health' = HealthAt(Package(part))
  BY DEF Receive
<1>1. type = "idle" /\ codec' = codec /\ TypeOK /\ CamOK
  BY DEF Receive, Inv
<1>2. TypeOK' /\ CamOK'
  BY <1>1, ReceiveTypes
<1>3. Between'
  BY <1>1, ReceiveFragment
<1>4. Unpacked'
  BY <1>1, ReceiveUnit
<1>5. BetweenBuf' /\ UnpackedBuf'
  BY <1>1, <1>4, ReceiveBuf
<1> QED BY <1>2, <1>3, <1>4, <1>5 DEF Inv

\* A package that does not arrive.
LEMMA LoseInv ==
  ASSUME Inv, Lose
  PROVE  Inv'
<1> PICK part \in Parts : Moves(Package(part))
  BY DEF Lose
<1>1. cam \in Cams /\ CamOK
  BY DEF Inv, TypeOK, Cams
<1>2. /\ cam' \in Cams
      /\ cam'.tiles = cam.tiles /\ cam'.nal <= LastSlice(cam'.tiles)
      /\ cam'.kind = "P" => cam'.nal >= FirstSlice
      /\ cam'.part # "new" => cam'.nal >= FirstSlice
  BY <1>1, MovesLemma
<1>3. /\ health' = "lost" /\ type' = "idle"
      /\ UNCHANGED <<codec, started, enPps, tiles, cntI, cntP, type>>
  BY DEF Lose
<1>4. buf' \in Seq(Packages) /\ Len(buf') <= Capacity
  <2>1. Junk \in Packages
    BY Caps DEF Junk, Packages, FirstSlice
  <2>2. buf \in Seq(Packages) /\ Len(buf) <= Capacity /\ Len(buf) \in Nat
    BY LenProperties DEF Inv, TypeOK
  <2>3. buf' = [i \in 1 .. Len(buf) |-> Junk]
    BY DEF Lose
  <2> HIDE DEF Junk
  <2> QED BY <2>1, <2>2, <2>3
<1>5. TypeOK'
  BY <1>2, <1>3, <1>4 DEF Inv, TypeOK, Cams
<1>6. CamOK'
  BY <1>2, <1>3 DEF Inv, CamOK
<1> QED BY <1>3, <1>5, <1>6 DEF Inv, Between, Unpacked, BetweenBuf, UnpackedBuf

\* The osal thread empties the buffer.
LEMMA RefusedInv ==
  ASSUME Inv, Refused
  PROVE  Inv'
<1>1. /\ health' = "lost" /\ buf' = <<>>
      /\ UNCHANGED <<codec, cam, started, enPps, tiles, cntI, cntP, type>>
  BY DEF Refused
<1>2. <<>> \in Seq(Packages) /\ Len(<<>>) = 0 /\ Capacity \in Nat
  BY EmptySeq, FrameAssumption
<1>3. TypeOK'
  BY <1>1, <1>2 DEF Inv, TypeOK
<1>4. CamOK'
  BY <1>1 DEF Inv, CamOK
<1> QED BY <1>1, <1>3, <1>4 DEF Inv, Between, Unpacked, BetweenBuf, UnpackedBuf

\* A new source: the channel waits for an I frame.
LEMMA RestartInv ==
  ASSUME Inv, Restart
  PROVE  Inv'
<1> PICK n \in TileCounts : (codec = "h264" => n = 0) /\ cam' = NewCam(n)
  BY DEF Restart
<1>1. /\ health' = "clean" /\ buf' = <<>> /\ started' = FALSE /\ enPps' = FALSE
      /\ type = "idle" /\ UNCHANGED <<codec, tiles, cntI, cntP, type>>
  BY DEF Restart
<1>2. /\ cam' \in Cams /\ cam'.tiles = n /\ cam'.kind = "I" /\ cam'.nal = 0
      /\ cam'.part = "new" /\ 0 <= LastSlice(n)
  BY NewCamLemma
<1>3. <<>> \in Seq(Packages) /\ Len(<<>>) = 0 /\ Capacity \in Nat /\ Capacity >= 5
  BY EmptySeq, FrameAssumption
<1>4. TypeOK'
  <2>1. buf' \in Seq(Packages) /\ Len(buf') <= Capacity
    BY <1>1, <1>3
  <2> QED BY <1>1, <1>2, <2>1 DEF Inv, TypeOK, Cams
<1>5. CamOK'
  BY <1>1, <1>2 DEF Inv, CamOK
<1>6. Between'
  BY <1>1, <1>2 DEF Between, Counted, Fed, Pps, FirstSlice
<1>7. BetweenBuf'
  BY <1>1, <1>2 DEF BetweenBuf, Vps
<1> QED BY <1>1, <1>4, <1>5, <1>6, <1>7 DEF Inv, Unpacked, UnpackedBuf

\* do_decode sends what is complete and goes on with the rest.
LEMMA DecodeInv ==
  ASSUME Inv, Decode
  PROVE  Inv'
<1>1. /\ type # "idle" /\ type' = "idle" /\ health' = HealthAfter
      /\ UNCHANGED <<codec, cam, tiles, cntI>>
      /\ enPps' = (enPps \/ type = "PPS")
      /\ cntP' = IF type = "P" /\ Complete THEN 0 ELSE cntP
      /\ IF Complete THEN buf' = <<>> /\ started' = FALSE ELSE UNCHANGED <<buf, started>>
  BY DEF Decode
<1>2. TypeOK /\ CamOK /\ cam \in Cams
  BY DEF Inv, TypeOK, Cams
<1>3. TypeOK'
  <2>1. <<>> \in Seq(Packages) /\ Len(<<>>) = 0 /\ Capacity \in Nat /\ Capacity >= 5
    BY EmptySeq, FrameAssumption
  <2>2. buf' \in Seq(Packages) /\ Len(buf') <= Capacity
    <3>1. buf \in Seq(Packages) /\ Len(buf) <= Capacity
      BY <1>2 DEF TypeOK
    <3>2. buf' = <<>> \/ buf' = buf
      BY <1>1
    <3>3. CASE buf' = <<>>
      BY <2>1, <3>3
    <3>4. CASE buf' = buf
      BY <3>1, <3>4
    <3> QED BY <3>2, <3>3, <3>4
  <2>3. started' \in BOOLEAN
    BY <1>1, <1>2 DEF TypeOK
  <2>4. cntP' \in 0 .. CountCap
    BY <1>1, <1>2, Caps DEF TypeOK
  <2>5. health' \in {"clean", "half", "lost"}
    BY <1>1, <1>2 DEF TypeOK, HealthAfter
  <2> QED BY <1>1, <1>2, <2>2, <2>3, <2>4, <2>5 DEF TypeOK
<1>4. CamOK'
  BY <1>1, <1>2 DEF CamOK
<1>5. ASSUME health' # "lost"
      PROVE  /\ Counted' /\ Fed' /\ cam'.part = "new"
             /\ health' = "half" => cam'.kind = "I" /\ cam'.nal >= Pps
             /\ health' = "clean" => BetweenBuf'
  <2>1. health # "lost"
    BY <1>1, <1>5 DEF HealthAfter
  <2>2. cam.part = "new" /\ IF AtFrameEnd THEN FrameEnded ELSE FrameGoesOn
    BY <1>1, <2>1 DEF Inv, Unpacked
  <2>3. /\ AtFrameEnd => Complete
        /\ Complete /\ ~AtFrameEnd =>
             \/ type = "PPS" /\ cam.kind = "I" /\ cam.nal = Pps
             \/ type = "PKG" /\ codec = "h264"
    BY <1>1, <2>1, CompleteLemma
  <2>4. /\ type \in {"PPS", "I", "P", "PKG"} /\ codec \in {"h264", "h265"}
        /\ cam.kind \in {"I", "P"} /\ cam.nal \in Nat /\ tiles \in Nat
    BY <1>1, <1>2, CamFields, Caps DEF TypeOK
  <2>5. CASE AtFrameEnd
    <3>1. /\ cam.kind = "I" => cam.nal = Vps
          /\ cam.kind = "P" => cam.nal = FirstSlice
      BY <1>2, <2>5, FrameEndLemma
    <3>2. buf' = <<>> /\ FrameEnded /\ Complete
      BY <1>1, <2>2, <2>3, <2>5
    <3>3. Counted'
      <4> SUFFICES ASSUME codec = "h265", cam.kind = "P" \/ cam.nal >= FirstSlice
                   PROVE  /\ tiles = cam.tiles /\ cam.kind = "P"
                          /\ tiles > 0 => cntP' = cam.nal - FirstSlice
        BY <1>1 DEF Counted
      <4>1. cam.kind = "P" /\ cam.nal = FirstSlice /\ tiles = cam.tiles
        BY <2>4, <3>1, <3>2 DEF FrameEnded, Vps, FirstSlice
      <4>2. tiles > 0 => cntP' = 0
        <5> SUFFICES ASSUME tiles > 0
                     PROVE  cntP' = 0
          OBVIOUS
        <5>1. type = "I" \/ type = "P"
          BY <2>4, <3>2 DEF FrameEnded
        <5> QED BY <1>1, <3>2, <5>1 DEF FrameEnded
      <4> QED BY <4>1, <4>2 DEF FirstSlice
    <3>4. Fed'
      BY <1>1, <3>1 DEF Fed, Vps, Pps
    <3>5. health' # "half"
      BY <1>1, <2>5 DEF HealthAfter
    <3>6. BetweenBuf'
      BY <1>1, <2>2, <2>4, <3>1, <3>2 DEF BetweenBuf
    <3> QED BY <1>1, <2>2, <3>3, <3>4, <3>5, <3>6
  <2>6. CASE ~AtFrameEnd
    <3>1. FrameGoesOn /\ health' = health
      BY <1>1, <2>2, <2>6 DEF HealthAfter
    <3>2. cntP' = cntP
      BY <1>1, <2>3, <2>6
    <3>3. Counted'
      BY <1>1, <3>1, <3>2 DEF FrameGoesOn, Counted
    <3>4. Fed'
      BY <1>1, <2>4, <3>1 DEF FrameGoesOn, Fed
    <3>5. health' = "half" => cam'.kind = "I" /\ cam'.nal >= Pps
      BY <1>1, <3>1 DEF FrameGoesOn
    <3>6. health' = "clean" => BetweenBuf'
      <4> SUFFICES ASSUME health = "clean"
                   PROVE  BetweenBuf'
        BY <3>1
      <4>1. CASE Complete
        <5>1. buf' = <<>>
          BY <1>1, <4>1
        <5>2. codec = "h265" => cam.kind = "I" /\ cam.nal = Pps
          BY <2>3, <2>6, <4>1
        <5> QED BY <1>1, <2>2, <5>1, <5>2 DEF BetweenBuf
      <4>2. CASE ~Complete
        <5>1. buf' = buf /\ type # "PKG"
          BY <1>1, <4>2 DEF Complete
        <5>2. Chain /\ Behind /\ HeadOK
          BY <1>1, <2>6, <5>1 DEF Inv, UnpackedBuf
        <5>3. codec = "h265" /\ (cam.kind = "P" => cam.nal > FirstSlice)
          BY <2>4, <3>1, <5>1 DEF FrameGoesOn
        <5>4. Chain' /\ Behind' /\ HeadOK'
          BY <1>1, <5>1, <5>2 DEF Chain, Behind, HeadOK, InOrder
        <5> QED BY <1>1, <5>1, <5>2, <5>3, <5>4 DEF BetweenBuf, Chain
      <4> QED BY <4>1, <4>2
    <3> QED BY <1>1, <2>2, <3>3, <3>4, <3>5, <3>6
  <2> QED BY <2>5, <2>6
<1>6. Between'
  BY <1>5 DEF Between
<1>7. BetweenBuf'
  BY <1>5 DEF BetweenBuf
<1> QED BY <1>1, <1>3, <1>4, <1>6, <1>7 DEF Inv, Unpacked, UnpackedBuf

\* The invariant holds when the channel is set up.
LEMMA InitInv == Init => Inv
<1> SUFFICES ASSUME Init
             PROVE  Inv
  OBVIOUS
<1> PICK n \in TileCounts : (codec = "h264" => n = 0) /\ cam = NewCam(n)
  BY DEF Init
<1>1. /\ cam \in Cams /\ cam.tiles = n /\ cam.kind = "I" /\ cam.nal = 0
      /\ cam.part = "new" /\ 0 <= LastSlice(n)
  BY NewCamLemma
<1>2. <<>> \in Seq(Packages) /\ Len(<<>>) = 0 /\ Capacity \in Nat /\ Capacity >= 5
  BY EmptySeq, FrameAssumption
<1>3. CountCap \in Nat
  BY Caps
<1>4. TypeOK
  <2>1. buf \in Seq(Packages) /\ Len(buf) <= Capacity
    BY <1>2 DEF Init
  <2>2. 0 \in 0 .. CountCap
    BY <1>3
  <2> QED BY <1>1, <2>1, <2>2 DEF Init, TypeOK, Cams
<1>5. CamOK
  BY <1>1 DEF Init, CamOK
<1>6. Between
  BY <1>1 DEF Init, Between, Counted, Fed, Pps, FirstSlice
<1>7. BetweenBuf
  BY <1>1 DEF Init, BetweenBuf, Vps
<1> QED BY <1>4, <1>5, <1>6, <1>7 DEF Init, Inv, Unpacked, UnpackedBuf

\* Every step keeps the invariant.
LEMMA NextInv == Inv /\ [Next]_vars => Inv'
<1> SUFFICES ASSUME Inv, [Next]_vars
             PROVE  Inv'
  OBVIOUS
<1>1. CASE Receive
  BY <1>1, ReceiveInv
<1>2. CASE Discard \/ Skip
  BY <1>2, LoseInv DEF Discard, Skip
<1>3. CASE Decode
  BY <1>3, DecodeInv
<1>4. CASE Refused
  BY <1>4, RefusedInv
<1>5. CASE Restart
  BY <1>5, RestartInv
<1>6. CASE UNCHANGED vars
  BY <1>6 DEF Inv, TypeOK, CamOK, Between, Unpacked, BetweenBuf, UnpackedBuf, vars, channel,
              Counted, Fed, FrameEnded, FrameGoesOn, Chain, HeadOK, Behind, InOrder, AtFrameEnd
<1> QED BY <1>1, <1>2, <1>3, <1>4, <1>5, <1>6 DEF Next
-----------------------------------------------------------------------------
\* At every time counters, flags and buffer stand to the place of the camera
\* in its frame as UnpackRTPH264, UnpackRTPH265 and do_decode expect them.
THEOREM FrameInvariant == Spec => []Inv
<1>1. Init => Inv
  BY InitInv
<1>2. Inv /\ [Next]_vars => Inv'
  BY NextInv
<1> QED BY <1>1, <1>2, PTL DEF Spec

\* The fields of the channel keep their types, and dec->buf never holds more
\* than its capacity.
THEOREM FrameTypes == Spec => []TypeOK
<1>1. Inv => TypeOK
  BY DEF Inv
<1> QED BY <1>1, FrameInvariant, PTL

\* While no package is missing, do_decode sends complete units only.
THEOREM FramesWhole == Spec => []WholeFrames
<1>1. ASSUME Inv, health = "clean", Complete
      PROVE  WholeUnit
  <2>1. type # "idle"
    BY <1>1 DEF Complete
  <2>2. Chain /\ type \in {"PPS", "I", "P", "PKG"}
    BY <1>1, <2>1 DEF Inv, UnpackedBuf, TypeOK
  <2>3. CASE AtFrameEnd
    BY <1>1, <2>1, <2>2, <2>3 DEF Inv, UnpackedBuf, WholeUnit, Chain, HeadOK
  <2>4. CASE ~AtFrameEnd
    <3>1. type = "PKG" \/ cam.nal = Pps
      BY <1>1, <2>1, <2>4, CompleteLemma
    <3>2. Len(buf) = 1 /\ Head(buf).nal < FirstSlice
      BY <1>1, <2>1, <2>4, <3>1 DEF Inv, UnpackedBuf
    <3> QED BY <2>2, <3>2 DEF WholeUnit, Chain
  <2> QED BY <2>3, <2>4
<1>2. Inv => WholeFrames
  BY <1>1 DEF WholeFrames
<1> QED BY <1>2, FrameInvariant, PTL

\* While no package is missing, do_decode leaves nothing of a frame that the
\* camera has ended.
THEOREM FrameLeavesNothing == Spec => []NothingLeft
<1>1. ASSUME Inv, health = "clean", type = "idle", AtFrameEnd, buf # <<>>
      PROVE  FALSE
  <2>1. /\ cam.part = "new"
        /\ cam.kind = "I" => cam.nal = Vps
        /\ cam.kind = "P" => cam.nal = FirstSlice
    BY <1>1, FrameEndLemma DEF Inv
  <2>2. /\ Last(buf).nal + 1 = cam.nal
        /\ cam.kind = "P" => cam.nal > FirstSlice
    BY <1>1, <2>1 DEF Inv, BetweenBuf, Behind
  <2>3. Last(buf).nal \in Nat
    <3>1. Last(buf) \in Packages
      BY <1>1, LenProperties, EmptySeq, ElementOfSeq DEF Last, Inv, TypeOK
    <3>2. CountCap \in Nat
      BY Caps
    <3> QED BY <3>1, <3>2 DEF Packages, FirstSlice
  <2>4. cam.kind \in {"I", "P"}
    BY <1>1 DEF Inv, TypeOK
  <2> QED BY <2>1, <2>2, <2>3, <2>4 DEF Vps, FirstSlice
<1>2. Inv => NothingLeft
  BY <1>1 DEF NothingLeft
<1> QED BY <1>2, FrameInvariant, PTL
=============================================================================
