--------------------------- MODULE DetectorGeometry ---------------------------
(***************************************************************************)
(* geometry.py: a detector reports a box in the pixels of its own input, a *)
(* source frame that was rotated, resized and letterboxed.  DetectorTrans- *)
(* form maps the box back to whole source pixels, and extract_rgb24_crop   *)
(* copies these pixels out of the packed frame.  Fractions are compared    *)
(* with their denominators multiplied out, so nothing is rounded twice.    *)
(***************************************************************************)
EXTENDS Integers, Sequences, FiniteSets, SequencesExt

CONSTANTS
    Widths,         \* source widths
    Heights,        \* source heights
    DetectorWidth,  \* of the detector's input
    DetectorHeight,
    Rotations       \* rotation_degrees a container may declare

GeometrySizes ==
    /\ Widths \subseteq Nat \ {0} /\ Heights \subseteq Nat \ {0}
    /\ DetectorWidth \in Nat \ {0} /\ DetectorHeight \in Nat \ {0}
    /\ Rotations \subseteq Int

(* Half-open boxes of a w by h image: <<x_min, y_min, x_max, y_max>>. *)
Boxes(w, h) ==
    {b \in (0..w) \X (0..h) \X (0..w) \X (0..h) : b[1] < b[3] /\ b[2] < b[4]}

VARIABLES
    transform,      \* the DetectorTransform of the frame
    detected,       \* box_xyxy the detector reported
    geometry,       \* the source box, <<>> before
    crop            \* the bytes copied out of the frame, <<>> before

vars == <<transform, detected, geometry, crop>>

(* CropError(empty_source_box). *)
EmptySourceBox == <<"empty_source_box">>

Normalized(degrees) == degrees % 360

Transform == [width : Widths, height : Heights, rotation : {0, 90, 180, 270},
              content : Boxes(DetectorWidth, DetectorHeight)]

TypeOK ==
    /\ transform \in Transform
    /\ detected \in Boxes(DetectorWidth, DetectorHeight)
    /\ geometry \in {<<>>, EmptySourceBox}
                        \cup Boxes(transform.width, transform.height)
    /\ crop \in Seq(0..(3 * transform.width * transform.height - 1))

Init ==
    /\ \E w \in Widths, h \in Heights, r \in Rotations,
          c \in Boxes(DetectorWidth, DetectorHeight) :
            /\ r % 90 = 0
            /\ transform = [width |-> w, height |-> h, rotation |-> Normalized(r),
                            content |-> c]
    /\ detected \in Boxes(DetectorWidth, DetectorHeight)
    /\ geometry = <<>> /\ crop = <<>>

-----------------------------------------------------------------------------
ContentWidth == transform.content[3] - transform.content[1]
ContentHeight == transform.content[4] - transform.content[2]

(* The affine map, one coordinate at a time, as <<numerator, denominator>>. *)
SourceX(x, y) ==
    LET u == x - transform.content[1]  v == y - transform.content[2]
        w == transform.width
    IN  CASE transform.rotation = 0   -> <<u * w, ContentWidth>>
          [] transform.rotation = 90  -> <<v * w, ContentHeight>>
          [] transform.rotation = 180 -> <<(ContentWidth - u) * w, ContentWidth>>
          [] transform.rotation = 270 -> <<(ContentHeight - v) * w, ContentHeight>>

SourceY(x, y) ==
    LET u == x - transform.content[1]  v == y - transform.content[2]
        h == transform.height
    IN  CASE transform.rotation = 0   -> <<v * h, ContentHeight>>
          [] transform.rotation = 90  -> <<(ContentWidth - u) * h, ContentWidth>>
          [] transform.rotation = 180 -> <<(ContentHeight - v) * h, ContentHeight>>
          [] transform.rotation = 270 -> <<u * h, ContentWidth>>

Floor(q) == q[1] \div q[2]
Ceiling(q) == -((-q[1]) \div q[2])

Clamp(n, size) == IF n < 0 THEN 0 ELSE IF n > size THEN size ELSE n

(* Slip: round to the nearest pixel instead of outwards. *)
NearestBox(b) ==
    LET Round(q) == (2 * q[1] + q[2]) \div (2 * q[2])
        xs == {SourceX(x, y) : x \in {b[1], b[3]}, y \in {b[2], b[4]}}
        ys == {SourceY(x, y) : x \in {b[1], b[3]}, y \in {b[2], b[4]}}
    IN  <<Clamp(Min({Round(q) : q \in xs}), transform.width),
          Clamp(Min({Round(q) : q \in ys}), transform.height),
          Clamp(Max({Round(q) : q \in xs}), transform.width),
          Clamp(Max({Round(q) : q \in ys}), transform.height)>>

(* _source_box: the four corners, rounded outwards, within the image. *)
SourceBox(b) ==
    LET xs == {SourceX(x, y) : x \in {b[1], b[3]}, y \in {b[2], b[4]}}
        ys == {SourceY(x, y) : x \in {b[1], b[3]}, y \in {b[2], b[4]}}
    IN  <<Clamp(Min({Floor(q) : q \in xs}), transform.width),
          Clamp(Min({Floor(q) : q \in ys}), transform.height),
          Clamp(Max({Ceiling(q) : q \in xs}), transform.width),
          Clamp(Max({Ceiling(q) : q \in ys}), transform.height)>>

MapBox ==
    /\ geometry = <<>>
    /\ LET b == SourceBox(detected) IN
       geometry' = IF b[1] >= b[3] \/ b[2] >= b[4] THEN EmptySourceBox ELSE b
    /\ UNCHANGED <<transform, detected, crop>>

(* The packed frame: byte n is called n. *)
FrameBytes == [n \in 1..(3 * transform.width * transform.height) |-> n - 1]

(* One row of the box, of the rows below each other in the frame. *)
CropRow(y, b) ==
    SubSeq(FrameBytes, 3 * y * transform.width + 3 * b[1] + 1,
                       3 * y * transform.width + 3 * b[3])

Extract ==
    /\ geometry \in Boxes(transform.width, transform.height)
    /\ crop = <<>>
    /\ LET b == geometry IN
       crop' = FlattenSeq([i \in 1..(b[4] - b[2]) |-> CropRow(b[2] + i - 1, b)])
    /\ UNCHANGED <<transform, detected, geometry>>

Next == MapBox \/ Extract

Spec == Init /\ [][Next]_vars

-----------------------------------------------------------------------------
(* Properties. *)

(* The detector sees the source image turned clockwise by the rotation and  *)
(* scaled into the content box.  The display extent of one source pixel, in *)
(* pixels of the turned image: <<x_min, y_min, x_max, y_max>>.              *)
Displayed(px, py) ==
    LET w == transform.width  h == transform.height IN
    CASE transform.rotation = 0   -> <<px, py, px + 1, py + 1>>
      [] transform.rotation = 90  -> <<h - py - 1, px, h - py, px + 1>>
      [] transform.rotation = 180 -> <<w - px - 1, h - py - 1, w - px, h - py>>
      [] transform.rotation = 270 -> <<py, w - px - 1, py + 1, w - px>>

(* Some of source pixel (px, py) lies inside the detected box. *)
Seen(px, py) ==
    LET d == Displayed(px, py)
        turned == transform.rotation \in {90, 270}
        dw == IF turned THEN transform.height ELSE transform.width
        dh == IF turned THEN transform.width ELSE transform.height
        left == transform.content[1]  top == transform.content[2]
    IN  /\ d[1] * ContentWidth < (detected[3] - left) * dw
        /\ (detected[1] - left) * dw < d[3] * ContentWidth
        /\ d[2] * ContentHeight < (detected[4] - top) * dh
        /\ (detected[2] - top) * dh < d[4] * ContentHeight

(* DetectorTransform.map_box: the source box holds exactly the pixels of    *)
(* which some part was inside the detected box, through every rotation,     *)
(* letterbox and scale; and there is no box exactly when there are none.    *)
BoxIsWhatWasSeen ==
    geometry # <<>> =>
        {p \in (0..transform.width - 1) \X (0..transform.height - 1) : Seen(p[1], p[2])}
          = IF geometry = EmptySourceBox THEN {}
            ELSE (geometry[1]..geometry[3] - 1) \X (geometry[2]..geometry[4] - 1)

(* extract_rgb24_crop: byte n of the crop is the byte of the frame at the   *)
(* crop's own position n moved by the box's corner; nothing is wrapped into *)
(* the next row.                                                            *)
CropIsByteExact ==
    crop # <<>> =>
        LET b == geometry
            w == b[3] - b[1]
        IN  /\ Len(crop) = 3 * w * (b[4] - b[2])
            /\ \A i \in 0..(w - 1), j \in 0..(b[4] - b[2] - 1), channel \in 0..2 :
                 crop[3 * (j * w + i) + channel + 1]
                   = 3 * ((b[2] + j) * transform.width + b[1] + i) + channel
=============================================================================
