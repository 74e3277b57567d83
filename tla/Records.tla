-------------------------------- MODULE Records --------------------------------
(***************************************************************************)
(* The version-1 records (ingestion.py, perception.py).  A caller creates  *)
(* a record; it is dumped as a JSON object and kept in a row or a file,    *)
(* where it may be damaged or replaced; it is loaded again.  A record is a *)
(* function of its attributes, an identifier is <<prefix, what it is the   *)
(* digest of>>, and a nested object whose fields are only checked one by   *)
(* one (Fingerprint, Producer, TimeBase, RunOutputs) is a value, or Bad.   *)
(* The bytes of the JSON text and their limit are left out.                *)
(***************************************************************************)
EXTENDS Integers, Sequences, FiniteSets, FiniteSetsExt, Functions, TLC

CONSTANTS
    None,           \* an attribute that is None, a JSON null
    Bad,            \* a value of the wrong type, form or range
    Inputs,         \* schema -> what a caller may create such a record from
    MaxArrayItems, MaxStreams, MaxProducers, MaxTrackPoints

RecordLimits ==
    /\ MaxArrayItems \in Nat /\ MaxStreams \in Nat /\ MaxProducers \in Nat
    /\ MaxTrackPoints \in Nat \ {0}

VARIABLES
    record,         \* what was created, None before
    stored,         \* the object it was dumped as, as it is now; None before
    altered,        \* whether somebody touched it
    loaded          \* what was loaded, Bad if it was refused, None before

vars == <<record, stored, altered, loaded>>

Init == record = None /\ stored = None /\ altered = FALSE /\ loaded = None

-----------------------------------------------------------------------------
(* Objects. *)

Leaf(v) == v \notin {None, Bad}
IsObject(m) == m \notin {None, Bad}

(* _exact_fields *)
ExactFields(m, required, optional) ==
    IsObject(m) /\ required \subseteq DOMAIN m /\ DOMAIN m \subseteq required \cup optional

(* MediaTime: [value, base, basis, method, producer], base a pair. *)
TimeValid(t) ==
    /\ Leaf(t.value) /\ Leaf(t.base)
    /\ \/ t.basis = "measured" /\ t.method = None /\ t.producer = None
       \/ t.basis = "estimated" /\ t.method = "previous_pts_plus_duration" /\ Leaf(t.producer)

TimeMapping(t) ==
    [basis |-> t.basis, time_base |-> t.base, value |-> t.value]
    @@ (IF t.basis = "estimated"
        THEN [estimate |-> [method |-> t.method, producer |-> t.producer]] ELSE <<>>)

TimeOf(m) ==
    [value |-> m.value, base |-> m.time_base, basis |-> m.basis,
     method |-> IF m.basis = "estimated" THEN m.estimate.method ELSE None,
     producer |-> IF m.basis = "estimated" THEN m.estimate.producer ELSE None]

TimeLoads(m) ==
    /\ IsObject(m) /\ "basis" \in DOMAIN m
    /\ LET estimate == IF m.basis = "estimated" THEN {"estimate"} ELSE {}
       IN  /\ ExactFields(m, {"basis", "time_base", "value"} \cup estimate, {})
           /\ estimate # {} => ExactFields(m.estimate, {"method", "producer"}, {})
    /\ TimeValid(TimeOf(m))

(* compare_media_time: exact, without a division. *)
Earlier(t, u) == t.value * t.base[1] * u.base[2] < u.value * u.base[1] * t.base[2]

(* _validate_box: <<x_min, y_min, x_max, y_max>>, half open. *)
BoxFits(b, width, height) ==
    /\ Leaf(b) /\ 0 <= b[1] /\ 0 <= b[2]
    /\ b[1] < b[3] /\ b[3] <= width /\ b[2] < b[4] /\ b[4] <= height

Within(n, size) == IF n < 0 THEN 0 ELSE IF n > size THEN size ELSE n

(* _validate_affine_box: the corners of the producer's box under six       *)
(* rationals <<numerator, denominator>>, rounded outwards and clamped.     *)
AffineBox(c, b, width, height) ==
    LET Image(p, q, r) == {<<p[1] * x * q[2] * r[2] + q[1] * y * p[2] * r[2] + r[1] * p[2] * q[2],
                             p[2] * q[2] * r[2]>> : x \in {b[1], b[3]}, y \in {b[2], b[4]}}
        Low(s, size) == Within(Min({v[1] \div v[2] : v \in s}), size)
        High(s, size) == Within(Max({-((-v[1]) \div v[2]) : v \in s}), size)
        xs == Image(c[1], c[2], c[3])
        ys == Image(c[4], c[5], c[6])
    IN  <<Low(xs, width), Low(ys, height), High(xs, width), High(ys, height)>>

(* Geometry: [width, height, box, measurement, kind, space, coefficients]. *)
GeometryValid(g) ==
    /\ Leaf(g.measurement) /\ Leaf(g.width) /\ Leaf(g.height)
    /\ BoxFits(g.box, g.width, g.height)
    /\ \/ g.kind = "identity" /\ g.space = None /\ g.coefficients = None
       \/ /\ g.kind = "affine_rational" /\ Leaf(g.space) /\ Leaf(g.coefficients)
          /\ BoxFits(g.space.box, g.space.width, g.space.height)
          /\ g.box = AffineBox(g.coefficients, g.space.box, g.width, g.height)

GeometryMapping(g) ==
    [box_xyxy |-> g.box, measurement |-> g.measurement, source_width |-> g.width,
     source_height |-> g.height, space |-> "source_pixels"]
    @@ (IF g.kind = "identity" THEN [transform_to_source |-> [kind |-> "identity"]]
        ELSE [producer_space |-> g.space,
              transform_to_source |-> [kind |-> g.kind, coefficients |-> g.coefficients]])

GeometryOf(m) ==
    LET affine == m.transform_to_source.kind = "affine_rational"
    IN  [width |-> m.source_width, height |-> m.source_height, box |-> m.box_xyxy,
         measurement |-> m.measurement, kind |-> m.transform_to_source.kind,
         space |-> IF affine THEN m.producer_space ELSE None,
         coefficients |-> IF affine THEN m.transform_to_source.coefficients ELSE None]

GeometryLoads(m) ==
    /\ IsObject(m) /\ "transform_to_source" \in DOMAIN m
    /\ IsObject(m.transform_to_source) /\ "kind" \in DOMAIN m.transform_to_source
    /\ LET affine == m.transform_to_source.kind = "affine_rational"
       IN  /\ ExactFields(m.transform_to_source,
                  {"kind"} \cup (IF affine THEN {"coefficients"} ELSE {}), {})
           /\ ExactFields(m, {"box_xyxy", "measurement", "source_height", "source_width", "space",
                  "transform_to_source"} \cup (IF affine THEN {"producer_space"} ELSE {}), {})
    /\ m.space = "source_pixels"
    /\ GeometryValid(GeometryOf(m))

-----------------------------------------------------------------------------
(* The six records: their fields, which of them the identifier names, and  *)
(* the fields that can hold one value only.                                *)

Source ==
    [prefix |-> "src", id |-> "source_id", fields |-> {"fingerprint", "streams"},
     optional |-> {}, named |-> {"fingerprint"},
     fixed |-> [access |-> "private", origin |-> "local_file"]]

FrameRef ==
    [prefix |-> "frm", id |-> "frame_id",
     fields |-> {"source_id", "stream_index", "decode_index", "pts"},
     optional |-> {"duration", "key_frame"},
     named |-> {"source_id", "stream_index", "decode_index", "pts"}, fixed |-> <<>>]

EvidenceRef ==
    [prefix |-> "evi", id |-> "evidence_id", fields |-> {"frame_id", "artifact", "geometry"},
     optional |-> {}, named |-> {"frame_id", "artifact", "geometry"},
     fixed |-> [kind |-> "original_frame", retention |-> "derived_private"]]

RunManifest ==
    [prefix |-> "run", id |-> "run_id",
     fields |-> {"source_id", "producers", "sampling", "state"}, optional |-> {"outputs"},
     named |-> {"source_id", "producers", "sampling"}, fixed |-> [contracts |-> 1]]

Observation ==
    LET fields == {"source_id", "frame_id", "stream_index", "pts", "geometry", "category",
                   "confidence_millionths", "producer"}
    IN  [prefix |-> "obs", id |-> "observation_id", fields |-> fields, optional |-> {},
         named |-> fields, fixed |-> <<>>]

Tracklet ==
    LET fields == {"source_id", "stream_index", "category", "points", "termination", "producer"}
    IN  [prefix |-> "trk", id |-> "tracklet_id", fields |-> fields, optional |-> {},
         named |-> fields, fixed |-> [identity_scope |-> "source_clip", continuity |-> "inferred"]]

Classes == [source |-> Source, frame_ref |-> FrameRef, evidence_ref |-> EvidenceRef,
            run_manifest |-> RunManifest, observation |-> Observation, tracklet |-> Tracklet]

Versions == [schema_version |-> 1, identity_version |-> 1]
Attributes(c) == c.fields \cup c.optional \cup {c.id}

-----------------------------------------------------------------------------
(* What a record may hold. *)

PointMapping(p) == [p EXCEPT !.pts = TimeMapping(@), !.geometry = GeometryMapping(@)]

PointLoads(m) == TimeLoads(m.pts) /\ GeometryLoads(m.geometry)

(* The checks of Source, a stream being [index, rest]. *)
StreamsValid(streams) ==
    /\ Leaf(streams) /\ Len(streams) <= MaxStreams
    /\ \A i, j \in DOMAIN streams : streams[i].index = streams[j].index => i = j

(* The checks of RunManifest: outputs are there exactly when it committed. *)
RunValid(r) ==
    /\ Leaf(r.producers) /\ Len(r.producers) <= MaxProducers
    /\ r.state \in {"preparing", "committed", "failed", "cancelled"}
    /\ (r.state = "committed") = Leaf(r.outputs) /\ r.outputs # Bad
    /\ r.sampling > 0

(* The checks of Tracklet: one scope, one frame and one observation a      *)
(* point, strictly in time, all of one frame size.                         *)
PointsValid(r) ==
    /\ Leaf(r.points) /\ Len(r.points) \in 1..MaxTrackPoints
    /\ \A i \in DOMAIN r.points : TimeValid(r.points[i].pts) /\ GeometryValid(r.points[i].geometry)
    /\ \A i \in DOMAIN r.points : \A f \in {"source_id", "stream_index", "category"} :
           r.points[i][f] = r[f]
    /\ \A i, j \in DOMAIN r.points : i # j =>
           /\ r.points[i].observation_id # r.points[j].observation_id
           /\ r.points[i].frame_id # r.points[j].frame_id
           /\ r.points[i].geometry.width = r.points[j].geometry.width
           /\ r.points[i].geometry.height = r.points[j].geometry.height
    /\ \A i \in 1..(Len(r.points) - 1) : Earlier(r.points[i].pts, r.points[i + 1].pts)

FieldValid(schema, f, v) ==
    CASE f = "pts" -> TimeValid(v)
      [] f = "duration" -> v # None => TimeValid(v)
      [] f = "geometry" -> IF v = None THEN schema = "evidence_ref" ELSE GeometryValid(v)
      [] f = "streams" -> StreamsValid(v)
      [] f \in {"key_frame", "outputs"} -> v # Bad
      [] f = "artifact" -> Leaf(v.sha256) /\ Leaf(v.bytes)
      [] OTHER -> Leaf(v)

-----------------------------------------------------------------------------
(* Mappings and identifiers. *)

Encode(f, v) ==
    CASE v = None -> None
      [] f \in {"pts", "duration"} -> TimeMapping(v)
      [] f = "geometry" -> GeometryMapping(v)
      [] f = "points" -> [i \in DOMAIN v |-> PointMapping(v[i])]
      [] OTHER -> v

(* Slip: the projection of a frame takes its place, not its time. *)
PlacedProjection(schema, r) ==
    [f \in Classes[schema].named \ {"pts"} |->
        IF f = "artifact" THEN r.artifact.sha256 ELSE Encode(f, r[f])]

(* identity_projection: of an artifact only its digest. *)
Projection(schema, r) ==
    [f \in Classes[schema].named |->
        IF f = "artifact" THEN r.artifact.sha256 ELSE Encode(f, r[f])]

Identifier(schema, r) == <<Classes[schema].prefix, Projection(schema, r)>>

(* _validate_shape *)
ShapeFits(m) ==
    \A f \in DOMAIN m \cap {"streams", "producers", "points"} :
        Leaf(m[f]) => Len(m[f]) <= MaxArrayItems

(* The checks of a record.  The limits on a shape are those of the encoder,*)
(* which sees the projection first.                                        *)
FieldsValid(schema, r) ==
    /\ \A f \in Classes[schema].fields \cup Classes[schema].optional : FieldValid(schema, f, r[f])
    /\ schema = "run_manifest" => RunValid(r)
    /\ schema = "tracklet" => PointsValid(r)
    /\ ShapeFits(Projection(schema, r))

(* to_mapping *)
ToMapping(r) ==
    LET c == Classes[r.schema]
        present == c.fields \cup {c.id} \cup {f \in c.optional : r[f] # None}
    IN  [f \in present |-> Encode(f, r[f])] @@ c.fixed @@ Versions @@ [schema |-> r.schema]
        @@ (IF r.schema # "tracklet" THEN <<>>
            ELSE [start_pts |-> TimeMapping(r.points[1].pts),
                  end_pts |-> TimeMapping(r.points[Len(r.points)].pts)])

Decodes(schema, f, v) ==
    CASE f \in {"pts", "duration"} -> TimeLoads(v)
      [] f = "geometry" -> IF v = None THEN schema = "evidence_ref" ELSE GeometryLoads(v)
      [] f = "points" -> Leaf(v) /\ v # <<>> /\ \A i \in DOMAIN v : PointLoads(v[i])
      [] OTHER -> Leaf(v)

Decoded(f, v) ==
    CASE v = None -> None
      [] f \in {"pts", "duration"} -> TimeOf(v)
      [] f = "geometry" -> GeometryOf(v)
      [] f = "points" -> [i \in DOMAIN v |-> [v[i] EXCEPT !.pts = TimeOf(@), !.geometry = GeometryOf(@)]]
      [] OTHER -> v

(* from_mapping *)
RecordOf(m) ==
    [f \in Attributes(Classes[m.schema]) \cup {"schema"} |->
        IF f \in DOMAIN m THEN Decoded(f, m[f]) ELSE None]

(* What a tracklet repeats of its points must agree with them. *)
EndsAgree(m) ==
    /\ TimeLoads(m.start_pts) /\ TimeOf(m.start_pts) = TimeOf(m.points[1].pts)
    /\ TimeLoads(m.end_pts) /\ TimeOf(m.end_pts) = TimeOf(m.points[Len(m.points)].pts)

(* loads_record, _record_fields: the fields, the fixed values, each field, *)
(* and then the checks of the record with its identifier.                  *)
Loads(m) ==
    /\ IsObject(m) /\ "schema" \in DOMAIN m /\ m.schema \in DOMAIN Classes
    /\ LET c == Classes[m.schema]
           fixed == c.fixed @@ Versions
           ends == IF m.schema = "tracklet" THEN {"start_pts", "end_pts"} ELSE {}
       IN  /\ ShapeFits(m)
           /\ ExactFields(m, c.fields \cup {c.id, "schema"} \cup DOMAIN fixed \cup ends, c.optional)
           /\ \A f \in DOMAIN fixed : m[f] = fixed[f]
           /\ \A f \in Attributes(c) \cap DOMAIN m : Decodes(m.schema, f, m[f])
           /\ ends # {} => EndsAgree(m)
           /\ FieldsValid(m.schema, RecordOf(m))
           /\ m[c.id] = Identifier(m.schema, RecordOf(m))

-----------------------------------------------------------------------------
(* A record and what becomes of it. *)

(* Source.create and its siblings; what is not valid is refused. *)
Create(schema, input) ==
    /\ record = None /\ FieldsValid(schema, input)
    /\ record' = (Classes[schema].id :> Identifier(schema, input)) @@ [schema |-> schema] @@ input
    /\ UNCHANGED <<stored, altered, loaded>>

(* dumps_record *)
Dump ==
    /\ record # None /\ stored = None /\ ShapeFits(ToMapping(record))
    /\ stored' = ToMapping(record)
    /\ UNCHANGED <<record, altered, loaded>>

(* One field is lost, is of no use, is null or is not known. *)
Damage(m) ==
    {Restrict(m, DOMAIN m \ {f}) : f \in DOMAIN m}
    \cup {[m EXCEPT ![f] = v] : f \in DOMAIN m, v \in {None, Bad}}
    \cup {m @@ [unknown |-> Bad]}

(* What the objects of other records hold. *)
Kept ==
    [s \in DOMAIN Classes |->
        LET valid == {i \in Inputs[s] : FieldsValid(s, i)}
        IN  [f \in Classes[s].fields \cup Classes[s].optional |-> {Encode(f, i[f]) : i \in valid}]]

(* One field is damaged inside, or is that of another record.              *)
Replaced(m) ==
    LET c == Classes[record.schema]
    IN  UNION {{(f :> v) @@ m : v \in Kept[record.schema][f]} : f \in c.fields \cup c.optional}
        \cup UNION {{[m EXCEPT ![f] = v] : v \in Damage(m[f])} :
                       f \in {g \in DOMAIN m \cap {"pts", "duration", "geometry", "start_pts", "end_pts"} :
                                 m[g] # None}}
Alter ==
    /\ stored # None /\ ~altered /\ loaded = None
    /\ altered' = TRUE
    /\ stored' \in (Damage(stored) \cup Replaced(stored) \cup {Bad}) \ {stored}
    /\ UNCHANGED <<record, loaded>>

Load ==
    /\ stored # None /\ loaded = None
    /\ loaded' = IF Loads(stored) THEN RecordOf(stored) ELSE Bad
    /\ UNCHANGED <<record, stored, altered>>

Next ==
    \/ \E schema \in DOMAIN Classes : \E input \in Inputs[schema] : Create(schema, input)
    \/ Dump \/ Alter \/ Load

Spec == Init /\ [][Next]_vars

-----------------------------------------------------------------------------
(* Records have exactly their attributes, and nothing is read before it is *)
(* written or altered before it is stored.                                 *)
IsRecord(r) ==
    r.schema \in DOMAIN Classes /\ DOMAIN r = Attributes(Classes[r.schema]) \cup {"schema"}

TypeOK ==
    /\ record # None => IsRecord(record)
    /\ stored # None => record # None
    /\ altered \in BOOLEAN /\ (altered => stored # None)
    /\ loaded # None => stored # None /\ (loaded # Bad => IsRecord(loaded))

(* What is created can be written, whatever limits each side checks, and   *)
(* is read back as it was.                                                 *)
CreatedIsStorable ==
    /\ record # None => ShapeFits(ToMapping(record))
    /\ loaded # None /\ ~altered => loaded = record

(* What is read, damaged or not, is exactly what would be written: no      *)
(* second object stands for the same record.                               *)
LoadedIsCanonical == Leaf(loaded) => ToMapping(loaded) = stored

(* What identifiers do not name, besides the size of an artifact. *)
Unnamed == {"streams", "duration", "key_frame", "state", "outputs"}

(* A record that is read under the identifier of the one that was written  *)
(* differs from it at most in what the identifier does not name: whoever   *)
(* knows an identifier knows the source of a frame, the frame and the      *)
(* digest of an evidence reference, the points of a tracklet.              *)
NamesAreBinding ==
    Leaf(loaded) /\ record # None =>
        LET c == Classes[record.schema]
            id == c.id
        IN  (loaded.schema = record.schema /\ loaded[id] = record[id]) =>
                /\ \A f \in c.fields \ (Unnamed \cup {"artifact"}) : loaded[f] = record[f]
                /\ record.schema = "evidence_ref" => loaded.artifact.sha256 = record.artifact.sha256
===============================================================================
