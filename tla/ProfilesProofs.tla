---------------------------- MODULE ProfilesProofs ----------------------------
(***************************************************************************)
(* Proofs about Profiles and the least sizes of WireReader: for both       *)
(* formats, every row of the library's own table of least sizes is the sum *)
(* of what its reader reads, for whatever sizes the types it holds have.   *)
(*                                                                         *)
(* The readers are in thirteen tables and the rows in five.  The fields of *)
(* a type are cut into pieces that are the same field several times or a   *)
(* few fields; a piece takes the sum of what its fields take (Piece), and  *)
(* pieces are joined (PieceJoin) until they are the whole type.            *)
(***************************************************************************)
EXTENDS WireReader, DataLemmas, SequenceTheorems

-----------------------------------------------------------------------------
(* Least sizes                                                              *)

\* Tables of sizes of the types
Tables == [Types -> Nat]

\* The elements of fields
LEMMA ElementFacts ==
  ASSUME NEW e \in WireElement
  PROVE  /\ e.base \in {"number", "string", "message"}
         /\ e.base = "number" => e.width \in {1, 2, 4, 8} /\ e.stored \in 1..(Word - 1)
         /\ e.base = "string" => e.bound \in Nat
         /\ e.base = "message" => e.type \in Types
         /\ StorageOf(e) \in 1..(Word - 1)
<1>1. Word \in Nat
  BY WordAssumption
<1>2. \/ e \in [base : {"number"}, width : {1, 2, 4, 8}, stored : 1..(Word - 1)]
      \/ e \in [base : {"number"}, width : {1, 2, 4, 8}, stored : 1..(Word - 1), signed : {TRUE}]
      \/ e \in [base : {"string"}, bound : 0..(Word - 1)]
      \/ e \in [base : {"message"}, type : Types]
  BY DEF WireElement
<1>3. /\ e.base \in {"number", "string", "message"}
      /\ e.base = "number" => e.width \in {1, 2, 4, 8} /\ e.stored \in 1..(Word - 1)
      /\ e.base = "string" => e.bound \in Nat
      /\ e.base = "message" => e.type \in Types
  <2>1. CASE e \in [base : {"number"}, width : {1, 2, 4, 8}, stored : 1..(Word - 1)]
    BY ONLY <2>1
  <2>2. CASE e \in [base : {"number"}, width : {1, 2, 4, 8}, stored : 1..(Word - 1), signed : {TRUE}]
    BY ONLY <2>2
  <2>3. CASE e \in [base : {"string"}, bound : 0..(Word - 1)]
    BY ONLY <1>1, <2>3
  <2>4. CASE e \in [base : {"message"}, type : Types]
    BY ONLY <2>4
  <2> QED BY ONLY <1>2, <2>1, <2>2, <2>3, <2>4
<1>4. StorageOf(e) \in 1..(Word - 1)
  BY <1>3, SizesAssumption DEF StorageOf
<1> QED BY <1>3, <1>4

\* Fields
LEMMA FieldFacts ==
  ASSUME NEW f \in WireField
  PROVE  /\ f.kind \in {"scalar", "array", "sequence"} /\ f.of \in WireElement
         /\ f.kind = "array" => f.length \in Nat
         /\ f.kind = "sequence" => f.bound \in Nat
BY WordAssumption DEF WireField

\* Least sizes are naturals.
LEMMA FieldIsNat ==
  ASSUME NEW form, NEW m \in Tables
  PROVE  /\ \A e \in WireElement : MinimumOf(form, e, m) \in Nat
         /\ \A f \in WireField : FieldMinimum(form, f, m) \in Nat
<1>1. ASSUME NEW e \in WireElement PROVE MinimumOf(form, e, m) \in Nat
  BY ElementFacts DEF MinimumOf, Tables
<1>2. ASSUME NEW f \in WireField PROVE FieldMinimum(form, f, m) \in Nat
  <2>1. MinimumOf(form, f.of, m) \in Nat
    BY <1>1, FieldFacts
  <2> QED BY <2>1, FieldFacts DEF FieldMinimum
<1> QED BY <1>1, <1>2

\* The least size of no fields, of fields and one more, and of fields behind others
LEMMA LayoutOfNone ==
  ASSUME NEW form, NEW m
  PROVE  LayoutMinimum(form, <<>>, m) = 0
<1> DEFINE g == [i \in DOMAIN <<>> |-> FieldMinimum(form, <<>>[i], m)]
<1>1. DOMAIN g = {}
  OBVIOUS
<1> HIDE DEF g
<1>2. SumFunction(g) = 0
  BY <1>1, SumOfNothing DEF SumFunction
<1> QED BY <1>2 DEF LayoutMinimum, g

\* ... of fields and one more, ...
LEMMA LayoutAppend ==
  ASSUME NEW form, NEW m \in Tables, NEW s \in Seq(WireField), NEW f \in WireField
  PROVE  LayoutMinimum(form, Append(s, f), m) = LayoutMinimum(form, s, m) + FieldMinimum(form, f, m)
<1> DEFINE t == Append(s, f)
           n == Len(s)
           g == [i \in DOMAIN s |-> FieldMinimum(form, s[i], m)]
           h == [i \in DOMAIN t |-> FieldMinimum(form, t[i], m)]
<1>1. n \in Nat /\ DOMAIN s = 1..n /\ DOMAIN t = 1..(n + 1) /\ t[n + 1] = f
      /\ \A i \in 1..n : t[i] = s[i] /\ s[i] \in WireField /\ i \in 1..(n + 1)
  OBVIOUS
<1>2. n + 1 \in 1..(n + 1)
  BY <1>1
<1> HIDE DEF t, n
<1>3. DOMAIN g = 1..n /\ DOMAIN h = 1..(n + 1) /\ h[n + 1] = FieldMinimum(form, f, m)
      /\ \A i \in 1..n : h[i] = FieldMinimum(form, s[i], m) /\ g[i] = FieldMinimum(form, s[i], m)
  BY <1>1, <1>2
<1>4. \A x \in WireField : FieldMinimum(form, x, m) \in Int
  BY FieldIsNat, SMTT(20)
<1>5. h[n + 1] \in Int /\ \A i \in 1..n : g[i] \in Int /\ h[i] = g[i]
  BY <1>1, <1>3, <1>4
<1> HIDE DEF g, h
<1>6. SumFunction(h) = SumFunction(g) + h[n + 1]
  BY ONLY <1>1, <1>3, <1>5, SumExtend
<1> QED BY <1>3, <1>6 DEF LayoutMinimum, t, g, h

\* ... of fields behind others.
LEMMA LayoutJoin ==
  ASSUME NEW form, NEW m \in Tables, NEW s \in Seq(WireField), NEW t \in Seq(WireField)
  PROVE  LayoutMinimum(form, s \o t, m) = LayoutMinimum(form, s, m) + LayoutMinimum(form, t, m)
<1>2. \A x \in WireField : FieldMinimum(form, x, m) \in Nat
  BY FieldIsNat
<1> DEFINE u == s \o t
           a == Len(s)
           b == Len(t)
           p == [i \in DOMAIN s |-> FieldMinimum(form, s[i], m)]
           q == [i \in DOMAIN t |-> FieldMinimum(form, t[i], m)]
           r == [i \in DOMAIN u |-> FieldMinimum(form, u[i], m)]
<1>1. a \in Nat /\ b \in Nat /\ DOMAIN s = 1..a /\ DOMAIN t = 1..b /\ DOMAIN u = 1..(a + b)
      /\ (\A i \in 1..a : u[i] = s[i] /\ s[i] \in WireField /\ i \in 1..(a + b))
      /\ (\A i \in 1..b : u[a + i] = t[i] /\ t[i] \in WireField /\ a + i \in 1..(a + b))
      /\ \A i \in 1..(a + b) : u[i] \in WireField
  OBVIOUS
<1> HIDE DEF u, a, b
<1>3. IsRow(p, a) /\ IsRow(q, b) /\ IsRow(r, a + b)
  BY <1>1, <1>2 DEF IsRow
<1>4. (\A i \in 1..a : r[i] = p[i]) /\ (\A i \in 1..b : r[a + i] = q[i])
  BY <1>1
<1> HIDE DEF p, q, r
<1>5. SumFunction(r) = SumFunction(p) + SumFunction(q)
  BY ONLY <1>1, <1>3, <1>4, SumJoin
<1> QED BY <1>5 DEF LayoutMinimum, u, p, q, r

\* The least size of fields is a natural.
LEMMA LayoutIsNat ==
  ASSUME NEW form, NEW m \in Tables, NEW s \in Seq(WireField)
  PROVE  LayoutMinimum(form, s, m) \in Nat
<1> DEFINE n == Len(s)
           L(k) == LayoutMinimum(form, SubSeq(s, 1, k), m)
           T == {k \in 0..n : L(k) \in Nat}
<1>1. n \in Nat /\ SubSeq(s, 1, 0) = <<>> /\ SubSeq(s, 1, n) = s
  OBVIOUS
<1> HIDE DEF n
<1>2. 0 \in T
  <2>1. L(0) = 0
    BY <1>1, LayoutOfNone
  <2> QED BY <1>1, <2>1
<1>3. ASSUME NEW k \in 1..n, k - 1 \in T PROVE k \in T
  <2> DEFINE r == SubSeq(s, 1, k - 1)
  <2>1. r \in Seq(WireField) /\ SubSeq(s, 1, k) = Append(r, s[k]) /\ s[k] \in WireField
    BY DEF n
  <2>2. LayoutMinimum(form, r, m) \in Nat
    BY <1>3
  <2> HIDE DEF r
  <2>3. FieldMinimum(form, s[k], m) \in Nat
    BY ONLY <2>1, m \in Tables, FieldIsNat
  <2>4. LayoutMinimum(form, Append(r, s[k]), m) = LayoutMinimum(form, r, m) + FieldMinimum(form, s[k], m)
    BY ONLY <2>1, m \in Tables, LayoutAppend
  <2>5. L(k) = LayoutMinimum(form, Append(r, s[k]), m)
    BY ONLY <2>1
  <2>6. L(k) \in Nat
    BY ONLY <2>2, <2>3, <2>4, <2>5
  <2> HIDE DEF L
  <2> QED BY <1>1, <2>6
<1>4. 0..n \subseteq T
  <2> HIDE DEF T
  <2> QED BY ONLY <1>1, <1>2, <1>3, Upwards
<1>5. n \in T
  BY <1>1, <1>4
<1> QED BY <1>1, <1>5

-----------------------------------------------------------------------------
(* The tables of the built-in types                                         *)

\* Two tables as one
LEMMA BothFacts ==
  ASSUME NEW f, NEW g
  PROVE  /\ DOMAIN Both(f, g) = DOMAIN f \cup DOMAIN g
         /\ \A x \in DOMAIN f : Both(f, g)[x] = f[x]
         /\ \A x \in DOMAIN g : x \notin DOMAIN f => Both(f, g)[x] = g[x]
BY DEF Both

\* The types that a built-in type holds or has sequences of
Nestable ==
  {"Accel", "AccelWithCovariance", "ChannelFloat32", "Duration", "Header", "Inertia",
   "JoyFeedback", "LaserEcho", "MapMetaData", "MultiArrayDimension", "MultiArrayLayout",
   "NavSatStatus", "Point", "Point32", "PointField", "Polygon", "PolygonInstance",
   "Pose", "PoseStamped", "PoseWithCovariance", "Quaternion", "RegionOfInterest",
   "Time", "Transform", "Twist", "TwistWithCovariance", "Vector3", "Wrench"}

\* The types of each table
TypeNames ==
  [ MotionTypes |-> {"Time", "Duration", "Vector3", "Accel", "Header", "AccelStamped",
       "AccelWithCovariance", "AccelWithCovarianceStamped", "Inertia", "InertiaStamped",
       "Point", "Point32"},
    PoseTypes |-> {"PointStamped", "Polygon", "PolygonInstance", "PolygonInstanceStamped",
       "PolygonStamped", "Quaternion", "Pose", "Pose2D", "PoseArray", "PoseStamped",
       "PoseWithCovariance", "PoseWithCovarianceStamped"},
    TransformTypes |-> {"QuaternionStamped", "Transform", "TransformStamped", "Twist", "TwistStamped",
       "TwistWithCovariance", "TwistWithCovarianceStamped", "Vector3Stamped",
       "VelocityStamped", "Wrench", "WrenchStamped"},
    NavigationTypes |-> {"GridCells", "MapMetaData", "OccupancyGrid", "Odometry", "Path"},
    CameraTypes |-> {"BatteryState", "RegionOfInterest", "CameraInfo", "ChannelFloat32"},
    ImageTypes |-> {"CompressedImage", "FluidPressure", "Illuminance", "Image", "Imu"},
    JointTypes |-> {"JointState", "Joy", "JoyFeedback", "JoyFeedbackArray", "LaserEcho"},
    LaserTypes |-> {"LaserScan", "MagneticField", "MultiDOFJointState"},
    CloudTypes |-> {"MultiEchoLaserScan", "NavSatStatus", "NavSatFix", "PointCloud", "PointField"},
    AmbientTypes |-> {"PointCloud2", "Range", "RelativeHumidity", "Temperature", "TimeReference"},
    ScalarTypes |-> {"Bool", "Byte", "MultiArrayDimension", "MultiArrayLayout", "ByteMultiArray",
       "Char", "ColorRGBA", "std_Duration", "Empty", "Float32"},
    ArrayTypes |-> {"Float32MultiArray", "Float64", "Float64MultiArray", "Int16", "Int16MultiArray",
       "Int32", "Int32MultiArray", "Int64", "Int64MultiArray", "Int8"},
    IntegerTypes |-> {"Int8MultiArray", "String", "std_Time", "UInt16", "UInt16MultiArray", "UInt32",
       "UInt32MultiArray", "UInt64", "UInt64MultiArray", "UInt8", "UInt8MultiArray"} ]

\* The types that the tables have
LEMMA TypesOfTables ==
  ASSUME NEW form
  PROVE  /\ DOMAIN MotionTypes(form) = TypeNames.MotionTypes
         /\ DOMAIN PoseTypes(form) = TypeNames.PoseTypes
         /\ DOMAIN TransformTypes(form) = TypeNames.TransformTypes
         /\ DOMAIN NavigationTypes(form) = TypeNames.NavigationTypes
         /\ DOMAIN CameraTypes(form) = TypeNames.CameraTypes
         /\ DOMAIN ImageTypes(form) = TypeNames.ImageTypes
         /\ DOMAIN JointTypes(form) = TypeNames.JointTypes
         /\ DOMAIN LaserTypes(form) = TypeNames.LaserTypes
         /\ DOMAIN CloudTypes(form) = TypeNames.CloudTypes
         /\ DOMAIN AmbientTypes(form) = TypeNames.AmbientTypes
         /\ DOMAIN ScalarTypes(form) = TypeNames.ScalarTypes
         /\ DOMAIN ArrayTypes(form) = TypeNames.ArrayTypes
         /\ DOMAIN IntegerTypes(form) = TypeNames.IntegerTypes
<1>1. DOMAIN MotionTypes(form) = TypeNames.MotionTypes
  BY DEF MotionTypes, TypeNames
<1>2. DOMAIN PoseTypes(form) = TypeNames.PoseTypes
  BY DEF PoseTypes, TypeNames
<1>3. DOMAIN TransformTypes(form) = TypeNames.TransformTypes
  BY DEF TransformTypes, TypeNames
<1>4. DOMAIN NavigationTypes(form) = TypeNames.NavigationTypes
  BY DEF NavigationTypes, TypeNames
<1>5. DOMAIN CameraTypes(form) = TypeNames.CameraTypes
  BY DEF CameraTypes, TypeNames
<1>6. DOMAIN ImageTypes(form) = TypeNames.ImageTypes
  BY DEF ImageTypes, TypeNames
<1>7. DOMAIN JointTypes(form) = TypeNames.JointTypes
  BY DEF JointTypes, TypeNames
<1>8. DOMAIN LaserTypes(form) = TypeNames.LaserTypes
  BY DEF LaserTypes, TypeNames
<1>9. DOMAIN CloudTypes(form) = TypeNames.CloudTypes
  BY DEF CloudTypes, TypeNames
<1>10. DOMAIN AmbientTypes(form) = TypeNames.AmbientTypes
  BY DEF AmbientTypes, TypeNames
<1>11. DOMAIN ScalarTypes(form) = TypeNames.ScalarTypes
  BY DEF ScalarTypes, TypeNames
<1>12. DOMAIN ArrayTypes(form) = TypeNames.ArrayTypes
  BY DEF ArrayTypes, TypeNames
<1>13. DOMAIN IntegerTypes(form) = TypeNames.IntegerTypes
  BY DEF IntegerTypes, TypeNames
<1> QED BY <1>1, <1>2, <1>3, <1>4, <1>5, <1>6, <1>7, <1>8, <1>9, <1>10, <1>11, <1>12, <1>13

\* What a type reads is in one of the tables.
LEMMA FieldsAreIn ==
  ASSUME NEW form
  PROVE  /\ DOMAIN FieldsIn(form) = DOMAIN MotionTypes(form)
              \cup DOMAIN PoseTypes(form)
              \cup DOMAIN TransformTypes(form)
              \cup DOMAIN NavigationTypes(form)
              \cup DOMAIN CameraTypes(form)
              \cup DOMAIN ImageTypes(form)
              \cup DOMAIN JointTypes(form)
              \cup DOMAIN LaserTypes(form)
              \cup DOMAIN CloudTypes(form)
              \cup DOMAIN AmbientTypes(form)
              \cup DOMAIN ScalarTypes(form)
              \cup DOMAIN ArrayTypes(form)
              \cup DOMAIN IntegerTypes(form)
         /\ \A t \in DOMAIN FieldsIn(form) :
              \/ t \in DOMAIN MotionTypes(form) /\ FieldsIn(form)[t] = MotionTypes(form)[t]
              \/ t \in DOMAIN PoseTypes(form) /\ FieldsIn(form)[t] = PoseTypes(form)[t]
              \/ t \in DOMAIN TransformTypes(form) /\ FieldsIn(form)[t] = TransformTypes(form)[t]
              \/ t \in DOMAIN NavigationTypes(form) /\ FieldsIn(form)[t] = NavigationTypes(form)[t]
              \/ t \in DOMAIN CameraTypes(form) /\ FieldsIn(form)[t] = CameraTypes(form)[t]
              \/ t \in DOMAIN ImageTypes(form) /\ FieldsIn(form)[t] = ImageTypes(form)[t]
              \/ t \in DOMAIN JointTypes(form) /\ FieldsIn(form)[t] = JointTypes(form)[t]
              \/ t \in DOMAIN LaserTypes(form) /\ FieldsIn(form)[t] = LaserTypes(form)[t]
              \/ t \in DOMAIN CloudTypes(form) /\ FieldsIn(form)[t] = CloudTypes(form)[t]
              \/ t \in DOMAIN AmbientTypes(form) /\ FieldsIn(form)[t] = AmbientTypes(form)[t]
              \/ t \in DOMAIN ScalarTypes(form) /\ FieldsIn(form)[t] = ScalarTypes(form)[t]
              \/ t \in DOMAIN ArrayTypes(form) /\ FieldsIn(form)[t] = ArrayTypes(form)[t]
              \/ t \in DOMAIN IntegerTypes(form) /\ FieldsIn(form)[t] = IntegerTypes(form)[t]
<1> DEFINE t13 == IntegerTypes(form)
           t12 == Both(ArrayTypes(form), t13)
           t11 == Both(ScalarTypes(form), t12)
           t10 == Both(AmbientTypes(form), t11)
           t9 == Both(CloudTypes(form), t10)
           t8 == Both(LaserTypes(form), t9)
           t7 == Both(JointTypes(form), t8)
           t6 == Both(ImageTypes(form), t7)
           t5 == Both(CameraTypes(form), t6)
           t4 == Both(NavigationTypes(form), t5)
           t3 == Both(TransformTypes(form), t4)
           t2 == Both(PoseTypes(form), t3)
           t1 == Both(MotionTypes(form), t2)
<1> HIDE DEF t1, t2, t3, t4, t5, t6, t7, t8, t9, t10, t11, t12, t13
<1>1. /\ DOMAIN t13 = DOMAIN IntegerTypes(form)
      /\ \A t \in DOMAIN t13 : t13[t] = IntegerTypes(form)[t]
  BY DEF t13
<1>2. /\ DOMAIN t12 = DOMAIN ArrayTypes(form) \cup DOMAIN t13
      /\ \A t \in DOMAIN t12 :
           \/ t \in DOMAIN ArrayTypes(form) /\ t12[t] = ArrayTypes(form)[t]
           \/ t \in DOMAIN t13 /\ t12[t] = t13[t]
  BY DEF Both, t12
<1>3. /\ DOMAIN t11 = DOMAIN ScalarTypes(form) \cup DOMAIN t12
      /\ \A t \in DOMAIN t11 :
           \/ t \in DOMAIN ScalarTypes(form) /\ t11[t] = ScalarTypes(form)[t]
           \/ t \in DOMAIN t12 /\ t11[t] = t12[t]
  BY DEF Both, t11
<1>4. /\ DOMAIN t10 = DOMAIN AmbientTypes(form) \cup DOMAIN t11
      /\ \A t \in DOMAIN t10 :
           \/ t \in DOMAIN AmbientTypes(form) /\ t10[t] = AmbientTypes(form)[t]
           \/ t \in DOMAIN t11 /\ t10[t] = t11[t]
  BY DEF Both, t10
<1>5. /\ DOMAIN t9 = DOMAIN CloudTypes(form) \cup DOMAIN t10
      /\ \A t \in DOMAIN t9 :
           \/ t \in DOMAIN CloudTypes(form) /\ t9[t] = CloudTypes(form)[t]
           \/ t \in DOMAIN t10 /\ t9[t] = t10[t]
  BY DEF Both, t9
<1>6. /\ DOMAIN t8 = DOMAIN LaserTypes(form) \cup DOMAIN t9
      /\ \A t \in DOMAIN t8 :
           \/ t \in DOMAIN LaserTypes(form) /\ t8[t] = LaserTypes(form)[t]
           \/ t \in DOMAIN t9 /\ t8[t] = t9[t]
  BY DEF Both, t8
<1>7. /\ DOMAIN t7 = DOMAIN JointTypes(form) \cup DOMAIN t8
      /\ \A t \in DOMAIN t7 :
           \/ t \in DOMAIN JointTypes(form) /\ t7[t] = JointTypes(form)[t]
           \/ t \in DOMAIN t8 /\ t7[t] = t8[t]
  BY DEF Both, t7
<1>8. /\ DOMAIN t6 = DOMAIN ImageTypes(form) \cup DOMAIN t7
      /\ \A t \in DOMAIN t6 :
           \/ t \in DOMAIN ImageTypes(form) /\ t6[t] = ImageTypes(form)[t]
           \/ t \in DOMAIN t7 /\ t6[t] = t7[t]
  BY DEF Both, t6
<1>9. /\ DOMAIN t5 = DOMAIN CameraTypes(form) \cup DOMAIN t6
      /\ \A t \in DOMAIN t5 :
           \/ t \in DOMAIN CameraTypes(form) /\ t5[t] = CameraTypes(form)[t]
           \/ t \in DOMAIN t6 /\ t5[t] = t6[t]
  BY DEF Both, t5
<1>10. /\ DOMAIN t4 = DOMAIN NavigationTypes(form) \cup DOMAIN t5
      /\ \A t \in DOMAIN t4 :
           \/ t \in DOMAIN NavigationTypes(form) /\ t4[t] = NavigationTypes(form)[t]
           \/ t \in DOMAIN t5 /\ t4[t] = t5[t]
  BY DEF Both, t4
<1>11. /\ DOMAIN t3 = DOMAIN TransformTypes(form) \cup DOMAIN t4
      /\ \A t \in DOMAIN t3 :
           \/ t \in DOMAIN TransformTypes(form) /\ t3[t] = TransformTypes(form)[t]
           \/ t \in DOMAIN t4 /\ t3[t] = t4[t]
  BY DEF Both, t3
<1>12. /\ DOMAIN t2 = DOMAIN PoseTypes(form) \cup DOMAIN t3
      /\ \A t \in DOMAIN t2 :
           \/ t \in DOMAIN PoseTypes(form) /\ t2[t] = PoseTypes(form)[t]
           \/ t \in DOMAIN t3 /\ t2[t] = t3[t]
  BY DEF Both, t2
<1>13. /\ DOMAIN t1 = DOMAIN MotionTypes(form) \cup DOMAIN t2
      /\ \A t \in DOMAIN t1 :
           \/ t \in DOMAIN MotionTypes(form) /\ t1[t] = MotionTypes(form)[t]
           \/ t \in DOMAIN t2 /\ t1[t] = t2[t]
  BY DEF Both, t1
<1>14. FieldsIn(form) = t1
  BY DEF FieldsIn, t1, t2, t3, t4, t5, t6, t7, t8, t9, t10, t11, t12, t13
<1> QED BY ONLY <1>1, <1>2, <1>3, <1>4, <1>5, <1>6, <1>7, <1>8, <1>9, <1>10, <1>11, <1>12, <1>13, <1>14

\* All of them together
LEMMA ProfileTypesAre ==
  /\ \A form \in Formats : ProfileFields[form] = FieldsIn(form) /\ DOMAIN ProfileFields[form] = ProfileTypes
  /\ ProfileTypes = TypeNames.MotionTypes
       \cup TypeNames.PoseTypes
       \cup TypeNames.TransformTypes
       \cup TypeNames.NavigationTypes
       \cup TypeNames.CameraTypes
       \cup TypeNames.ImageTypes
       \cup TypeNames.JointTypes
       \cup TypeNames.LaserTypes
       \cup TypeNames.CloudTypes
       \cup TypeNames.AmbientTypes
       \cup TypeNames.ScalarTypes
       \cup TypeNames.ArrayTypes
       \cup TypeNames.IntegerTypes
<1>1. ASSUME NEW form
      PROVE  DOMAIN FieldsIn(form) =
               TypeNames.MotionTypes
               \cup TypeNames.PoseTypes
               \cup TypeNames.TransformTypes
               \cup TypeNames.NavigationTypes
               \cup TypeNames.CameraTypes
               \cup TypeNames.ImageTypes
               \cup TypeNames.JointTypes
               \cup TypeNames.LaserTypes
               \cup TypeNames.CloudTypes
               \cup TypeNames.AmbientTypes
               \cup TypeNames.ScalarTypes
               \cup TypeNames.ArrayTypes
               \cup TypeNames.IntegerTypes
  <2>1. DOMAIN FieldsIn(form) =
               DOMAIN MotionTypes(form)
                   \cup DOMAIN PoseTypes(form)
                   \cup DOMAIN TransformTypes(form)
                   \cup DOMAIN NavigationTypes(form)
                   \cup DOMAIN CameraTypes(form)
                   \cup DOMAIN ImageTypes(form)
                   \cup DOMAIN JointTypes(form)
                   \cup DOMAIN LaserTypes(form)
                   \cup DOMAIN CloudTypes(form)
                   \cup DOMAIN AmbientTypes(form)
                   \cup DOMAIN ScalarTypes(form)
                   \cup DOMAIN ArrayTypes(form)
                   \cup DOMAIN IntegerTypes(form)
    BY FieldsAreIn
  <2> QED BY ONLY <2>1, TypesOfTables
<1>2. "cdr" \in Formats /\ \A form \in Formats : ProfileFields[form] = FieldsIn(form)
  BY DEF Formats, ProfileFields
<1> QED BY <1>1, <1>2 DEF ProfileTypes

\* What a built-in type holds is a built-in type.
LEMMA NestableTypes == Nestable \subseteq ProfileTypes
BY ProfileTypesAre DEF Nestable, TypeNames

\* The rows of WireMinimum are in five tables.
RowNames ==
  [ Geometry |-> {"Time", "Duration", "Vector3", "Accel", "Header", "AccelStamped",
                   "AccelWithCovariance", "AccelWithCovarianceStamped", "Inertia",
                   "InertiaStamped", "Point", "Point32", "PointStamped", "Polygon",
                   "PolygonInstance", "PolygonInstanceStamped", "PolygonStamped",
                   "Quaternion", "Pose", "Pose2D", "PoseArray", "PoseStamped",
                   "PoseWithCovariance", "PoseWithCovarianceStamped",
                   "QuaternionStamped", "Transform", "TransformStamped", "Twist",
                   "TwistStamped", "TwistWithCovariance", "TwistWithCovarianceStamped",
                   "Vector3Stamped", "VelocityStamped", "Wrench", "WrenchStamped"},
    Sensor |-> {"GridCells", "MapMetaData", "OccupancyGrid", "Odometry", "Path",
                 "BatteryState", "RegionOfInterest", "CameraInfo", "ChannelFloat32",
                 "CompressedImage", "FluidPressure", "Illuminance", "Image", "Imu",
                 "JointState", "Joy", "JoyFeedback", "JoyFeedbackArray", "LaserEcho",
                 "LaserScan", "MagneticField", "MultiDOFJointState",
                 "MultiEchoLaserScan", "NavSatStatus", "NavSatFix", "PointCloud",
                 "PointField", "PointCloud2", "Range", "RelativeHumidity",
                 "Temperature", "TimeReference"},
    Other |-> {"MultiArrayDimension", "MultiArrayLayout", "ColorRGBA", "String",
                "Empty", "std_Time", "std_Duration"} ]

\* The row of a type, in the table that it is in
LEMMA RowsAreIn ==
  ASSUME NEW form \in Formats
  PROVE  /\ \A t \in RowNames.Geometry : WireTable[form][t] = GeometryWire(form)[t]
         /\ \A t \in RowNames.Sensor : WireTable[form][t] = SensorWire(form)[t]
         /\ \A t \in DOMAIN NumberWire : WireTable[form][t] = NumberWire[t]
         /\ \A t \in DOMAIN ArrayWire : WireTable[form][t] = ArrayWire[t]
         /\ \A t \in RowNames.Other : WireTable[form][t] = OtherWire[t]
<1>1. /\ DOMAIN GeometryWire(form) = RowNames.Geometry /\ DOMAIN SensorWire(form) = RowNames.Sensor
      /\ DOMAIN OtherWire = RowNames.Other
  <2>1. DOMAIN GeometryWire(form) = RowNames.Geometry
    BY DEF GeometryWire, RowNames
  <2>2. DOMAIN SensorWire(form) = RowNames.Sensor
    BY DEF SensorWire, RowNames
  <2>3. DOMAIN OtherWire = RowNames.Other
    BY DEF OtherWire, RowNames
  <2> QED BY <2>1, <2>2, <2>3
<1>2. RowNames.Geometry \cap (RowNames.Sensor \cup DOMAIN NumberWire \cup DOMAIN ArrayWire \cup RowNames.Other) = {}
  BY DEF RowNames, NumberWire, ArrayWire
<1>3. RowNames.Sensor \cap (DOMAIN NumberWire \cup DOMAIN ArrayWire \cup RowNames.Other) = {}
  BY DEF RowNames, NumberWire, ArrayWire
<1>4. /\ DOMAIN NumberWire \cap (DOMAIN ArrayWire \cup RowNames.Other) = {}
      /\ DOMAIN ArrayWire \cap RowNames.Other = {}
  BY DEF RowNames, NumberWire, ArrayWire
<1> DEFINE g == GeometryWire(form)
           s == SensorWire(form)
           n == NumberWire
           a == ArrayWire
           z == OtherWire
           ao == Both(a, z)
           nao == Both(n, ao)
           snao == Both(s, nao)
           all == Both(g, snao)
<1>5. WireTable[form] = all
  BY DEF WireTable, StdWire
<1> HIDE DEF g, s, n, a, z, ao, nao, snao, all
<1>6. /\ DOMAIN ao = DOMAIN a \cup DOMAIN z /\ \A t \in DOMAIN a : ao[t] = a[t]
      /\ \A t \in DOMAIN z : t \notin DOMAIN a => ao[t] = z[t]
  BY DEF Both, ao
<1>7. /\ DOMAIN nao = DOMAIN n \cup DOMAIN ao /\ \A t \in DOMAIN n : nao[t] = n[t]
      /\ \A t \in DOMAIN ao : t \notin DOMAIN n => nao[t] = ao[t]
  BY DEF Both, nao
<1>8. /\ DOMAIN snao = DOMAIN s \cup DOMAIN nao /\ \A t \in DOMAIN s : snao[t] = s[t]
      /\ \A t \in DOMAIN nao : t \notin DOMAIN s => snao[t] = nao[t]
  BY DEF Both, snao
<1>9. /\ DOMAIN all = DOMAIN g \cup DOMAIN snao /\ \A t \in DOMAIN g : all[t] = g[t]
      /\ \A t \in DOMAIN snao : t \notin DOMAIN g => all[t] = snao[t]
  BY DEF Both, all
<1>10. /\ DOMAIN g \cap (DOMAIN s \cup DOMAIN n \cup DOMAIN a \cup DOMAIN z) = {}
       /\ DOMAIN s \cap (DOMAIN n \cup DOMAIN a \cup DOMAIN z) = {}
       /\ DOMAIN n \cap (DOMAIN a \cup DOMAIN z) = {} /\ DOMAIN a \cap DOMAIN z = {}
  BY <1>1, <1>2, <1>3, <1>4 DEF g, s, n, a, z
<1>11. /\ \A t \in DOMAIN g : all[t] = g[t]
       /\ \A t \in DOMAIN s : all[t] = s[t]
       /\ \A t \in DOMAIN n : all[t] = n[t]
       /\ \A t \in DOMAIN a : all[t] = a[t]
       /\ \A t \in DOMAIN z : all[t] = z[t]
  BY ONLY <1>6, <1>7, <1>8, <1>9, <1>10
<1> QED BY <1>1, <1>5, <1>11 DEF g, s, n, a, z

-----------------------------------------------------------------------------
(* What each field takes at least                                           *)

TextMinimum(form) == IF form = "ros1" THEN 4 ELSE 5

\* The elements of built-in types ...
LEMMA ElementsAre ==
  /\ \A w \in {1, 2, 4, 8} : Number(w) \in WireElement /\ Number(w).base = "number" /\ Number(w).width = w
  /\ Text \in WireElement /\ Text.base = "string"
  /\ Small \in WireElement /\ Wide \in WireElement /\ Octet \in WireElement
  /\ \A u \in Types : Nested(u) \in WireElement /\ Nested(u).base = "message" /\ Nested(u).type = u
<1>1. Word \in Nat /\ Word > 288
  BY WordAssumption
<1>2. ASSUME NEW w \in {1, 2, 4, 8}
      PROVE  Number(w) \in WireElement /\ Number(w).base = "number" /\ Number(w).width = w
  <2>1. w \in 1..(Word - 1)
    BY <1>1
  <2>2. Number(w) \in [base : {"number"}, width : {1, 2, 4, 8}, stored : 1..(Word - 1)]
    BY <2>1 DEF Number
  <2>3. Number(w) \in WireElement
    BY ONLY <2>2 DEF WireElement
  <2> QED BY <2>3 DEF Number
<1>3. Text \in WireElement /\ Text.base = "string"
  <2>1. Word - 1 \in 0..(Word - 1)
    BY <1>1
  <2>2. Text \in [base : {"string"}, bound : 0..(Word - 1)]
    BY ONLY <2>1 DEF Text
  <2>3. Text \in WireElement
    BY ONLY <2>2 DEF WireElement
  <2> QED BY <2>3 DEF Text
<1>4. Small \in WireElement /\ Wide \in WireElement
  <2>1. 1 \in 1..(Word - 1) /\ 2 \in 1..(Word - 1)
    BY <1>1
  <2>2. Small \in [base : {"number"}, width : {1, 2, 4, 8}, stored : 1..(Word - 1), signed : {TRUE}]
    BY ONLY <2>1 DEF Small
  <2>3. Wide \in [base : {"number"}, width : {1, 2, 4, 8}, stored : 1..(Word - 1), signed : {TRUE}]
    BY ONLY <2>1 DEF Wide
  <2> QED BY ONLY <2>2, <2>3 DEF WireElement
<1>5. Octet \in WireElement
  BY <1>2 DEF Octet
<1>6. ASSUME NEW u \in Types
      PROVE  Nested(u) \in WireElement /\ Nested(u).base = "message" /\ Nested(u).type = u
  <2>1. Nested(u) \in [base : {"message"}, type : Types]
    BY DEF Nested
  <2>2. Nested(u) \in WireElement
    BY ONLY <2>1 DEF WireElement
  <2> QED BY <2>2 DEF Nested
<1> QED BY <1>2, <1>3, <1>4, <1>5, <1>6

\* ... their fields ...
LEMMA FieldsAre ==
  ASSUME NEW form \in Formats, NEW m \in Tables, NEW e \in WireElement
  PROVE  /\ One(e) \in WireField /\ FieldMinimum(form, One(e), m) = MinimumOf(form, e, m)
         /\ Many(e) \in WireField /\ FieldMinimum(form, Many(e), m) = 4
<1>1. One(e) \in WireField
  <2>1. One(e) \in [kind : {"scalar"}, of : WireElement]
    BY DEF One
  <2> QED BY ONLY <2>1 DEF WireField
<1>2. Many(e) \in WireField
  <2>1. 0 \in 0..(Word - 1)
    BY WordAssumption
  <2>2. Many(e) \in [kind : {"sequence"}, of : WireElement, bound : 0..(Word - 1)]
    BY ONLY <2>1, e \in WireElement DEF Many
  <2> QED BY ONLY <2>2 DEF WireField
<1> QED BY <1>1, <1>2 DEF One, Many, FieldMinimum

\* ... and what each of them takes at least
LEMMA FieldSizes ==
  ASSUME NEW form \in Formats, NEW m \in Tables
  PROVE  /\ N1 \in WireField /\ FieldMinimum(form, N1, m) = 1
         /\ N2 \in WireField /\ FieldMinimum(form, N2, m) = 2
         /\ N4 \in WireField /\ FieldMinimum(form, N4, m) = 4
         /\ N8 \in WireField /\ FieldMinimum(form, N8, m) = 8
         /\ Str \in WireField /\ FieldMinimum(form, Str, m) = TextMinimum(form)
         /\ Smalls \in WireField /\ FieldMinimum(form, Smalls, m) = 4
         /\ Fours \in WireField /\ FieldMinimum(form, Fours, m) = 4
         /\ Eights \in WireField /\ FieldMinimum(form, Eights, m) = 4
         /\ Texts \in WireField /\ FieldMinimum(form, Texts, m) = 4
         /\ Blob \in WireField /\ FieldMinimum(form, Blob, m) = 4
<1>1. \A w \in {1, 2, 4, 8} : One(Number(w)) \in WireField /\ FieldMinimum(form, One(Number(w)), m) = w
  <2> TAKE w \in {1, 2, 4, 8}
  <2>1. MinimumOf(form, Number(w), m) = w
    BY ElementsAre DEF MinimumOf
  <2> QED BY <2>1, ElementsAre, FieldsAre
<1>2. One(Text) \in WireField /\ FieldMinimum(form, One(Text), m) = TextMinimum(form)
  <2>1. MinimumOf(form, Text, m) = TextMinimum(form)
    BY ElementsAre DEF MinimumOf, TextMinimum, Formats
  <2> QED BY <2>1, ElementsAre, FieldsAre
<1>3. \A e \in {Small, Number(4), Number(8), Text, Octet} :
        Many(e) \in WireField /\ FieldMinimum(form, Many(e), m) = 4
  <2>1. Number(4) \in WireElement /\ Number(8) \in WireElement
    BY ElementsAre
  <2> QED BY <2>1, ElementsAre, FieldsAre
<1> QED BY <1>1, <1>2, <1>3 DEF N1, N2, N4, N8, Str, Smalls, Fours, Eights, Texts, Blob

\* A message takes its own least size, and a sequence of them the count.
LEMMA HeldSizes ==
  ASSUME NEW form \in Formats, NEW m \in Tables, NEW u \in Nestable
  PROVE  /\ Of(u) \in WireField /\ FieldMinimum(form, Of(u), m) = m[u] /\ m[u] \in Nat
         /\ List(u) \in WireField /\ FieldMinimum(form, List(u), m) = 4
<1>1. u \in Types
  BY NestableTypes DEF Types
<1>2. Nested(u) \in WireElement /\ Nested(u).base = "message" /\ Nested(u).type = u
  BY <1>1, ElementsAre
<1>3. m[u] \in Nat
  BY <1>1 DEF Tables
<1>4. MinimumOf(form, Nested(u), m) = m[u]
  BY <1>2 DEF MinimumOf
<1> QED BY <1>2, <1>3, <1>4, FieldsAre DEF Of, List

\* An array takes its length times the size of a number.
LEMMA DoublesSizes ==
  ASSUME NEW form \in Formats, NEW m \in Tables, NEW n \in 0..36
  PROVE  Doubles(n) \in WireField /\ FieldMinimum(form, Doubles(n), m) = n * 8
<1>1. Number(8) \in WireElement /\ Number(8).base = "number" /\ Number(8).width = 8
  BY ElementsAre
<1>2. n \in 0..(Word - 1)
  BY WordAssumption
<1>3. Doubles(n) \in [kind : {"array"}, of : WireElement, length : 0..(Word - 1)]
  BY <1>1, <1>2 DEF Doubles
<1>4. Doubles(n) \in WireField
  BY ONLY <1>3 DEF WireField
<1> QED BY <1>1, <1>4 DEF Doubles, FieldMinimum, MinimumOf

-----------------------------------------------------------------------------
(* What fields and rows take at least                                       *)

\* n times the same field
LEMMA RowSize ==
  ASSUME NEW form, NEW m \in Tables, NEW f \in WireField, NEW n \in Nat
  PROVE  Row(n, f) \in Seq(WireField) /\ LayoutMinimum(form, Row(n, f), m) = n * FieldMinimum(form, f, m)
<1> DEFINE c == FieldMinimum(form, f, m)
           Suits(k) == Row(k, f) \in Seq(WireField) /\ LayoutMinimum(form, Row(k, f), m) = k * c
           T == {k \in 0..n : Suits(k)}
<1>1. c \in Nat
  BY FieldIsNat
<1> HIDE DEF c
<1>2. 0 \in T
  <2>1. Row(0, f) = <<>>
    BY DEF Row
  <2>2. LayoutMinimum(form, <<>>, m) = 0 /\ 0 * c = 0 /\ <<>> \in Seq(WireField)
    BY <1>1, LayoutOfNone
  <2>3. Suits(0)
    BY ONLY <2>1, <2>2
  <2> HIDE DEF Suits
  <2> QED BY <2>3
<1>3. ASSUME NEW k \in 1..n, k - 1 \in T PROVE k \in T
  <2> DEFINE r == Row(k - 1, f)
  <2>1. Suits(k - 1)
    BY <1>3
  <2>2. r \in Seq(WireField) /\ LayoutMinimum(form, r, m) = (k - 1) * c
    BY <2>1
  <2>3. Row(k, f) = Append(r, f) /\ Row(k, f) \in Seq(WireField)
    BY DEF Row
  <2> HIDE DEF r
  <2>4. LayoutMinimum(form, Row(k, f), m) = (k - 1) * c + c
    BY ONLY <2>2, <2>3, m \in Tables, f \in WireField, LayoutAppend DEF c
  <2>5. (k - 1) * c + c = k * c
    BY <1>1
  <2>6. Suits(k)
    BY <2>3, <2>4, <2>5
  <2> HIDE DEF Suits
  <2> QED BY <2>6
<1>4. n \in T
  <2>1. 0..n \subseteq T
    <3> HIDE DEF T
    <3> QED BY ONLY <1>2, <1>3, n \in Nat, Upwards
  <2> HIDE DEF T
  <2> QED BY <2>1
<1> QED BY <1>4 DEF c

\* What the types inside of a row take together
NestedMinimum(s, m) == SumFunction([i \in DOMAIN s |-> m[s[i]]])

\* One more nested type in a row of the table
LEMMA NestedAppend ==
  ASSUME NEW m \in Tables, NEW s \in Seq(Types), NEW u \in Types
  PROVE  NestedMinimum(Append(s, u), m) = NestedMinimum(s, m) + m[u]
<1> DEFINE t == Append(s, u)
           n == Len(s)
           g == [i \in DOMAIN s |-> m[s[i]]]
           h == [i \in DOMAIN t |-> m[t[i]]]
<1>1. n \in Nat /\ DOMAIN s = 1..n /\ DOMAIN t = 1..(n + 1) /\ t[n + 1] = u
      /\ \A i \in 1..n : t[i] = s[i] /\ s[i] \in Types /\ i \in 1..(n + 1)
  OBVIOUS
<1>2. n + 1 \in 1..(n + 1)
  BY <1>1
<1> HIDE DEF t, n
<1>3. DOMAIN g = 1..n /\ DOMAIN h = 1..(n + 1) /\ h[n + 1] = m[u]
      /\ \A i \in 1..n : h[i] = m[s[i]] /\ g[i] = m[s[i]]
  BY <1>1, <1>2
<1>4. \A x \in Types : m[x] \in Int
  BY DEF Tables
<1>5. h[n + 1] \in Int /\ \A i \in 1..n : g[i] \in Int /\ h[i] = g[i]
  BY <1>1, <1>3, <1>4
<1> HIDE DEF g, h
<1>6. SumFunction(h) = SumFunction(g) + h[n + 1]
  BY ONLY <1>1, <1>3, <1>5, SumExtend
<1> QED BY <1>3, <1>6 DEF NestedMinimum, t, g, h

\* Up to four of them
LEMMA NestedSizes ==
  ASSUME NEW m \in Tables
  PROVE  /\ NestedMinimum(<<>>, m) = 0
         /\ \A a \in Types : NestedMinimum(<<a>>, m) = m[a]
         /\ \A a, b \in Types : NestedMinimum(<<a, b>>, m) = m[a] + m[b]
         /\ \A a, b, c \in Types : NestedMinimum(<<a, b, c>>, m) = m[a] + m[b] + m[c]
         /\ \A a, b, c, d \in Types : NestedMinimum(<<a, b, c, d>>, m) = m[a] + m[b] + m[c] + m[d]
<1> DEFINE N(s) == NestedMinimum(s, m)
<1>0. N(<<>>) = 0
  <2> DEFINE g == [i \in DOMAIN <<>> |-> m[<<>>[i]]]
  <2>1. DOMAIN g = {}
    OBVIOUS
  <2> HIDE DEF g
  <2>2. SumFunction(g) = 0
    BY <2>1, SumOfNothing DEF SumFunction
  <2> QED BY <2>2 DEF NestedMinimum, g
<1>a. \A s \in Seq(Types), x \in Types : N(Append(s, x)) = N(s) + m[x]
  BY NestedAppend
<1>b. \A x \in Types : m[x] \in Nat
  BY DEF Tables
<1> HIDE DEF N
<1>1. \A a \in Types : N(<<a>>) = m[a]
  <2> TAKE a \in Types
  <2> DEFINE r == <<>>
             t == <<a>>
  <2>1. t = Append(r, a) /\ r \in Seq(Types)
    OBVIOUS
  <2>2. N(r) = 0
    BY ONLY <1>0
  <2> HIDE DEF r, t
  <2>3. N(t) = m[a]
    BY ONLY <1>a, <1>b, <2>1, <2>2, a \in Types
  <2> QED BY ONLY <2>3 DEF t
<1>2. \A a, b \in Types : N(<<a, b>>) = m[a] + m[b]
  <2> TAKE a, b \in Types
  <2> DEFINE r == <<a>>
             t == <<a, b>>
  <2>1. t = Append(r, b) /\ r \in Seq(Types)
    OBVIOUS
  <2>2. N(r) = m[a]
    BY ONLY <1>1, a \in Types
  <2> HIDE DEF r, t
  <2>3. N(t) = m[a] + m[b]
    BY ONLY <1>a, <1>b, <2>1, <2>2, b \in Types
  <2> QED BY ONLY <2>3 DEF t
<1>3. \A a, b, c \in Types : N(<<a, b, c>>) = m[a] + m[b] + m[c]
  <2> TAKE a, b, c \in Types
  <2> DEFINE r == <<a, b>>
             t == <<a, b, c>>
  <2>1. t = Append(r, c) /\ r \in Seq(Types)
    OBVIOUS
  <2>2. N(r) = m[a] + m[b]
    BY ONLY <1>2, a \in Types, b \in Types
  <2> HIDE DEF r, t
  <2>3. N(t) = m[a] + m[b] + m[c]
    BY ONLY <1>a, <1>b, <2>1, <2>2, c \in Types
  <2> QED BY ONLY <2>3 DEF t
<1>4. \A a, b, c, d \in Types : N(<<a, b, c, d>>) = m[a] + m[b] + m[c] + m[d]
  <2> TAKE a, b, c, d \in Types
  <2> DEFINE r == <<a, b, c>>
             t == <<a, b, c, d>>
  <2>1. t = Append(r, d) /\ r \in Seq(Types)
    OBVIOUS
  <2>2. N(r) = m[a] + m[b] + m[c]
    BY ONLY <1>3, a \in Types, b \in Types, c \in Types
  <2> HIDE DEF r, t
  <2>3. N(t) = m[a] + m[b] + m[c] + m[d]
    BY ONLY <1>a, <1>b, <2>1, <2>2, d \in Types
  <2> QED BY ONLY <2>3 DEF t
<1> QED BY <1>0, <1>1, <1>2, <1>3, <1>4 DEF N

\* The elements of short sequences
LEMMA TupleSets ==
  /\ ToSet(<<>>) = {}
  /\ \A a : ToSet(<<a>>) = {a}
  /\ \A a, b : ToSet(<<a, b>>) = {a, b}
  /\ \A a, b, c : ToSet(<<a, b, c>>) = {a, b, c}
  /\ \A a, b, c, d : ToSet(<<a, b, c, d>>) = {a, b, c, d}
  /\ \A a, b, c, d, e : ToSet(<<a, b, c, d, e>>) = {a, b, c, d, e}
  /\ \A a, b, c, d, e, f : ToSet(<<a, b, c, d, e, f>>) = {a, b, c, d, e, f}
  /\ \A a, b, c, d, e, f, g : ToSet(<<a, b, c, d, e, f, g>>) = {a, b, c, d, e, f, g}
BY DEF ToSet

-----------------------------------------------------------------------------
(* Pieces of what a type reads, and rows of its table                       *)

Sized(form, m, f, n) == f \in WireField /\ FieldMinimum(form, f, m) = n /\ n \in Nat
\* The fields of s take n bytes at least, and hold the types of the set.
Piece(form, m, s, n, types) ==
  s \in Seq(WireField) /\ LayoutMinimum(form, s, m) = n /\ n \in Nat /\ types \subseteq HeldIn(s)
RowIs(form, m, row, n, types) == RowMinimum(form, row, m) = n /\ ToSet(row.nested) = types
Matches(form, m, fields, row) ==
  /\ fields \in Seq(WireField)
  /\ ToSet(row.nested) \subseteq HeldIn(fields) \cap Nestable
  /\ LayoutMinimum(form, fields, m) = RowMinimum(form, row, m)

\* The types of scalar fields are held by value.
LEMMA HeldTypes ==
  ASSUME NEW s, NEW u \in Types, Of(u) \in ToSet(s)
  PROVE  u \in HeldIn(s)
<1>1. Of(u).kind = "scalar" /\ Of(u).of.base = "message" /\ Of(u).of.type = u
  BY DEF Of, One, Nested
<1> QED BY <1>1 DEF HeldIn

\* A piece behind a piece
LEMMA PieceJoin ==
  ASSUME NEW form, NEW m \in Tables, NEW s, NEW t, NEW k, NEW n, NEW A, NEW B,
         Piece(form, m, s, k, A), Piece(form, m, t, n, B)
  PROVE  Piece(form, m, s \o t, k + n, A \cup B)
<1>1. s \o t \in Seq(WireField) /\ LayoutMinimum(form, s \o t, m) = k + n
  BY LayoutJoin DEF Piece
<1>2. ToSet(s) \subseteq ToSet(s \o t) /\ ToSet(t) \subseteq ToSet(s \o t)
  <2>1. s \in Seq(WireField) /\ t \in Seq(WireField)
    BY DEF Piece
  <2> DEFINE u == s \o t
             a == Len(s)
             b == Len(t)
  <2>2. a \in Nat /\ b \in Nat /\ DOMAIN s = 1..a /\ DOMAIN t = 1..b /\ DOMAIN u = 1..(a + b)
      /\ (\A i \in 1..a : u[i] = s[i] /\ i \in 1..(a + b))
      /\ (\A i \in 1..b : u[a + i] = t[i] /\ a + i \in 1..(a + b))
    BY <2>1
  <2> HIDE DEF u, a, b
  <2>3. ToSet(s) \subseteq ToSet(u) /\ ToSet(t) \subseteq ToSet(u)
    BY ONLY <2>2 DEF ToSet
  <2> QED BY <2>3 DEF u
<1>3. A \cup B \subseteq HeldIn(s \o t)
  BY <1>2 DEF Piece, HeldIn
<1> QED BY <1>1, <1>3 DEF Piece

\* The same field several times
LEMMA PieceOfRow ==
  ASSUME NEW form, NEW m \in Tables, NEW f, NEW k, Sized(form, m, f, k)
  PROVE  /\ Piece(form, m, Row(3, f), 3 * k, {}) /\ Piece(form, m, Row(4, f), 4 * k, {})
         /\ Piece(form, m, Row(6, f), 6 * k, {}) /\ Piece(form, m, Row(7, f), 7 * k, {})
<1>1. ASSUME NEW n \in Nat PROVE Piece(form, m, Row(n, f), n * k, {})
  <2>1. f \in WireField /\ FieldMinimum(form, f, m) = k /\ k \in Nat
    BY DEF Sized
  <2>2. Row(n, f) \in Seq(WireField) /\ LayoutMinimum(form, Row(n, f), m) = n * k
    BY <2>1, RowSize
  <2>3. n * k \in Nat
    BY <2>1
  <2> QED BY <2>2, <2>3 DEF Piece
<1> QED BY <1>1

\* What a row of the table adds up to
LEMMA RowsOfNested ==
  ASSUME NEW form \in Formats, NEW m \in Tables, NEW b \in Nat, NEW s, NestedMinimum(s, m) \in Nat
  PROVE  /\ RowIs(form, m, Wire(b, 0, s), b + NestedMinimum(s, m), ToSet(s))
         /\ RowIs(form, m, Wire(b, 1, s), b + TextMinimum(form) + NestedMinimum(s, m), ToSet(s))
         /\ RowIs(form, m, Wire(b, 2, s), b + 2 * TextMinimum(form) + NestedMinimum(s, m), ToSet(s))
<1>1. ASSUME NEW x \in Nat
      PROVE  RowIs(form, m, Wire(b, x, s), b + x * TextMinimum(form) + NestedMinimum(s, m), ToSet(s))
  <2>1. Wire(b, x, s).bytes = b /\ Wire(b, x, s).texts = x /\ Wire(b, x, s).nested = s
    BY DEF Wire
  <2> QED BY <2>1 DEF RowIs, RowMinimum, NestedMinimum, TextMinimum
<1>2. TextMinimum(form) \in Nat
  BY DEF TextMinimum
<1>3. /\ b + 0 * TextMinimum(form) + NestedMinimum(s, m) = b + NestedMinimum(s, m)
      /\ b + 1 * TextMinimum(form) + NestedMinimum(s, m) = b + TextMinimum(form) + NestedMinimum(s, m)
  BY <1>2
<1>4. /\ RowIs(form, m, Wire(b, 0, s), b + 0 * TextMinimum(form) + NestedMinimum(s, m), ToSet(s))
      /\ RowIs(form, m, Wire(b, 1, s), b + 1 * TextMinimum(form) + NestedMinimum(s, m), ToSet(s))
      /\ RowIs(form, m, Wire(b, 2, s), b + 2 * TextMinimum(form) + NestedMinimum(s, m), ToSet(s))
  <2>1. 0 \in Nat /\ 1 \in Nat /\ 2 \in Nat
    OBVIOUS
  <2> QED BY ONLY <1>1, <2>1
<1> QED BY ONLY <1>3, <1>4

\* A type matches its row if both add up to the same.
LEMMA MatchesIf ==
  ASSUME NEW form, NEW m, NEW s, NEW row, NEW n, NEW k, NEW A, NEW B,
         Piece(form, m, s, n, B), RowIs(form, m, row, k, A), n = k, A \subseteq B, A \subseteq Nestable
  PROVE  Matches(form, m, s, row)
BY DEF Piece, RowIs, Matches

\* A field behind a piece
LEMMA PieceAppend ==
  ASSUME NEW form, NEW m \in Tables, NEW s, NEW n, NEW A, NEW f, NEW k,
         Piece(form, m, s, n, A), Sized(form, m, f, k)
  PROVE  Piece(form, m, Append(s, f), n + k, A \cup {u \in Types : Of(u) = f})
<1> DEFINE t == Append(s, f)
<1>1. s \in Seq(WireField) /\ LayoutMinimum(form, s, m) = n /\ n \in Nat /\ A \subseteq HeldIn(s)
      /\ f \in WireField /\ FieldMinimum(form, f, m) = k /\ k \in Nat
  BY DEF Piece, Sized
<1>2. t \in Seq(WireField) /\ ToSet(s) \subseteq ToSet(t) /\ f \in ToSet(t)
  <2> DEFINE l == Len(s)
  <2>1. /\ t \in Seq(WireField) /\ l \in Nat /\ DOMAIN s = 1..l /\ DOMAIN t = 1..(l + 1) /\ t[l + 1] = f
        /\ \A i \in 1..l : t[i] = s[i]
    BY <1>1
  <2> HIDE DEF l, t
  <2>2. l + 1 \in 1..(l + 1) /\ \A i \in 1..l : i \in 1..(l + 1)
    BY <2>1
  <2> QED BY ONLY <2>1, <2>2 DEF ToSet
<1> HIDE DEF t
<1>3. LayoutMinimum(form, t, m) = n + k
  BY ONLY <1>1, m \in Tables, LayoutAppend DEF t
<1>4. A \subseteq HeldIn(t) /\ {u \in Types : Of(u) = f} \subseteq HeldIn(t)
  <2>1. HeldIn(s) \subseteq HeldIn(t)
    BY <1>2 DEF HeldIn
  <2> QED BY <1>1, <1>2, <2>1, HeldTypes
<1> QED BY <1>1, <1>2, <1>3, <1>4 DEF Piece, t

\* Pieces of up to seven fields
LEMMA PieceOfNone ==
  ASSUME NEW form, NEW m
  PROVE  Piece(form, m, <<>>, 0, {})
BY LayoutOfNone DEF Piece

LEMMA PieceOf1 ==
  ASSUME NEW form, NEW m \in Tables, NEW a, NEW aa,
         Sized(form, m, a, aa)
  PROVE  Piece(form, m, <<a>>, aa, {u \in Types : Of(u) \in {a}})
<1> DEFINE r == <<>>
           t == <<a>>
           n == 0
           A == {}
<1>1. Piece(form, m, r, n, A) /\ t = Append(r, a)
  BY PieceOfNone
<1>2. A \cup {u \in Types : Of(u) = a} = {u \in Types : Of(u) \in {a}}
  OBVIOUS
<1>3. n + aa = aa
  BY DEF Sized
<1> HIDE DEF r, t, n, A
<1>4. Piece(form, m, t, n + aa, A \cup {u \in Types : Of(u) = a})
  BY <1>1, PieceAppend
<1> QED BY <1>2, <1>3, <1>4 DEF t

LEMMA PieceOf2 ==
  ASSUME NEW form, NEW m \in Tables, NEW a, NEW aa, NEW b, NEW bb,
         Sized(form, m, a, aa), Sized(form, m, b, bb)
  PROVE  Piece(form, m, <<a, b>>, aa + bb, {u \in Types : Of(u) \in {a, b}})
<1> DEFINE r == <<a>>
           t == <<a, b>>
           n == aa
           A == {u \in Types : Of(u) \in {a}}
<1>1. Piece(form, m, r, n, A) /\ t = Append(r, b)
  BY PieceOf1
<1>2. A \cup {u \in Types : Of(u) = b} = {u \in Types : Of(u) \in {a, b}}
  OBVIOUS
<1>3. n + bb = aa + bb
  BY DEF Sized
<1> HIDE DEF r, t, n, A
<1>4. Piece(form, m, t, n + bb, A \cup {u \in Types : Of(u) = b})
  BY <1>1, PieceAppend
<1> QED BY <1>2, <1>3, <1>4 DEF t

LEMMA PieceOf3 ==
  ASSUME NEW form, NEW m \in Tables, NEW a, NEW aa, NEW b, NEW bb, NEW c, NEW cc,
         Sized(form, m, a, aa), Sized(form, m, b, bb), Sized(form, m, c, cc)
  PROVE  Piece(form, m, <<a, b, c>>, aa + bb + cc, {u \in Types : Of(u) \in {a, b, c}})
<1> DEFINE r == <<a, b>>
           t == <<a, b, c>>
           n == aa + bb
           A == {u \in Types : Of(u) \in {a, b}}
<1>1. Piece(form, m, r, n, A) /\ t = Append(r, c)
  BY PieceOf2
<1>2. A \cup {u \in Types : Of(u) = c} = {u \in Types : Of(u) \in {a, b, c}}
  OBVIOUS
<1>3. n + cc = aa + bb + cc
  BY DEF Sized
<1> HIDE DEF r, t, n, A
<1>4. Piece(form, m, t, n + cc, A \cup {u \in Types : Of(u) = c})
  BY <1>1, PieceAppend
<1> QED BY <1>2, <1>3, <1>4 DEF t

LEMMA PieceOf4 ==
  ASSUME NEW form, NEW m \in Tables, NEW a, NEW aa, NEW b, NEW bb, NEW c, NEW cc, NEW d, NEW dd,
         Sized(form, m, a, aa), Sized(form, m, b, bb), Sized(form, m, c, cc), Sized(form, m, d, dd)
  PROVE  Piece(form, m, <<a, b, c, d>>, aa + bb + cc + dd, {u \in Types : Of(u) \in {a, b, c, d}})
<1> DEFINE r == <<a, b, c>>
           t == <<a, b, c, d>>
           n == aa + bb + cc
           A == {u \in Types : Of(u) \in {a, b, c}}
<1>1. Piece(form, m, r, n, A) /\ t = Append(r, d)
  BY PieceOf3
<1>2. A \cup {u \in Types : Of(u) = d} = {u \in Types : Of(u) \in {a, b, c, d}}
  OBVIOUS
<1>3. n + dd = aa + bb + cc + dd
  BY DEF Sized
<1> HIDE DEF r, t, n, A
<1>4. Piece(form, m, t, n + dd, A \cup {u \in Types : Of(u) = d})
  BY <1>1, PieceAppend
<1> QED BY <1>2, <1>3, <1>4 DEF t

LEMMA PieceOf5 ==
  ASSUME NEW form, NEW m \in Tables, NEW a, NEW aa, NEW b, NEW bb, NEW c, NEW cc, NEW d, NEW dd, NEW e, NEW ee,
         Sized(form, m, a, aa), Sized(form, m, b, bb), Sized(form, m, c, cc), Sized(form, m, d, dd), Sized(form, m, e, ee)
  PROVE  Piece(form, m, <<a, b, c, d, e>>, aa + bb + cc + dd + ee, {u \in Types : Of(u) \in {a, b, c, d, e}})
<1> DEFINE r == <<a, b, c, d>>
           t == <<a, b, c, d, e>>
           n == aa + bb + cc + dd
           A == {u \in Types : Of(u) \in {a, b, c, d}}
<1>1. Piece(form, m, r, n, A) /\ t = Append(r, e)
  BY PieceOf4
<1>2. A \cup {u \in Types : Of(u) = e} = {u \in Types : Of(u) \in {a, b, c, d, e}}
  OBVIOUS
<1>3. n + ee = aa + bb + cc + dd + ee
  BY DEF Sized
<1> HIDE DEF r, t, n, A
<1>4. Piece(form, m, t, n + ee, A \cup {u \in Types : Of(u) = e})
  BY <1>1, PieceAppend
<1> QED BY <1>2, <1>3, <1>4 DEF t

LEMMA PieceOf6 ==
  ASSUME NEW form, NEW m \in Tables, NEW a, NEW aa, NEW b, NEW bb, NEW c, NEW cc, NEW d, NEW dd, NEW e, NEW ee, NEW f, NEW ff,
         Sized(form, m, a, aa), Sized(form, m, b, bb), Sized(form, m, c, cc), Sized(form, m, d, dd), Sized(form, m, e, ee), Sized(form, m, f, ff)
  PROVE  Piece(form, m, <<a, b, c, d, e, f>>, aa + bb + cc + dd + ee + ff, {u \in Types : Of(u) \in {a, b, c, d, e, f}})
<1> DEFINE r == <<a, b, c, d, e>>
           t == <<a, b, c, d, e, f>>
           n == aa + bb + cc + dd + ee
           A == {u \in Types : Of(u) \in {a, b, c, d, e}}
<1>1. Piece(form, m, r, n, A) /\ t = Append(r, f)
  BY PieceOf5
<1>2. A \cup {u \in Types : Of(u) = f} = {u \in Types : Of(u) \in {a, b, c, d, e, f}}
  OBVIOUS
<1>3. n + ff = aa + bb + cc + dd + ee + ff
  BY DEF Sized
<1> HIDE DEF r, t, n, A
<1>4. Piece(form, m, t, n + ff, A \cup {u \in Types : Of(u) = f})
  BY <1>1, PieceAppend
<1> QED BY <1>2, <1>3, <1>4 DEF t

LEMMA PieceOf7 ==
  ASSUME NEW form, NEW m \in Tables, NEW a, NEW aa, NEW b, NEW bb, NEW c, NEW cc, NEW d, NEW dd, NEW e, NEW ee, NEW f, NEW ff, NEW g, NEW gg,
         Sized(form, m, a, aa), Sized(form, m, b, bb), Sized(form, m, c, cc), Sized(form, m, d, dd), Sized(form, m, e, ee), Sized(form, m, f, ff), Sized(form, m, g, gg)
  PROVE  Piece(form, m, <<a, b, c, d, e, f, g>>, aa + bb + cc + dd + ee + ff + gg, {u \in Types : Of(u) \in {a, b, c, d, e, f, g}})
<1> DEFINE r == <<a, b, c, d, e, f>>
           t == <<a, b, c, d, e, f, g>>
           n == aa + bb + cc + dd + ee + ff
           A == {u \in Types : Of(u) \in {a, b, c, d, e, f}}
<1>1. Piece(form, m, r, n, A) /\ t = Append(r, g)
  BY PieceOf6
<1>2. A \cup {u \in Types : Of(u) = g} = {u \in Types : Of(u) \in {a, b, c, d, e, f, g}}
  OBVIOUS
<1>3. n + gg = aa + bb + cc + dd + ee + ff + gg
  BY DEF Sized
<1> HIDE DEF r, t, n, A
<1>4. Piece(form, m, t, n + gg, A \cup {u \in Types : Of(u) = g})
  BY <1>1, PieceAppend
<1> QED BY <1>2, <1>3, <1>4 DEF t

\* The fields of the built-in types
LEMMA FieldsSized ==
  ASSUME NEW form \in Formats, NEW m \in Tables
  PROVE  /\ Sized(form, m, N1, 1) /\ Sized(form, m, N2, 2) /\ Sized(form, m, N4, 4) /\ Sized(form, m, N8, 8)
         /\ Sized(form, m, Str, TextMinimum(form)) /\ Sized(form, m, Smalls, 4) /\ Sized(form, m, Fours, 4)
         /\ Sized(form, m, Eights, 4) /\ Sized(form, m, Texts, 4) /\ Sized(form, m, Blob, 4)
         /\ \A u \in Nestable : Sized(form, m, Of(u), m[u]) /\ Sized(form, m, List(u), 4)
         /\ Sized(form, m, Doubles(9), 72) /\ Sized(form, m, Doubles(12), 96) /\ Sized(form, m, Doubles(36), 288)
         /\ \A e \in WireElement : Sized(form, m, Many(e), 4)
<1>1. TextMinimum(form) \in Nat
  BY DEF TextMinimum
<1>2. \A n \in 0..36 : Sized(form, m, Doubles(n), n * 8)
  BY DoublesSizes DEF Sized
<1>3. Sized(form, m, Doubles(9), 72) /\ Sized(form, m, Doubles(12), 96) /\ Sized(form, m, Doubles(36), 288)
  <2>1. 9 \in 0..36 /\ 12 \in 0..36 /\ 36 \in 0..36 /\ 9 * 8 = 72 /\ 12 * 8 = 96 /\ 36 * 8 = 288
    OBVIOUS
  <2> QED BY ONLY <1>2, <2>1
<1>4. \A u \in Nestable : Sized(form, m, Of(u), m[u]) /\ Sized(form, m, List(u), 4)
  BY HeldSizes DEF Sized
<1>5. \A e \in WireElement : Sized(form, m, Many(e), 4)
  BY FieldsAre DEF Sized
<1>6. /\ Sized(form, m, N1, 1) /\ Sized(form, m, N2, 2) /\ Sized(form, m, N4, 4) /\ Sized(form, m, N8, 8)
      /\ Sized(form, m, Str, TextMinimum(form)) /\ Sized(form, m, Smalls, 4) /\ Sized(form, m, Fours, 4)
      /\ Sized(form, m, Eights, 4) /\ Sized(form, m, Texts, 4) /\ Sized(form, m, Blob, 4)
  BY <1>1, FieldSizes DEF Sized
<1> QED BY <1>3, <1>4, <1>5, <1>6

\* The shapes that most types have
LEMMA StampedMatches ==
  ASSUME NEW form \in Formats, NEW m \in Tables, NEW u \in Nestable
  PROVE  Matches(form, m, Stamped(u), StampedWire(u))
<1>1. "Header" \in Nestable /\ "Header" \in Types /\ u \in Types
  BY NestableTypes DEF Nestable, Types
<1>2. Piece(form, m, <<Of("Header"), Of(u)>>, m["Header"] + m[u], {v \in Types : Of(v) \in {Of("Header"), Of(u)}})
  <2>1. Sized(form, m, Of("Header"), m["Header"]) /\ Sized(form, m, Of(u), m[u])
    BY <1>1, FieldsSized
  <2> QED BY ONLY <2>1, m \in Tables, PieceOf2
<1>3. NestedMinimum(<<"Header", u>>, m) = m["Header"] + m[u] /\ ToSet(<<"Header", u>>) = {"Header", u}
  BY <1>1, NestedSizes, TupleSets
<1>4. m["Header"] \in Nat /\ m[u] \in Nat
  BY <1>1 DEF Tables
<1>5. RowIs(form, m, Wire(0, 0, <<"Header", u>>), 0 + NestedMinimum(<<"Header", u>>, m), ToSet(<<"Header", u>>))
  BY <1>3, <1>4, RowsOfNested
<1>6. 0 + NestedMinimum(<<"Header", u>>, m) = m["Header"] + m[u]
  BY <1>3, <1>4
<1>7. ToSet(<<"Header", u>>) \subseteq Nestable /\ ToSet(<<"Header", u>>) \subseteq {v \in Types : Of(v) \in {Of("Header"), Of(u)}}
  BY <1>1, <1>3
<1> QED BY <1>2, <1>5, <1>6, <1>7, MatchesIf DEF Stamped, StampedWire

\* ... an array behind its layout ...
LEMMA LaidMatches ==
  ASSUME NEW form \in Formats, NEW m \in Tables, NEW e \in WireElement
  PROVE  Matches(form, m, Laid(e), Wire(4, 0, <<"MultiArrayLayout">>))
<1> DEFINE u == "MultiArrayLayout"
<1>1. u \in Nestable /\ u \in Types
  BY NestableTypes DEF Nestable, Types
<1>2. Piece(form, m, <<Of(u), Many(e)>>, m[u] + 4, {v \in Types : Of(v) \in {Of(u), Many(e)}})
  <2>1. Sized(form, m, Of(u), m[u]) /\ Sized(form, m, Many(e), 4)
    BY <1>1, FieldsSized
  <2> QED BY ONLY <2>1, m \in Tables, PieceOf2
<1>3. NestedMinimum(<<u>>, m) = m[u] /\ ToSet(<<u>>) = {u}
  BY <1>1, NestedSizes, TupleSets
<1>4. m[u] \in Nat
  BY <1>1 DEF Tables
<1>5. RowIs(form, m, Wire(4, 0, <<u>>), 4 + NestedMinimum(<<u>>, m), ToSet(<<u>>))
  BY <1>3, <1>4, RowsOfNested
<1>6. 4 + NestedMinimum(<<u>>, m) = m[u] + 4
  BY <1>3, <1>4
<1>7. ToSet(<<u>>) \subseteq Nestable /\ ToSet(<<u>>) \subseteq {v \in Types : Of(v) \in {Of(u), Many(e)}}
  BY <1>1, <1>3
<1> QED BY <1>2, <1>5, <1>6, <1>7, MatchesIf DEF Laid

\* ... and a single number
LEMMA NumberMatches ==
  ASSUME NEW form \in Formats, NEW m \in Tables, NEW f, NEW n \in Nat, Sized(form, m, f, n)
  PROVE  Matches(form, m, <<f>>, Wire(n, 0, <<>>))
<1>1. Piece(form, m, <<f>>, n, {u \in Types : Of(u) \in {f}})
  BY PieceOf1
<1>2. NestedMinimum(<<>>, m) = 0 /\ ToSet(<<>>) = {}
  BY NestedSizes, TupleSets
<1>3. RowIs(form, m, Wire(n, 0, <<>>), n + NestedMinimum(<<>>, m), ToSet(<<>>))
  BY <1>2, RowsOfNested
<1>4. n + NestedMinimum(<<>>, m) = n
  BY <1>2
<1>5. ToSet(<<>>) \subseteq {u \in Types : Of(u) \in {f}} /\ ToSet(<<>>) \subseteq Nestable
  BY <1>2
<1> QED BY <1>1, <1>3, <1>4, <1>5, MatchesIf

\* The same number twice
LEMMA PieceOfTwice ==
  ASSUME NEW form, NEW m \in Tables, NEW a, NEW aa, NEW b, NEW bb, Sized(form, m, a, aa), Sized(form, m, b, bb)
  PROVE  Piece(form, m, <<a, a, b>>, aa + aa + bb, {u \in Types : Of(u) \in {a, a, b}})
BY PieceOf3

\* Two fields that are the same ...
LEMMA PieceOfPair ==
  ASSUME NEW form, NEW m \in Tables, NEW a, NEW aa, Sized(form, m, a, aa)
  PROVE  Piece(form, m, <<a, a>>, aa + aa, {u \in Types : Of(u) \in {a, a}})
BY PieceOf2

\* ... and two times two
LEMMA PieceOfPairs ==
  ASSUME NEW form, NEW m \in Tables, NEW a, NEW aa, NEW b, NEW bb, Sized(form, m, a, aa), Sized(form, m, b, bb)
  PROVE  Piece(form, m, <<a, a, b, b>>, aa + aa + bb + bb, {u \in Types : Of(u) \in {a, a, b, b}})
BY PieceOf4

\* Each type of each table matches its row: its fields are cut into pieces, the pieces and the
\* nested types of the row are added up, and both sums are the same.
LEMMA MotionTypesMatch ==
  ASSUME NEW form \in Formats, NEW m \in Tables
  PROVE  \A t \in DOMAIN MotionTypes(form) : Matches(form, m, MotionTypes(form)[t], WireTable[form][t])
<1>D36. Sized(form, m, Doubles(36), 288)
  BY FieldsSized
<1>N4. Sized(form, m, N4, 4)
  BY FieldsSized
<1>N8. Sized(form, m, N8, 8)
  BY FieldsSized
<1>Str. Sized(form, m, Str, TextMinimum(form)) /\ TextMinimum(form) \in Nat
  BY FieldsSized DEF Sized
<1>0. {"Accel", "AccelWithCovariance", "Inertia", "Time",
        "Vector3"} \subseteq Nestable /\ Nestable \subseteq Types
  BY NestableTypes DEF Nestable, Types
<1>Accel. /\ Sized(form, m, Of("Accel"), m["Accel"])
      /\ Sized(form, m, List("Accel"), 4)
      /\ m["Accel"] \in Nat /\ "Accel" \in Types /\ "Accel" \in Nestable
  BY <1>0, FieldsSized DEF Sized
<1>AccelWithCovariance. /\ Sized(form, m, Of("AccelWithCovariance"), m["AccelWithCovariance"])
      /\ Sized(form, m, List("AccelWithCovariance"), 4)
      /\ m["AccelWithCovariance"] \in Nat /\ "AccelWithCovariance" \in Types /\ "AccelWithCovariance" \in Nestable
  BY <1>0, FieldsSized DEF Sized
<1>Inertia. /\ Sized(form, m, Of("Inertia"), m["Inertia"])
      /\ Sized(form, m, List("Inertia"), 4)
      /\ m["Inertia"] \in Nat /\ "Inertia" \in Types /\ "Inertia" \in Nestable
  BY <1>0, FieldsSized DEF Sized
<1>Time. /\ Sized(form, m, Of("Time"), m["Time"])
      /\ Sized(form, m, List("Time"), 4)
      /\ m["Time"] \in Nat /\ "Time" \in Types /\ "Time" \in Nestable
  BY <1>0, FieldsSized DEF Sized
<1>Vector3. /\ Sized(form, m, Of("Vector3"), m["Vector3"])
      /\ Sized(form, m, List("Vector3"), 4)
      /\ m["Vector3"] \in Nat /\ "Vector3" \in Types /\ "Vector3" \in Nestable
  BY <1>0, FieldsSized DEF Sized
<1>1. Matches(form, m, MotionTypes(form).Time, WireTable[form].Time)
  <2>1. MotionTypes(form).Time = <<N4, N4>>
    BY DEF MotionTypes
  <2>2. WireTable[form].Time = Wire(8, 0, <<>>)
    <3>1. GeometryWire(form).Time = Wire(2 * 4, 0, <<>>)
      BY DEF GeometryWire
    <3>2. WireTable[form].Time = GeometryWire(form).Time
      BY RowsAreIn DEF RowNames
    <3> QED BY ONLY <3>1, <3>2
  <2>3. Piece(form, m, <<N4, N4>>, 4 + 4, {u \in Types : Of(u) \in {N4, N4}})
    BY ONLY <1>N4, m \in Tables, PieceOf2
  <2>4. NestedMinimum(<<>>, m) = 0 /\ ToSet(<<>>) = {}
    BY NestedSizes, TupleSets
  <2>5. RowIs(form, m, Wire(8, 0, <<>>), 8 + NestedMinimum(<<>>, m), ToSet(<<>>))
    BY <2>4, RowsOfNested
  <2>6. 4 + 4 = 8 + NestedMinimum(<<>>, m)
    BY <2>4
  <2>7. /\ ToSet(<<>>) \subseteq {u \in Types : Of(u) \in {N4, N4}}
        /\ ToSet(<<>>) \subseteq Nestable
    BY <2>4
  <2> QED BY ONLY <2>1, <2>2, <2>3, <2>5, <2>6, <2>7, MatchesIf
<1>2. Matches(form, m, MotionTypes(form).Duration, WireTable[form].Duration)
  <2>1. MotionTypes(form).Duration = <<N4, N4>>
    BY DEF MotionTypes
  <2>2. WireTable[form].Duration = Wire(8, 0, <<>>)
    <3>1. GeometryWire(form).Duration = Wire(2 * 4, 0, <<>>)
      BY DEF GeometryWire
    <3>2. WireTable[form].Duration = GeometryWire(form).Duration
      BY RowsAreIn DEF RowNames
    <3> QED BY ONLY <3>1, <3>2
  <2>3. Piece(form, m, <<N4, N4>>, 4 + 4, {u \in Types : Of(u) \in {N4, N4}})
    BY ONLY <1>N4, m \in Tables, PieceOf2
  <2>4. NestedMinimum(<<>>, m) = 0 /\ ToSet(<<>>) = {}
    BY NestedSizes, TupleSets
  <2>5. RowIs(form, m, Wire(8, 0, <<>>), 8 + NestedMinimum(<<>>, m), ToSet(<<>>))
    BY <2>4, RowsOfNested
  <2>6. 4 + 4 = 8 + NestedMinimum(<<>>, m)
    BY <2>4
  <2>7. /\ ToSet(<<>>) \subseteq {u \in Types : Of(u) \in {N4, N4}}
        /\ ToSet(<<>>) \subseteq Nestable
    BY <2>4
  <2> QED BY ONLY <2>1, <2>2, <2>3, <2>5, <2>6, <2>7, MatchesIf
<1>3. Matches(form, m, MotionTypes(form).Vector3, WireTable[form].Vector3)
  <2>1. MotionTypes(form).Vector3 = Row(3, N8)
    BY DEF MotionTypes
  <2>2. WireTable[form].Vector3 = Wire(24, 0, <<>>)
    <3>1. GeometryWire(form).Vector3 = Wire(3 * 8, 0, <<>>)
      BY DEF GeometryWire
    <3>2. WireTable[form].Vector3 = GeometryWire(form).Vector3
      BY RowsAreIn DEF RowNames
    <3> QED BY ONLY <3>1, <3>2
  <2>3. Piece(form, m, Row(3, N8), 24, {})
    BY <1>N8, PieceOfRow
  <2>4. NestedMinimum(<<>>, m) = 0 /\ ToSet(<<>>) = {}
    BY NestedSizes, TupleSets
  <2>5. RowIs(form, m, Wire(24, 0, <<>>), 24 + NestedMinimum(<<>>, m), ToSet(<<>>))
    BY <2>4, RowsOfNested
  <2>6. 24 = 24 + NestedMinimum(<<>>, m)
    BY <2>4
  <2>7. /\ ToSet(<<>>) \subseteq {}
        /\ ToSet(<<>>) \subseteq Nestable
    BY <2>4
  <2> QED BY ONLY <2>1, <2>2, <2>3, <2>5, <2>6, <2>7, MatchesIf
<1>4. Matches(form, m, MotionTypes(form).Accel, WireTable[form].Accel)
  <2>1. MotionTypes(form).Accel = <<Of("Vector3"), Of("Vector3")>>
    BY DEF MotionTypes
  <2>2. WireTable[form].Accel = Wire(0, 0, <<"Vector3", "Vector3">>)
    <3>1. GeometryWire(form).Accel = Wire(0, 0, <<"Vector3", "Vector3">>)
      BY DEF GeometryWire
    <3>2. WireTable[form].Accel = GeometryWire(form).Accel
      BY RowsAreIn DEF RowNames
    <3> QED BY ONLY <3>1, <3>2
  <2>3. Piece(form, m, <<Of("Vector3"), Of("Vector3")>>, m["Vector3"] + m["Vector3"],
          {u \in Types : Of(u) \in {Of("Vector3"), Of("Vector3")}})
    BY ONLY <1>Vector3, m \in Tables, PieceOf2
  <2>4. NestedMinimum(<<"Vector3", "Vector3">>, m) = m["Vector3"]
          + m["Vector3"] /\ ToSet(<<"Vector3", "Vector3">>) = {"Vector3"}
    BY <1>Vector3, NestedSizes, TupleSets
  <2>5. RowIs(form, m, Wire(0, 0, <<"Vector3", "Vector3">>), 0 + NestedMinimum(<<"Vector3",
          "Vector3">>, m), ToSet(<<"Vector3", "Vector3">>))
    BY <1>Vector3, <2>4, RowsOfNested
  <2>6. m["Vector3"] + m["Vector3"] = 0 + NestedMinimum(<<"Vector3", "Vector3">>, m)
    BY <1>Vector3, <2>4
  <2>7. /\ ToSet(<<"Vector3", "Vector3">>) \subseteq {u \in Types : Of(u) \in {Of("Vector3"),
          Of("Vector3")}}
        /\ ToSet(<<"Vector3", "Vector3">>) \subseteq Nestable
    BY <1>Vector3, <2>4
  <2> QED BY ONLY <2>1, <2>2, <2>3, <2>5, <2>6, <2>7, MatchesIf
<1>5. Matches(form, m, MotionTypes(form).Header, WireTable[form].Header)
  <2> DEFINE x == IF form = "ros1" THEN 4 ELSE 0
  <2>1. MotionTypes(form).Header = OnlyIf(form = "ros1", <<N4>>) \o <<Of("Time"), Str>>
    BY DEF MotionTypes
  <2>2. WireTable[form].Header = Wire(x, 1, <<"Time">>)
    BY RowsAreIn DEF RowNames, GeometryWire, HeaderBytes
  <2>3. Piece(form, m, OnlyIf(form = "ros1", <<N4>>), x, {}) /\ x \in Nat
    <3>1. Piece(form, m, <<N4>>, 4, {u \in Types : Of(u) \in {N4}}) /\ Piece(form, m, <<>>, 0, {})
      BY <1>N4, PieceOf1, PieceOfNone
    <3> QED BY <3>1 DEF OnlyIf, Piece
  <2> HIDE DEF x
  <2>4. Piece(form, m, <<Of("Time"), Str>>, m["Time"] + TextMinimum(form),
          {u \in Types : Of(u) \in {Of("Time"), Str}})
    BY ONLY <1>Time, <1>Str, m \in Tables, PieceOf2
  <2>5. Piece(form, m, OnlyIf(form = "ros1", <<N4>>) \o <<Of("Time"), Str>>, ((x) + (m["Time"]
          + TextMinimum(form))), ({} \cup {u \in Types : Of(u) \in {Of("Time"), Str}}))
    BY ONLY <2>3, <2>4, m \in Tables, PieceJoin
  <2>6. NestedMinimum(<<"Time">>, m) = m["Time"] /\ ToSet(<<"Time">>) = {"Time"}
    BY <1>Time, NestedSizes, TupleSets
  <2>7. RowIs(form, m, Wire(x, 1, <<"Time">>), x + TextMinimum(form) + NestedMinimum(<<"Time">>, m),
          ToSet(<<"Time">>))
    BY <1>Time, <2>3, <2>6, RowsOfNested
  <2>8. ((x) + (m["Time"] + TextMinimum(form))) = x + TextMinimum(form) + NestedMinimum(<<"Time">>, m)
    BY <1>Str, <1>Time, <2>3, <2>6
  <2>9. /\ ToSet(<<"Time">>) \subseteq ({} \cup {u \in Types : Of(u) \in {Of("Time"), Str}})
        /\ ToSet(<<"Time">>) \subseteq Nestable
    BY <1>Time, <2>6
  <2> QED BY ONLY <2>1, <2>2, <2>5, <2>7, <2>8, <2>9, MatchesIf
<1>6. Matches(form, m, MotionTypes(form).AccelStamped, WireTable[form].AccelStamped)
  <2>1. MotionTypes(form).AccelStamped = Stamped("Accel")
    BY DEF MotionTypes
  <2>2. WireTable[form].AccelStamped = StampedWire("Accel")
    <3>1. GeometryWire(form).AccelStamped = StampedWire("Accel")
      BY DEF GeometryWire
    <3>2. WireTable[form].AccelStamped = GeometryWire(form).AccelStamped
      BY RowsAreIn DEF RowNames
    <3> QED BY ONLY <3>1, <3>2
  <2> QED BY <2>1, <2>2, <1>Accel, StampedMatches
<1>7. Matches(form, m, MotionTypes(form).AccelWithCovariance, WireTable[form].AccelWithCovariance)
  <2>1. MotionTypes(form).AccelWithCovariance = <<Of("Accel"), Doubles(36)>>
    BY DEF MotionTypes
  <2>2. WireTable[form].AccelWithCovariance = Wire(288, 0, <<"Accel">>)
    <3>1. GeometryWire(form).AccelWithCovariance = Wire(8 * 36, 0, <<"Accel">>)
      BY DEF GeometryWire
    <3>2. WireTable[form].AccelWithCovariance = GeometryWire(form).AccelWithCovariance
      BY RowsAreIn DEF RowNames
    <3> QED BY ONLY <3>1, <3>2
  <2>3. Piece(form, m, <<Of("Accel"), Doubles(36)>>, m["Accel"] + 288,
          {u \in Types : Of(u) \in {Of("Accel"), Doubles(36)}})
    BY ONLY <1>Accel, <1>D36, m \in Tables, PieceOf2
  <2>4. NestedMinimum(<<"Accel">>, m) = m["Accel"] /\ ToSet(<<"Accel">>) = {"Accel"}
    BY <1>Accel, NestedSizes, TupleSets
  <2>5. RowIs(form, m, Wire(288, 0, <<"Accel">>), 288 + NestedMinimum(<<"Accel">>, m),
          ToSet(<<"Accel">>))
    BY <1>Accel, <2>4, RowsOfNested
  <2>6. m["Accel"] + 288 = 288 + NestedMinimum(<<"Accel">>, m)
    BY <1>Accel, <2>4
  <2>7. /\ ToSet(<<"Accel">>) \subseteq {u \in Types : Of(u) \in {Of("Accel"), Doubles(36)}}
        /\ ToSet(<<"Accel">>) \subseteq Nestable
    BY <1>Accel, <2>4
  <2> QED BY ONLY <2>1, <2>2, <2>3, <2>5, <2>6, <2>7, MatchesIf
<1>8. Matches(form, m, MotionTypes(form).AccelWithCovarianceStamped,
        WireTable[form].AccelWithCovarianceStamped)
  <2>1. MotionTypes(form).AccelWithCovarianceStamped = Stamped("AccelWithCovariance")
    BY DEF MotionTypes
  <2>2. WireTable[form].AccelWithCovarianceStamped = StampedWire("AccelWithCovariance")
    <3>1. GeometryWire(form).AccelWithCovarianceStamped = StampedWire("AccelWithCovariance")
      BY DEF GeometryWire
    <3>2. WireTable[form].AccelWithCovarianceStamped = GeometryWire(form).AccelWithCovarianceStamped
      BY RowsAreIn DEF RowNames
    <3> QED BY ONLY <3>1, <3>2
  <2> QED BY <2>1, <2>2, <1>AccelWithCovariance, StampedMatches
<1>9. Matches(form, m, MotionTypes(form).Inertia, WireTable[form].Inertia)
  <2>1. MotionTypes(form).Inertia = <<N8, Of("Vector3")>> \o Row(6, N8)
    BY DEF MotionTypes
  <2>2. WireTable[form].Inertia = Wire(56, 0, <<"Vector3">>)
    <3>1. GeometryWire(form).Inertia = Wire(7 * 8, 0, <<"Vector3">>)
      BY DEF GeometryWire
    <3>2. WireTable[form].Inertia = GeometryWire(form).Inertia
      BY RowsAreIn DEF RowNames
    <3> QED BY ONLY <3>1, <3>2
  <2>3. Piece(form, m, <<N8, Of("Vector3")>>, 8 + m["Vector3"], {u \in Types : Of(u) \in {N8,
          Of("Vector3")}})
    BY ONLY <1>N8, <1>Vector3, m \in Tables, PieceOf2
  <2>4. Piece(form, m, Row(6, N8), 48, {})
    BY <1>N8, PieceOfRow
  <2>5. Piece(form, m, <<N8, Of("Vector3")>> \o Row(6, N8), ((8 + m["Vector3"]) + (48)),
          ({u \in Types : Of(u) \in {N8, Of("Vector3")}} \cup {}))
    BY ONLY <2>3, <2>4, m \in Tables, PieceJoin
  <2>6. NestedMinimum(<<"Vector3">>, m) = m["Vector3"] /\ ToSet(<<"Vector3">>) = {"Vector3"}
    BY <1>Vector3, NestedSizes, TupleSets
  <2>7. RowIs(form, m, Wire(56, 0, <<"Vector3">>), 56 + NestedMinimum(<<"Vector3">>, m),
          ToSet(<<"Vector3">>))
    BY <1>Vector3, <2>6, RowsOfNested
  <2>8. ((8 + m["Vector3"]) + (48)) = 56 + NestedMinimum(<<"Vector3">>, m)
    BY <1>Vector3, <2>6
  <2>9. /\ ToSet(<<"Vector3">>) \subseteq ({u \in Types : Of(u) \in {N8, Of("Vector3")}} \cup {})
        /\ ToSet(<<"Vector3">>) \subseteq Nestable
    BY <1>Vector3, <2>6
  <2> QED BY ONLY <2>1, <2>2, <2>5, <2>7, <2>8, <2>9, MatchesIf
<1>10. Matches(form, m, MotionTypes(form).InertiaStamped, WireTable[form].InertiaStamped)
  <2>1. MotionTypes(form).InertiaStamped = Stamped("Inertia")
    BY DEF MotionTypes
  <2>2. WireTable[form].InertiaStamped = StampedWire("Inertia")
    <3>1. GeometryWire(form).InertiaStamped = StampedWire("Inertia")
      BY DEF GeometryWire
    <3>2. WireTable[form].InertiaStamped = GeometryWire(form).InertiaStamped
      BY RowsAreIn DEF RowNames
    <3> QED BY ONLY <3>1, <3>2
  <2> QED BY <2>1, <2>2, <1>Inertia, StampedMatches
<1>11. Matches(form, m, MotionTypes(form).Point, WireTable[form].Point)
  <2>1. MotionTypes(form).Point = Row(3, N8)
    BY DEF MotionTypes
  <2>2. WireTable[form].Point = Wire(24, 0, <<>>)
    <3>1. GeometryWire(form).Point = Wire(3 * 8, 0, <<>>)
      BY DEF GeometryWire
    <3>2. WireTable[form].Point = GeometryWire(form).Point
      BY RowsAreIn DEF RowNames
    <3> QED BY ONLY <3>1, <3>2
  <2>3. Piece(form, m, Row(3, N8), 24, {})
    BY <1>N8, PieceOfRow
  <2>4. NestedMinimum(<<>>, m) = 0 /\ ToSet(<<>>) = {}
    BY NestedSizes, TupleSets
  <2>5. RowIs(form, m, Wire(24, 0, <<>>), 24 + NestedMinimum(<<>>, m), ToSet(<<>>))
    BY <2>4, RowsOfNested
  <2>6. 24 = 24 + NestedMinimum(<<>>, m)
    BY <2>4
  <2>7. /\ ToSet(<<>>) \subseteq {}
        /\ ToSet(<<>>) \subseteq Nestable
    BY <2>4
  <2> QED BY ONLY <2>1, <2>2, <2>3, <2>5, <2>6, <2>7, MatchesIf
<1>12. Matches(form, m, MotionTypes(form).Point32, WireTable[form].Point32)
  <2>1. MotionTypes(form).Point32 = Row(3, N4)
    BY DEF MotionTypes
  <2>2. WireTable[form].Point32 = Wire(12, 0, <<>>)
    <3>1. GeometryWire(form).Point32 = Wire(3 * 4, 0, <<>>)
      BY DEF GeometryWire
    <3>2. WireTable[form].Point32 = GeometryWire(form).Point32
      BY RowsAreIn DEF RowNames
    <3> QED BY ONLY <3>1, <3>2
  <2>3. Piece(form, m, Row(3, N4), 12, {})
    BY <1>N4, PieceOfRow
  <2>4. NestedMinimum(<<>>, m) = 0 /\ ToSet(<<>>) = {}
    BY NestedSizes, TupleSets
  <2>5. RowIs(form, m, Wire(12, 0, <<>>), 12 + NestedMinimum(<<>>, m), ToSet(<<>>))
    BY <2>4, RowsOfNested
  <2>6. 12 = 12 + NestedMinimum(<<>>, m)
    BY <2>4
  <2>7. /\ ToSet(<<>>) \subseteq {}
        /\ ToSet(<<>>) \subseteq Nestable
    BY <2>4
  <2> QED BY ONLY <2>1, <2>2, <2>3, <2>5, <2>6, <2>7, MatchesIf
<1> QED BY TypesOfTables, <1>1, <1>2, <1>3, <1>4, <1>5, <1>6, <1>7, <1>8, <1>9, <1>10, <1>11,
      <1>12 DEF TypeNames

LEMMA PoseTypesMatch ==
  ASSUME NEW form \in Formats, NEW m \in Tables
  PROVE  \A t \in DOMAIN PoseTypes(form) : Matches(form, m, PoseTypes(form)[t], WireTable[form][t])
<1>D36. Sized(form, m, Doubles(36), 288)
  BY FieldsSized
<1>N8. Sized(form, m, N8, 8)
  BY FieldsSized
<1>0. {"Header", "Point", "Point32", "Polygon", "PolygonInstance", "Pose", "PoseWithCovariance",
        "Quaternion"} \subseteq Nestable /\ Nestable \subseteq Types
  BY NestableTypes DEF Nestable, Types
<1>Header. /\ Sized(form, m, Of("Header"), m["Header"])
      /\ Sized(form, m, List("Header"), 4)
      /\ m["Header"] \in Nat /\ "Header" \in Types /\ "Header" \in Nestable
  BY <1>0, FieldsSized DEF Sized
<1>Point. /\ Sized(form, m, Of("Point"), m["Point"])
      /\ Sized(form, m, List("Point"), 4)
      /\ m["Point"] \in Nat /\ "Point" \in Types /\ "Point" \in Nestable
  BY <1>0, FieldsSized DEF Sized
<1>Point32. /\ Sized(form, m, Of("Point32"), m["Point32"])
      /\ Sized(form, m, List("Point32"), 4)
      /\ m["Point32"] \in Nat /\ "Point32" \in Types /\ "Point32" \in Nestable
  BY <1>0, FieldsSized DEF Sized
<1>Polygon. /\ Sized(form, m, Of("Polygon"), m["Polygon"])
      /\ Sized(form, m, List("Polygon"), 4)
      /\ m["Polygon"] \in Nat /\ "Polygon" \in Types /\ "Polygon" \in Nestable
  BY <1>0, FieldsSized DEF Sized
<1>PolygonInstance. /\ Sized(form, m, Of("PolygonInstance"), m["PolygonInstance"])
      /\ Sized(form, m, List("PolygonInstance"), 4)
      /\ m["PolygonInstance"] \in Nat /\ "PolygonInstance" \in Types /\ "PolygonInstance" \in Nestable
  BY <1>0, FieldsSized DEF Sized
<1>Pose. /\ Sized(form, m, Of("Pose"), m["Pose"])
      /\ Sized(form, m, List("Pose"), 4)
      /\ m["Pose"] \in Nat /\ "Pose" \in Types /\ "Pose" \in Nestable
  BY <1>0, FieldsSized DEF Sized
<1>PoseWithCovariance. /\ Sized(form, m, Of("PoseWithCovariance"), m["PoseWithCovariance"])
      /\ Sized(form, m, List("PoseWithCovariance"), 4)
      /\ m["PoseWithCovariance"] \in Nat /\ "PoseWithCovariance" \in Types /\ "PoseWithCovariance" \in Nestable
  BY <1>0, FieldsSized DEF Sized
<1>Quaternion. /\ Sized(form, m, Of("Quaternion"), m["Quaternion"])
      /\ Sized(form, m, List("Quaternion"), 4)
      /\ m["Quaternion"] \in Nat /\ "Quaternion" \in Types /\ "Quaternion" \in Nestable
  BY <1>0, FieldsSized DEF Sized
<1>1. Matches(form, m, PoseTypes(form).PointStamped, WireTable[form].PointStamped)
  <2>1. PoseTypes(form).PointStamped = Stamped("Point")
    BY DEF PoseTypes
  <2>2. WireTable[form].PointStamped = StampedWire("Point")
    <3>1. GeometryWire(form).PointStamped = StampedWire("Point")
      BY DEF GeometryWire
    <3>2. WireTable[form].PointStamped = GeometryWire(form).PointStamped
      BY RowsAreIn DEF RowNames
    <3> QED BY ONLY <3>1, <3>2
  <2> QED BY <2>1, <2>2, <1>Point, StampedMatches
<1>2. Matches(form, m, PoseTypes(form).Polygon, WireTable[form].Polygon)
  <2>1. PoseTypes(form).Polygon = <<List("Point32")>>
    BY DEF PoseTypes
  <2>2. WireTable[form].Polygon = Wire(4, 0, <<>>)
    <3>1. GeometryWire(form).Polygon = Wire(4, 0, <<>>)
      BY DEF GeometryWire
    <3>2. WireTable[form].Polygon = GeometryWire(form).Polygon
      BY RowsAreIn DEF RowNames
    <3> QED BY ONLY <3>1, <3>2
  <2>3. Piece(form, m, <<List("Point32")>>, 4, {u \in Types : Of(u) \in {List("Point32")}})
    BY <1>Point32, PieceOf1
  <2>4. NestedMinimum(<<>>, m) = 0 /\ ToSet(<<>>) = {}
    BY NestedSizes, TupleSets
  <2>5. RowIs(form, m, Wire(4, 0, <<>>), 4 + NestedMinimum(<<>>, m), ToSet(<<>>))
    BY <2>4, RowsOfNested
  <2>6. 4 = 4 + NestedMinimum(<<>>, m)
    BY <2>4
  <2>7. /\ ToSet(<<>>) \subseteq {u \in Types : Of(u) \in {List("Point32")}}
        /\ ToSet(<<>>) \subseteq Nestable
    BY <2>4
  <2> QED BY ONLY <2>1, <2>2, <2>3, <2>5, <2>6, <2>7, MatchesIf
<1>3. Matches(form, m, PoseTypes(form).PolygonInstance, WireTable[form].PolygonInstance)
  <2>1. PoseTypes(form).PolygonInstance = <<Of("Polygon"), N8>>
    BY DEF PoseTypes
  <2>2. WireTable[form].PolygonInstance = Wire(8, 0, <<"Polygon">>)
    <3>1. GeometryWire(form).PolygonInstance = Wire(8, 0, <<"Polygon">>)
      BY DEF GeometryWire
    <3>2. WireTable[form].PolygonInstance = GeometryWire(form).PolygonInstance
      BY RowsAreIn DEF RowNames
    <3> QED BY ONLY <3>1, <3>2
  <2>3. Piece(form, m, <<Of("Polygon"), N8>>, m["Polygon"] + 8,
          {u \in Types : Of(u) \in {Of("Polygon"), N8}})
    BY ONLY <1>Polygon, <1>N8, m \in Tables, PieceOf2
  <2>4. NestedMinimum(<<"Polygon">>, m) = m["Polygon"] /\ ToSet(<<"Polygon">>) = {"Polygon"}
    BY <1>Polygon, NestedSizes, TupleSets
  <2>5. RowIs(form, m, Wire(8, 0, <<"Polygon">>), 8 + NestedMinimum(<<"Polygon">>, m),
          ToSet(<<"Polygon">>))
    BY <1>Polygon, <2>4, RowsOfNested
  <2>6. m["Polygon"] + 8 = 8 + NestedMinimum(<<"Polygon">>, m)
    BY <1>Polygon, <2>4
  <2>7. /\ ToSet(<<"Polygon">>) \subseteq {u \in Types : Of(u) \in {Of("Polygon"), N8}}
        /\ ToSet(<<"Polygon">>) \subseteq Nestable
    BY <1>Polygon, <2>4
  <2> QED BY ONLY <2>1, <2>2, <2>3, <2>5, <2>6, <2>7, MatchesIf
<1>4. Matches(form, m, PoseTypes(form).PolygonInstanceStamped, WireTable[form].PolygonInstanceStamped)
  <2>1. PoseTypes(form).PolygonInstanceStamped = Stamped("PolygonInstance")
    BY DEF PoseTypes
  <2>2. WireTable[form].PolygonInstanceStamped = StampedWire("PolygonInstance")
    <3>1. GeometryWire(form).PolygonInstanceStamped = StampedWire("PolygonInstance")
      BY DEF GeometryWire
    <3>2. WireTable[form].PolygonInstanceStamped = GeometryWire(form).PolygonInstanceStamped
      BY RowsAreIn DEF RowNames
    <3> QED BY ONLY <3>1, <3>2
  <2> QED BY <2>1, <2>2, <1>PolygonInstance, StampedMatches
<1>5. Matches(form, m, PoseTypes(form).PolygonStamped, WireTable[form].PolygonStamped)
  <2>1. PoseTypes(form).PolygonStamped = Stamped("Polygon")
    BY DEF PoseTypes
  <2>2. WireTable[form].PolygonStamped = StampedWire("Polygon")
    <3>1. GeometryWire(form).PolygonStamped = StampedWire("Polygon")
      BY DEF GeometryWire
    <3>2. WireTable[form].PolygonStamped = GeometryWire(form).PolygonStamped
      BY RowsAreIn DEF RowNames
    <3> QED BY ONLY <3>1, <3>2
  <2> QED BY <2>1, <2>2, <1>Polygon, StampedMatches
<1>6. Matches(form, m, PoseTypes(form).Quaternion, WireTable[form].Quaternion)
  <2>1. PoseTypes(form).Quaternion = Row(4, N8)
    BY DEF PoseTypes
  <2>2. WireTable[form].Quaternion = Wire(32, 0, <<>>)
    <3>1. GeometryWire(form).Quaternion = Wire(4 * 8, 0, <<>>)
      BY DEF GeometryWire
    <3>2. WireTable[form].Quaternion = GeometryWire(form).Quaternion
      BY RowsAreIn DEF RowNames
    <3> QED BY ONLY <3>1, <3>2
  <2>3. Piece(form, m, Row(4, N8), 32, {})
    BY <1>N8, PieceOfRow
  <2>4. NestedMinimum(<<>>, m) = 0 /\ ToSet(<<>>) = {}
    BY NestedSizes, TupleSets
  <2>5. RowIs(form, m, Wire(32, 0, <<>>), 32 + NestedMinimum(<<>>, m), ToSet(<<>>))
    BY <2>4, RowsOfNested
  <2>6. 32 = 32 + NestedMinimum(<<>>, m)
    BY <2>4
  <2>7. /\ ToSet(<<>>) \subseteq {}
        /\ ToSet(<<>>) \subseteq Nestable
    BY <2>4
  <2> QED BY ONLY <2>1, <2>2, <2>3, <2>5, <2>6, <2>7, MatchesIf
<1>7. Matches(form, m, PoseTypes(form).Pose, WireTable[form].Pose)
  <2>1. PoseTypes(form).Pose = <<Of("Point"), Of("Quaternion")>>
    BY DEF PoseTypes
  <2>2. WireTable[form].Pose = Wire(0, 0, <<"Point", "Quaternion">>)
    <3>1. GeometryWire(form).Pose = Wire(0, 0, <<"Point", "Quaternion">>)
      BY DEF GeometryWire
    <3>2. WireTable[form].Pose = GeometryWire(form).Pose
      BY RowsAreIn DEF RowNames
    <3> QED BY ONLY <3>1, <3>2
  <2>3. Piece(form, m, <<Of("Point"), Of("Quaternion")>>, m["Point"] + m["Quaternion"],
          {u \in Types : Of(u) \in {Of("Point"), Of("Quaternion")}})
    BY ONLY <1>Point, <1>Quaternion, m \in Tables, PieceOf2
  <2>4. NestedMinimum(<<"Point", "Quaternion">>, m) = m["Point"]
          + m["Quaternion"] /\ ToSet(<<"Point", "Quaternion">>) = {"Point", "Quaternion"}
    BY <1>Point, <1>Quaternion, NestedSizes, TupleSets
  <2>5. RowIs(form, m, Wire(0, 0, <<"Point", "Quaternion">>), 0 + NestedMinimum(<<"Point",
          "Quaternion">>, m), ToSet(<<"Point", "Quaternion">>))
    BY <1>Point, <1>Quaternion, <2>4, RowsOfNested
  <2>6. m["Point"] + m["Quaternion"] = 0 + NestedMinimum(<<"Point", "Quaternion">>, m)
    BY <1>Point, <1>Quaternion, <2>4
  <2>7. /\ ToSet(<<"Point", "Quaternion">>) \subseteq {u \in Types : Of(u) \in {Of("Point"),
          Of("Quaternion")}}
        /\ ToSet(<<"Point", "Quaternion">>) \subseteq Nestable
    BY <1>Point, <1>Quaternion, <2>4
  <2> QED BY ONLY <2>1, <2>2, <2>3, <2>5, <2>6, <2>7, MatchesIf
<1>8. Matches(form, m, PoseTypes(form).Pose2D, WireTable[form].Pose2D)
  <2>1. PoseTypes(form).Pose2D = Row(3, N8)
    BY DEF PoseTypes
  <2>2. WireTable[form].Pose2D = Wire(24, 0, <<>>)
    <3>1. GeometryWire(form).Pose2D = Wire(3 * 8, 0, <<>>)
      BY DEF GeometryWire
    <3>2. WireTable[form].Pose2D = GeometryWire(form).Pose2D
      BY RowsAreIn DEF RowNames
    <3> QED BY ONLY <3>1, <3>2
  <2>3. Piece(form, m, Row(3, N8), 24, {})
    BY <1>N8, PieceOfRow
  <2>4. NestedMinimum(<<>>, m) = 0 /\ ToSet(<<>>) = {}
    BY NestedSizes, TupleSets
  <2>5. RowIs(form, m, Wire(24, 0, <<>>), 24 + NestedMinimum(<<>>, m), ToSet(<<>>))
    BY <2>4, RowsOfNested
  <2>6. 24 = 24 + NestedMinimum(<<>>, m)
    BY <2>4
  <2>7. /\ ToSet(<<>>) \subseteq {}
        /\ ToSet(<<>>) \subseteq Nestable
    BY <2>4
  <2> QED BY ONLY <2>1, <2>2, <2>3, <2>5, <2>6, <2>7, MatchesIf
<1>9. Matches(form, m, PoseTypes(form).PoseArray, WireTable[form].PoseArray)
  <2>1. PoseTypes(form).PoseArray = <<Of("Header"), List("Pose")>>
    BY DEF PoseTypes
  <2>2. WireTable[form].PoseArray = Wire(4, 0, <<"Header">>)
    <3>1. GeometryWire(form).PoseArray = Wire(4, 0, <<"Header">>)
      BY DEF GeometryWire
    <3>2. WireTable[form].PoseArray = GeometryWire(form).PoseArray
      BY RowsAreIn DEF RowNames
    <3> QED BY ONLY <3>1, <3>2
  <2>3. Piece(form, m, <<Of("Header"), List("Pose")>>, m["Header"] + 4,
          {u \in Types : Of(u) \in {Of("Header"), List("Pose")}})
    BY ONLY <1>Header, <1>Pose, m \in Tables, PieceOf2
  <2>4. NestedMinimum(<<"Header">>, m) = m["Header"] /\ ToSet(<<"Header">>) = {"Header"}
    BY <1>Header, NestedSizes, TupleSets
  <2>5. RowIs(form, m, Wire(4, 0, <<"Header">>), 4 + NestedMinimum(<<"Header">>, m),
          ToSet(<<"Header">>))
    BY <1>Header, <2>4, RowsOfNested
  <2>6. m["Header"] + 4 = 4 + NestedMinimum(<<"Header">>, m)
    BY <1>Header, <2>4
  <2>7. /\ ToSet(<<"Header">>) \subseteq {u \in Types : Of(u) \in {Of("Header"), List("Pose")}}
        /\ ToSet(<<"Header">>) \subseteq Nestable
    BY <1>Header, <2>4
  <2> QED BY ONLY <2>1, <2>2, <2>3, <2>5, <2>6, <2>7, MatchesIf
<1>10. Matches(form, m, PoseTypes(form).PoseStamped, WireTable[form].PoseStamped)
  <2>1. PoseTypes(form).PoseStamped = Stamped("Pose")
    BY DEF PoseTypes
  <2>2. WireTable[form].PoseStamped = StampedWire("Pose")
    <3>1. GeometryWire(form).PoseStamped = StampedWire("Pose")
      BY DEF GeometryWire
    <3>2. WireTable[form].PoseStamped = GeometryWire(form).PoseStamped
      BY RowsAreIn DEF RowNames
    <3> QED BY ONLY <3>1, <3>2
  <2> QED BY <2>1, <2>2, <1>Pose, StampedMatches
<1>11. Matches(form, m, PoseTypes(form).PoseWithCovariance, WireTable[form].PoseWithCovariance)
  <2>1. PoseTypes(form).PoseWithCovariance = <<Of("Pose"), Doubles(36)>>
    BY DEF PoseTypes
  <2>2. WireTable[form].PoseWithCovariance = Wire(288, 0, <<"Pose">>)
    <3>1. GeometryWire(form).PoseWithCovariance = Wire(8 * 36, 0, <<"Pose">>)
      BY DEF GeometryWire
    <3>2. WireTable[form].PoseWithCovariance = GeometryWire(form).PoseWithCovariance
      BY RowsAreIn DEF RowNames
    <3> QED BY ONLY <3>1, <3>2
  <2>3. Piece(form, m, <<Of("Pose"), Doubles(36)>>, m["Pose"] + 288,
          {u \in Types : Of(u) \in {Of("Pose"), Doubles(36)}})
    BY ONLY <1>Pose, <1>D36, m \in Tables, PieceOf2
  <2>4. NestedMinimum(<<"Pose">>, m) = m["Pose"] /\ ToSet(<<"Pose">>) = {"Pose"}
    BY <1>Pose, NestedSizes, TupleSets
  <2>5. RowIs(form, m, Wire(288, 0, <<"Pose">>), 288 + NestedMinimum(<<"Pose">>, m),
          ToSet(<<"Pose">>))
    BY <1>Pose, <2>4, RowsOfNested
  <2>6. m["Pose"] + 288 = 288 + NestedMinimum(<<"Pose">>, m)
    BY <1>Pose, <2>4
  <2>7. /\ ToSet(<<"Pose">>) \subseteq {u \in Types : Of(u) \in {Of("Pose"), Doubles(36)}}
        /\ ToSet(<<"Pose">>) \subseteq Nestable
    BY <1>Pose, <2>4
  <2> QED BY ONLY <2>1, <2>2, <2>3, <2>5, <2>6, <2>7, MatchesIf
<1>12. Matches(form, m, PoseTypes(form).PoseWithCovarianceStamped,
         WireTable[form].PoseWithCovarianceStamped)
  <2>1. PoseTypes(form).PoseWithCovarianceStamped = Stamped("PoseWithCovariance")
    BY DEF PoseTypes
  <2>2. WireTable[form].PoseWithCovarianceStamped = StampedWire("PoseWithCovariance")
    <3>1. GeometryWire(form).PoseWithCovarianceStamped = StampedWire("PoseWithCovariance")
      BY DEF GeometryWire
    <3>2. WireTable[form].PoseWithCovarianceStamped = GeometryWire(form).PoseWithCovarianceStamped
      BY RowsAreIn DEF RowNames
    <3> QED BY ONLY <3>1, <3>2
  <2> QED BY <2>1, <2>2, <1>PoseWithCovariance, StampedMatches
<1> QED BY TypesOfTables, <1>1, <1>2, <1>3, <1>4, <1>5, <1>6, <1>7, <1>8, <1>9, <1>10, <1>11,
      <1>12 DEF TypeNames

LEMMA TransformTypesMatch ==
  ASSUME NEW form \in Formats, NEW m \in Tables
  PROVE  \A t \in DOMAIN TransformTypes(form) : Matches(form, m, TransformTypes(form)[t],
        WireTable[form][t])
<1>D36. Sized(form, m, Doubles(36), 288)
  BY FieldsSized
<1>Str. Sized(form, m, Str, TextMinimum(form)) /\ TextMinimum(form) \in Nat
  BY FieldsSized DEF Sized
<1>0. {"Header", "Quaternion", "Transform", "Twist", "TwistWithCovariance", "Vector3",
        "Wrench"} \subseteq Nestable /\ Nestable \subseteq Types
  BY NestableTypes DEF Nestable, Types
<1>Header. /\ Sized(form, m, Of("Header"), m["Header"])
      /\ Sized(form, m, List("Header"), 4)
      /\ m["Header"] \in Nat /\ "Header" \in Types /\ "Header" \in Nestable
  BY <1>0, FieldsSized DEF Sized
<1>Quaternion. /\ Sized(form, m, Of("Quaternion"), m["Quaternion"])
      /\ Sized(form, m, List("Quaternion"), 4)
      /\ m["Quaternion"] \in Nat /\ "Quaternion" \in Types /\ "Quaternion" \in Nestable
  BY <1>0, FieldsSized DEF Sized
<1>Transform. /\ Sized(form, m, Of("Transform"), m["Transform"])
      /\ Sized(form, m, List("Transform"), 4)
      /\ m["Transform"] \in Nat /\ "Transform" \in Types /\ "Transform" \in Nestable
  BY <1>0, FieldsSized DEF Sized
<1>Twist. /\ Sized(form, m, Of("Twist"), m["Twist"])
      /\ Sized(form, m, List("Twist"), 4)
      /\ m["Twist"] \in Nat /\ "Twist" \in Types /\ "Twist" \in Nestable
  BY <1>0, FieldsSized DEF Sized
<1>TwistWithCovariance. /\ Sized(form, m, Of("TwistWithCovariance"), m["TwistWithCovariance"])
      /\ Sized(form, m, List("TwistWithCovariance"), 4)
      /\ m["TwistWithCovariance"] \in Nat /\ "TwistWithCovariance" \in Types /\ "TwistWithCovariance" \in Nestable
  BY <1>0, FieldsSized DEF Sized
<1>Vector3. /\ Sized(form, m, Of("Vector3"), m["Vector3"])
      /\ Sized(form, m, List("Vector3"), 4)
      /\ m["Vector3"] \in Nat /\ "Vector3" \in Types /\ "Vector3" \in Nestable
  BY <1>0, FieldsSized DEF Sized
<1>Wrench. /\ Sized(form, m, Of("Wrench"), m["Wrench"])
      /\ Sized(form, m, List("Wrench"), 4)
      /\ m["Wrench"] \in Nat /\ "Wrench" \in Types /\ "Wrench" \in Nestable
  BY <1>0, FieldsSized DEF Sized
<1>1. Matches(form, m, TransformTypes(form).QuaternionStamped, WireTable[form].QuaternionStamped)
  <2>1. TransformTypes(form).QuaternionStamped = Stamped("Quaternion")
    BY DEF TransformTypes
  <2>2. WireTable[form].QuaternionStamped = StampedWire("Quaternion")
    <3>1. GeometryWire(form).QuaternionStamped = StampedWire("Quaternion")
      BY DEF GeometryWire
    <3>2. WireTable[form].QuaternionStamped = GeometryWire(form).QuaternionStamped
      BY RowsAreIn DEF RowNames
    <3> QED BY ONLY <3>1, <3>2
  <2> QED BY <2>1, <2>2, <1>Quaternion, StampedMatches
<1>2. Matches(form, m, TransformTypes(form).Transform, WireTable[form].Transform)
  <2>1. TransformTypes(form).Transform = <<Of("Vector3"), Of("Quaternion")>>
    BY DEF TransformTypes
  <2>2. WireTable[form].Transform = Wire(0, 0, <<"Vector3", "Quaternion">>)
    <3>1. GeometryWire(form).Transform = Wire(0, 0, <<"Vector3", "Quaternion">>)
      BY DEF GeometryWire
    <3>2. WireTable[form].Transform = GeometryWire(form).Transform
      BY RowsAreIn DEF RowNames
    <3> QED BY ONLY <3>1, <3>2
  <2>3. Piece(form, m, <<Of("Vector3"), Of("Quaternion")>>, m["Vector3"] + m["Quaternion"],
          {u \in Types : Of(u) \in {Of("Vector3"), Of("Quaternion")}})
    BY ONLY <1>Vector3, <1>Quaternion, m \in Tables, PieceOf2
  <2>4. NestedMinimum(<<"Vector3", "Quaternion">>, m) = m["Vector3"]
          + m["Quaternion"] /\ ToSet(<<"Vector3", "Quaternion">>) = {"Vector3", "Quaternion"}
    BY <1>Quaternion, <1>Vector3, NestedSizes, TupleSets
  <2>5. RowIs(form, m, Wire(0, 0, <<"Vector3", "Quaternion">>), 0 + NestedMinimum(<<"Vector3",
          "Quaternion">>, m), ToSet(<<"Vector3", "Quaternion">>))
    BY <1>Quaternion, <1>Vector3, <2>4, RowsOfNested
  <2>6. m["Vector3"] + m["Quaternion"] = 0 + NestedMinimum(<<"Vector3", "Quaternion">>, m)
    BY <1>Quaternion, <1>Vector3, <2>4
  <2>7. /\ ToSet(<<"Vector3", "Quaternion">>) \subseteq {u \in Types : Of(u) \in {Of("Vector3"),
          Of("Quaternion")}}
        /\ ToSet(<<"Vector3", "Quaternion">>) \subseteq Nestable
    BY <1>Quaternion, <1>Vector3, <2>4
  <2> QED BY ONLY <2>1, <2>2, <2>3, <2>5, <2>6, <2>7, MatchesIf
<1>3. Matches(form, m, TransformTypes(form).TransformStamped, WireTable[form].TransformStamped)
  <2>1. TransformTypes(form).TransformStamped = <<Of("Header"), Str, Of("Transform")>>
    BY DEF TransformTypes
  <2>2. WireTable[form].TransformStamped = Wire(0, 1, <<"Header", "Transform">>)
    <3>1. GeometryWire(form).TransformStamped = Wire(0, 1, <<"Header", "Transform">>)
      BY DEF GeometryWire
    <3>2. WireTable[form].TransformStamped = GeometryWire(form).TransformStamped
      BY RowsAreIn DEF RowNames
    <3> QED BY ONLY <3>1, <3>2
  <2>3. Piece(form, m, <<Of("Header"), Str, Of("Transform")>>, m["Header"] + TextMinimum(form)
          + m["Transform"], {u \in Types : Of(u) \in {Of("Header"), Str, Of("Transform")}})
    BY ONLY <1>Header, <1>Str, <1>Transform, m \in Tables, PieceOf3
  <2>4. NestedMinimum(<<"Header", "Transform">>, m) = m["Header"]
          + m["Transform"] /\ ToSet(<<"Header", "Transform">>) = {"Header", "Transform"}
    BY <1>Header, <1>Transform, NestedSizes, TupleSets
  <2>5. RowIs(form, m, Wire(0, 1, <<"Header", "Transform">>), 0 + TextMinimum(form)
          + NestedMinimum(<<"Header", "Transform">>, m), ToSet(<<"Header", "Transform">>))
    BY <1>Header, <1>Transform, <2>4, RowsOfNested
  <2>6. m["Header"] + TextMinimum(form) + m["Transform"] = 0 + TextMinimum(form)
          + NestedMinimum(<<"Header", "Transform">>, m)
    BY <1>Header, <1>Str, <1>Transform, <2>4
  <2>7. /\ ToSet(<<"Header", "Transform">>) \subseteq {u \in Types : Of(u) \in {Of("Header"),
          Str, Of("Transform")}}
        /\ ToSet(<<"Header", "Transform">>) \subseteq Nestable
    BY <1>Header, <1>Transform, <2>4
  <2> QED BY ONLY <2>1, <2>2, <2>3, <2>5, <2>6, <2>7, MatchesIf
<1>4. Matches(form, m, TransformTypes(form).Twist, WireTable[form].Twist)
  <2>1. TransformTypes(form).Twist = <<Of("Vector3"), Of("Vector3")>>
    BY DEF TransformTypes
  <2>2. WireTable[form].Twist = Wire(0, 0, <<"Vector3", "Vector3">>)
    <3>1. GeometryWire(form).Twist = Wire(0, 0, <<"Vector3", "Vector3">>)
      BY DEF GeometryWire
    <3>2. WireTable[form].Twist = GeometryWire(form).Twist
      BY RowsAreIn DEF RowNames
    <3> QED BY ONLY <3>1, <3>2
  <2>3. Piece(form, m, <<Of("Vector3"), Of("Vector3")>>, m["Vector3"] + m["Vector3"],
          {u \in Types : Of(u) \in {Of("Vector3"), Of("Vector3")}})
    BY ONLY <1>Vector3, m \in Tables, PieceOf2
  <2>4. NestedMinimum(<<"Vector3", "Vector3">>, m) = m["Vector3"]
          + m["Vector3"] /\ ToSet(<<"Vector3", "Vector3">>) = {"Vector3"}
    BY <1>Vector3, NestedSizes, TupleSets
  <2>5. RowIs(form, m, Wire(0, 0, <<"Vector3", "Vector3">>), 0 + NestedMinimum(<<"Vector3",
          "Vector3">>, m), ToSet(<<"Vector3", "Vector3">>))
    BY <1>Vector3, <2>4, RowsOfNested
  <2>6. m["Vector3"] + m["Vector3"] = 0 + NestedMinimum(<<"Vector3", "Vector3">>, m)
    BY <1>Vector3, <2>4
  <2>7. /\ ToSet(<<"Vector3", "Vector3">>) \subseteq {u \in Types : Of(u) \in {Of("Vector3"),
          Of("Vector3")}}
        /\ ToSet(<<"Vector3", "Vector3">>) \subseteq Nestable
    BY <1>Vector3, <2>4
  <2> QED BY ONLY <2>1, <2>2, <2>3, <2>5, <2>6, <2>7, MatchesIf
<1>5. Matches(form, m, TransformTypes(form).TwistStamped, WireTable[form].TwistStamped)
  <2>1. TransformTypes(form).TwistStamped = Stamped("Twist")
    BY DEF TransformTypes
  <2>2. WireTable[form].TwistStamped = StampedWire("Twist")
    <3>1. GeometryWire(form).TwistStamped = StampedWire("Twist")
      BY DEF GeometryWire
    <3>2. WireTable[form].TwistStamped = GeometryWire(form).TwistStamped
      BY RowsAreIn DEF RowNames
    <3> QED BY ONLY <3>1, <3>2
  <2> QED BY <2>1, <2>2, <1>Twist, StampedMatches
<1>6. Matches(form, m, TransformTypes(form).TwistWithCovariance, WireTable[form].TwistWithCovariance)
  <2>1. TransformTypes(form).TwistWithCovariance = <<Of("Twist"), Doubles(36)>>
    BY DEF TransformTypes
  <2>2. WireTable[form].TwistWithCovariance = Wire(288, 0, <<"Twist">>)
    <3>1. GeometryWire(form).TwistWithCovariance = Wire(8 * 36, 0, <<"Twist">>)
      BY DEF GeometryWire
    <3>2. WireTable[form].TwistWithCovariance = GeometryWire(form).TwistWithCovariance
      BY RowsAreIn DEF RowNames
    <3> QED BY ONLY <3>1, <3>2
  <2>3. Piece(form, m, <<Of("Twist"), Doubles(36)>>, m["Twist"] + 288,
          {u \in Types : Of(u) \in {Of("Twist"), Doubles(36)}})
    BY ONLY <1>Twist, <1>D36, m \in Tables, PieceOf2
  <2>4. NestedMinimum(<<"Twist">>, m) = m["Twist"] /\ ToSet(<<"Twist">>) = {"Twist"}
    BY <1>Twist, NestedSizes, TupleSets
  <2>5. RowIs(form, m, Wire(288, 0, <<"Twist">>), 288 + NestedMinimum(<<"Twist">>, m),
          ToSet(<<"Twist">>))
    BY <1>Twist, <2>4, RowsOfNested
  <2>6. m["Twist"] + 288 = 288 + NestedMinimum(<<"Twist">>, m)
    BY <1>Twist, <2>4
  <2>7. /\ ToSet(<<"Twist">>) \subseteq {u \in Types : Of(u) \in {Of("Twist"), Doubles(36)}}
        /\ ToSet(<<"Twist">>) \subseteq Nestable
    BY <1>Twist, <2>4
  <2> QED BY ONLY <2>1, <2>2, <2>3, <2>5, <2>6, <2>7, MatchesIf
<1>7. Matches(form, m, TransformTypes(form).TwistWithCovarianceStamped,
        WireTable[form].TwistWithCovarianceStamped)
  <2>1. TransformTypes(form).TwistWithCovarianceStamped = Stamped("TwistWithCovariance")
    BY DEF TransformTypes
  <2>2. WireTable[form].TwistWithCovarianceStamped = StampedWire("TwistWithCovariance")
    <3>1. GeometryWire(form).TwistWithCovarianceStamped = StampedWire("TwistWithCovariance")
      BY DEF GeometryWire
    <3>2. WireTable[form].TwistWithCovarianceStamped = GeometryWire(form).TwistWithCovarianceStamped
      BY RowsAreIn DEF RowNames
    <3> QED BY ONLY <3>1, <3>2
  <2> QED BY <2>1, <2>2, <1>TwistWithCovariance, StampedMatches
<1>8. Matches(form, m, TransformTypes(form).Vector3Stamped, WireTable[form].Vector3Stamped)
  <2>1. TransformTypes(form).Vector3Stamped = Stamped("Vector3")
    BY DEF TransformTypes
  <2>2. WireTable[form].Vector3Stamped = StampedWire("Vector3")
    <3>1. GeometryWire(form).Vector3Stamped = StampedWire("Vector3")
      BY DEF GeometryWire
    <3>2. WireTable[form].Vector3Stamped = GeometryWire(form).Vector3Stamped
      BY RowsAreIn DEF RowNames
    <3> QED BY ONLY <3>1, <3>2
  <2> QED BY <2>1, <2>2, <1>Vector3, StampedMatches
<1>9. Matches(form, m, TransformTypes(form).VelocityStamped, WireTable[form].VelocityStamped)
  <2>1. TransformTypes(form).VelocityStamped = <<Of("Header"), Str, Str, Of("Twist")>>
    BY DEF TransformTypes
  <2>2. WireTable[form].VelocityStamped = Wire(0, 2, <<"Header", "Twist">>)
    <3>1. GeometryWire(form).VelocityStamped = Wire(0, 2, <<"Header", "Twist">>)
      BY DEF GeometryWire
    <3>2. WireTable[form].VelocityStamped = GeometryWire(form).VelocityStamped
      BY RowsAreIn DEF RowNames
    <3> QED BY ONLY <3>1, <3>2
  <2>3. Piece(form, m, <<Of("Header"), Str, Str, Of("Twist")>>, m["Header"] + TextMinimum(form)
          + TextMinimum(form) + m["Twist"], {u \in Types : Of(u) \in {Of("Header"), Str, Str,
                Of("Twist")}})
    BY ONLY <1>Header, <1>Str, <1>Twist, m \in Tables, PieceOf4
  <2>4. NestedMinimum(<<"Header", "Twist">>, m) = m["Header"] + m["Twist"] /\ ToSet(<<"Header",
          "Twist">>) = {"Header", "Twist"}
    BY <1>Header, <1>Twist, NestedSizes, TupleSets
  <2>5. RowIs(form, m, Wire(0, 2, <<"Header", "Twist">>), 0 + 2 * TextMinimum(form)
          + NestedMinimum(<<"Header", "Twist">>, m), ToSet(<<"Header", "Twist">>))
    BY <1>Header, <1>Twist, <2>4, RowsOfNested
  <2>6. m["Header"] + TextMinimum(form) + TextMinimum(form) + m["Twist"] = 0 + 2 * TextMinimum(form)
          + NestedMinimum(<<"Header", "Twist">>, m)
    BY <1>Header, <1>Str, <1>Twist, <2>4
  <2>7. /\ ToSet(<<"Header", "Twist">>) \subseteq {u \in Types : Of(u) \in {Of("Header"), Str,
          Str, Of("Twist")}}
        /\ ToSet(<<"Header", "Twist">>) \subseteq Nestable
    BY <1>Header, <1>Twist, <2>4
  <2> QED BY ONLY <2>1, <2>2, <2>3, <2>5, <2>6, <2>7, MatchesIf
<1>10. Matches(form, m, TransformTypes(form).Wrench, WireTable[form].Wrench)
  <2>1. TransformTypes(form).Wrench = <<Of("Vector3"), Of("Vector3")>>
    BY DEF TransformTypes
  <2>2. WireTable[form].Wrench = Wire(0, 0, <<"Vector3", "Vector3">>)
    <3>1. GeometryWire(form).Wrench = Wire(0, 0, <<"Vector3", "Vector3">>)
      BY DEF GeometryWire
    <3>2. WireTable[form].Wrench = GeometryWire(form).Wrench
      BY RowsAreIn DEF RowNames
    <3> QED BY ONLY <3>1, <3>2
  <2>3. Piece(form, m, <<Of("Vector3"), Of("Vector3")>>, m["Vector3"] + m["Vector3"],
          {u \in Types : Of(u) \in {Of("Vector3"), Of("Vector3")}})
    BY ONLY <1>Vector3, m \in Tables, PieceOf2
  <2>4. NestedMinimum(<<"Vector3", "Vector3">>, m) = m["Vector3"]
          + m["Vector3"] /\ ToSet(<<"Vector3", "Vector3">>) = {"Vector3"}
    BY <1>Vector3, NestedSizes, TupleSets
  <2>5. RowIs(form, m, Wire(0, 0, <<"Vector3", "Vector3">>), 0 + NestedMinimum(<<"Vector3",
          "Vector3">>, m), ToSet(<<"Vector3", "Vector3">>))
    BY <1>Vector3, <2>4, RowsOfNested
  <2>6. m["Vector3"] + m["Vector3"] = 0 + NestedMinimum(<<"Vector3", "Vector3">>, m)
    BY <1>Vector3, <2>4
  <2>7. /\ ToSet(<<"Vector3", "Vector3">>) \subseteq {u \in Types : Of(u) \in {Of("Vector3"),
          Of("Vector3")}}
        /\ ToSet(<<"Vector3", "Vector3">>) \subseteq Nestable
    BY <1>Vector3, <2>4
  <2> QED BY ONLY <2>1, <2>2, <2>3, <2>5, <2>6, <2>7, MatchesIf
<1>11. Matches(form, m, TransformTypes(form).WrenchStamped, WireTable[form].WrenchStamped)
  <2>1. TransformTypes(form).WrenchStamped = Stamped("Wrench")
    BY DEF TransformTypes
  <2>2. WireTable[form].WrenchStamped = StampedWire("Wrench")
    <3>1. GeometryWire(form).WrenchStamped = StampedWire("Wrench")
      BY DEF GeometryWire
    <3>2. WireTable[form].WrenchStamped = GeometryWire(form).WrenchStamped
      BY RowsAreIn DEF RowNames
    <3> QED BY ONLY <3>1, <3>2
  <2> QED BY <2>1, <2>2, <1>Wrench, StampedMatches
<1> QED BY TypesOfTables, <1>1, <1>2, <1>3, <1>4, <1>5, <1>6, <1>7, <1>8, <1>9, <1>10,
      <1>11 DEF TypeNames

LEMMA NavigationTypesMatch ==
  ASSUME NEW form \in Formats, NEW m \in Tables
  PROVE  \A t \in DOMAIN NavigationTypes(form) : Matches(form, m, NavigationTypes(form)[t],
        WireTable[form][t])
<1>N4. Sized(form, m, N4, 4)
  BY FieldsSized
<1>Smalls. Sized(form, m, Smalls, 4)
  BY FieldsSized
<1>Str. Sized(form, m, Str, TextMinimum(form)) /\ TextMinimum(form) \in Nat
  BY FieldsSized DEF Sized
<1>0. {"Header", "MapMetaData", "Point", "Pose", "PoseStamped", "PoseWithCovariance", "Time",
        "TwistWithCovariance"} \subseteq Nestable /\ Nestable \subseteq Types
  BY NestableTypes DEF Nestable, Types
<1>Header. /\ Sized(form, m, Of("Header"), m["Header"])
      /\ Sized(form, m, List("Header"), 4)
      /\ m["Header"] \in Nat /\ "Header" \in Types /\ "Header" \in Nestable
  BY <1>0, FieldsSized DEF Sized
<1>MapMetaData. /\ Sized(form, m, Of("MapMetaData"), m["MapMetaData"])
      /\ Sized(form, m, List("MapMetaData"), 4)
      /\ m["MapMetaData"] \in Nat /\ "MapMetaData" \in Types /\ "MapMetaData" \in Nestable
  BY <1>0, FieldsSized DEF Sized
<1>Point. /\ Sized(form, m, Of("Point"), m["Point"])
      /\ Sized(form, m, List("Point"), 4)
      /\ m["Point"] \in Nat /\ "Point" \in Types /\ "Point" \in Nestable
  BY <1>0, FieldsSized DEF Sized
<1>Pose. /\ Sized(form, m, Of("Pose"), m["Pose"])
      /\ Sized(form, m, List("Pose"), 4)
      /\ m["Pose"] \in Nat /\ "Pose" \in Types /\ "Pose" \in Nestable
  BY <1>0, FieldsSized DEF Sized
<1>PoseStamped. /\ Sized(form, m, Of("PoseStamped"), m["PoseStamped"])
      /\ Sized(form, m, List("PoseStamped"), 4)
      /\ m["PoseStamped"] \in Nat /\ "PoseStamped" \in Types /\ "PoseStamped" \in Nestable
  BY <1>0, FieldsSized DEF Sized
<1>PoseWithCovariance. /\ Sized(form, m, Of("PoseWithCovariance"), m["PoseWithCovariance"])
      /\ Sized(form, m, List("PoseWithCovariance"), 4)
      /\ m["PoseWithCovariance"] \in Nat /\ "PoseWithCovariance" \in Types /\ "PoseWithCovariance" \in Nestable
  BY <1>0, FieldsSized DEF Sized
<1>Time. /\ Sized(form, m, Of("Time"), m["Time"])
      /\ Sized(form, m, List("Time"), 4)
      /\ m["Time"] \in Nat /\ "Time" \in Types /\ "Time" \in Nestable
  BY <1>0, FieldsSized DEF Sized
<1>TwistWithCovariance. /\ Sized(form, m, Of("TwistWithCovariance"), m["TwistWithCovariance"])
      /\ Sized(form, m, List("TwistWithCovariance"), 4)
      /\ m["TwistWithCovariance"] \in Nat /\ "TwistWithCovariance" \in Types /\ "TwistWithCovariance" \in Nestable
  BY <1>0, FieldsSized DEF Sized
<1>1. Matches(form, m, NavigationTypes(form).GridCells, WireTable[form].GridCells)
  <2>1. NavigationTypes(form).GridCells = <<Of("Header"), N4, N4, List("Point")>>
    BY DEF NavigationTypes
  <2>2. WireTable[form].GridCells = Wire(12, 0, <<"Header">>)
    <3>1. SensorWire(form).GridCells = Wire(3 * 4, 0, <<"Header">>)
      BY DEF SensorWire
    <3>2. WireTable[form].GridCells = SensorWire(form).GridCells
      BY RowsAreIn DEF RowNames
    <3> QED BY ONLY <3>1, <3>2
  <2>3. Piece(form, m, <<Of("Header"), N4, N4, List("Point")>>, m["Header"] + 4 + 4 + 4,
          {u \in Types : Of(u) \in {Of("Header"), N4, N4, List("Point")}})
    BY ONLY <1>Header, <1>N4, <1>Point, m \in Tables, PieceOf4
  <2>4. NestedMinimum(<<"Header">>, m) = m["Header"] /\ ToSet(<<"Header">>) = {"Header"}
    BY <1>Header, NestedSizes, TupleSets
  <2>5. RowIs(form, m, Wire(12, 0, <<"Header">>), 12 + NestedMinimum(<<"Header">>, m),
          ToSet(<<"Header">>))
    BY <1>Header, <2>4, RowsOfNested
  <2>6. m["Header"] + 4 + 4 + 4 = 12 + NestedMinimum(<<"Header">>, m)
    BY <1>Header, <2>4
  <2>7. /\ ToSet(<<"Header">>) \subseteq {u \in Types : Of(u) \in {Of("Header"), N4, N4,
          List("Point")}}
        /\ ToSet(<<"Header">>) \subseteq Nestable
    BY <1>Header, <2>4
  <2> QED BY ONLY <2>1, <2>2, <2>3, <2>5, <2>6, <2>7, MatchesIf
<1>2. Matches(form, m, NavigationTypes(form).MapMetaData, WireTable[form].MapMetaData)
  <2>1. NavigationTypes(form).MapMetaData = <<Of("Time")>> \o Row(3, N4) \o <<Of("Pose")>>
    BY DEF NavigationTypes
  <2>2. WireTable[form].MapMetaData = Wire(12, 0, <<"Time", "Pose">>)
    <3>1. SensorWire(form).MapMetaData = Wire(3 * 4, 0, <<"Time", "Pose">>)
      BY DEF SensorWire
    <3>2. WireTable[form].MapMetaData = SensorWire(form).MapMetaData
      BY RowsAreIn DEF RowNames
    <3> QED BY ONLY <3>1, <3>2
  <2>3. Piece(form, m, <<Of("Time")>>, m["Time"], {u \in Types : Of(u) \in {Of("Time")}})
    BY <1>Time, PieceOf1
  <2>4. Piece(form, m, Row(3, N4), 12, {})
    BY <1>N4, PieceOfRow
  <2>5. Piece(form, m, <<Of("Pose")>>, m["Pose"], {u \in Types : Of(u) \in {Of("Pose")}})
    BY <1>Pose, PieceOf1
  <2>6. Piece(form, m, <<Of("Time")>> \o Row(3, N4), ((m["Time"]) + (12)),
          ({u \in Types : Of(u) \in {Of("Time")}} \cup {}))
    BY ONLY <2>3, <2>4, m \in Tables, PieceJoin
  <2>7. Piece(form, m, <<Of("Time")>> \o Row(3, N4) \o <<Of("Pose")>>, (((m["Time"]) + (12))
          + (m["Pose"])),
                (({u \in Types : Of(u) \in {Of("Time")}} \cup {}) \cup {u \in Types : Of(u) \in {Of("Pose")}}))
    BY ONLY <2>6, <2>5, m \in Tables, PieceJoin
  <2>8. NestedMinimum(<<"Time", "Pose">>, m) = m["Time"] + m["Pose"] /\ ToSet(<<"Time",
          "Pose">>) = {"Time", "Pose"}
    BY <1>Pose, <1>Time, NestedSizes, TupleSets
  <2>9. RowIs(form, m, Wire(12, 0, <<"Time", "Pose">>), 12 + NestedMinimum(<<"Time", "Pose">>, m),
          ToSet(<<"Time", "Pose">>))
    BY <1>Pose, <1>Time, <2>8, RowsOfNested
  <2>10. (((m["Time"]) + (12)) + (m["Pose"])) = 12 + NestedMinimum(<<"Time", "Pose">>, m)
    BY <1>Pose, <1>Time, <2>8
  <2>11. /\ ToSet(<<"Time",
           "Pose">>) \subseteq (({u \in Types : Of(u) \in {Of("Time")}} \cup {}) \cup {u \in Types : Of(u) \in {Of("Pose")}})
        /\ ToSet(<<"Time", "Pose">>) \subseteq Nestable
    BY <1>Pose, <1>Time, <2>8
  <2> QED BY ONLY <2>1, <2>2, <2>7, <2>9, <2>10, <2>11, MatchesIf
<1>3. Matches(form, m, NavigationTypes(form).OccupancyGrid, WireTable[form].OccupancyGrid)
  <2>1. NavigationTypes(form).OccupancyGrid = <<Of("Header"), Of("MapMetaData"), Smalls>>
    BY DEF NavigationTypes
  <2>2. WireTable[form].OccupancyGrid = Wire(4, 0, <<"Header", "MapMetaData">>)
    <3>1. SensorWire(form).OccupancyGrid = Wire(4, 0, <<"Header", "MapMetaData">>)
      BY DEF SensorWire
    <3>2. WireTable[form].OccupancyGrid = SensorWire(form).OccupancyGrid
      BY RowsAreIn DEF RowNames
    <3> QED BY ONLY <3>1, <3>2
  <2>3. Piece(form, m, <<Of("Header"), Of("MapMetaData"), Smalls>>, m["Header"]
          + m["MapMetaData"] + 4, {u \in Types : Of(u) \in {Of("Header"), Of("MapMetaData"),
                Smalls}})
    BY ONLY <1>Header, <1>MapMetaData, <1>Smalls, m \in Tables, PieceOf3
  <2>4. NestedMinimum(<<"Header", "MapMetaData">>, m) = m["Header"]
          + m["MapMetaData"] /\ ToSet(<<"Header", "MapMetaData">>) = {"Header", "MapMetaData"}
    BY <1>Header, <1>MapMetaData, NestedSizes, TupleSets
  <2>5. RowIs(form, m, Wire(4, 0, <<"Header", "MapMetaData">>), 4 + NestedMinimum(<<"Header",
          "MapMetaData">>, m), ToSet(<<"Header", "MapMetaData">>))
    BY <1>Header, <1>MapMetaData, <2>4, RowsOfNested
  <2>6. m["Header"] + m["MapMetaData"] + 4 = 4 + NestedMinimum(<<"Header", "MapMetaData">>, m)
    BY <1>Header, <1>MapMetaData, <2>4
  <2>7. /\ ToSet(<<"Header", "MapMetaData">>) \subseteq {u \in Types : Of(u) \in {Of("Header"),
          Of("MapMetaData"), Smalls}}
        /\ ToSet(<<"Header", "MapMetaData">>) \subseteq Nestable
    BY <1>Header, <1>MapMetaData, <2>4
  <2> QED BY ONLY <2>1, <2>2, <2>3, <2>5, <2>6, <2>7, MatchesIf
<1>4. Matches(form, m, NavigationTypes(form).Odometry, WireTable[form].Odometry)
  <2>1. NavigationTypes(form).Odometry = <<Of("Header"), Str, Of("PoseWithCovariance"),
          Of("TwistWithCovariance")>>
    BY DEF NavigationTypes
  <2>2. WireTable[form].Odometry = Wire(0, 1, <<"Header", "PoseWithCovariance",
          "TwistWithCovariance">>)
    <3>1. SensorWire(form).Odometry = Wire(0, 1, <<"Header", "PoseWithCovariance",
          "TwistWithCovariance">>)
      BY DEF SensorWire
    <3>2. WireTable[form].Odometry = SensorWire(form).Odometry
      BY RowsAreIn DEF RowNames
    <3> QED BY ONLY <3>1, <3>2
  <2>3. Piece(form, m, <<Of("Header"), Str, Of("PoseWithCovariance"), Of("TwistWithCovariance")>>,
          m["Header"] + TextMinimum(form) + m["PoseWithCovariance"] + m["TwistWithCovariance"],
                {u \in Types : Of(u) \in {Of("Header"), Str, Of("PoseWithCovariance"),
                      Of("TwistWithCovariance")}})
    BY ONLY <1>Header, <1>Str, <1>PoseWithCovariance, <1>TwistWithCovariance, m \in Tables, PieceOf4
  <2>4. NestedMinimum(<<"Header", "PoseWithCovariance", "TwistWithCovariance">>,
          m) = m["Header"] + m["PoseWithCovariance"]
                + m["TwistWithCovariance"] /\ ToSet(<<"Header", "PoseWithCovariance",
                      "TwistWithCovariance">>) = {"Header", "PoseWithCovariance",
                            "TwistWithCovariance"}
    BY <1>Header, <1>PoseWithCovariance, <1>TwistWithCovariance, NestedSizes, TupleSets
  <2>5. RowIs(form, m, Wire(0, 1, <<"Header", "PoseWithCovariance", "TwistWithCovariance">>), 0
          + TextMinimum(form) + NestedMinimum(<<"Header", "PoseWithCovariance",
                "TwistWithCovariance">>, m), ToSet(<<"Header", "PoseWithCovariance",
                      "TwistWithCovariance">>))
    BY <1>Header, <1>PoseWithCovariance, <1>TwistWithCovariance, <2>4, RowsOfNested
  <2>6. m["Header"] + TextMinimum(form) + m["PoseWithCovariance"] + m["TwistWithCovariance"] = 0
          + TextMinimum(form) + NestedMinimum(<<"Header", "PoseWithCovariance",
                "TwistWithCovariance">>, m)
    BY <1>Header, <1>PoseWithCovariance, <1>Str, <1>TwistWithCovariance, <2>4
  <2>7. /\ ToSet(<<"Header", "PoseWithCovariance",
          "TwistWithCovariance">>) \subseteq {u \in Types : Of(u) \in {Of("Header"), Str,
                Of("PoseWithCovariance"), Of("TwistWithCovariance")}}
        /\ ToSet(<<"Header", "PoseWithCovariance", "TwistWithCovariance">>) \subseteq Nestable
    BY <1>Header, <1>PoseWithCovariance, <1>TwistWithCovariance, <2>4
  <2> QED BY ONLY <2>1, <2>2, <2>3, <2>5, <2>6, <2>7, MatchesIf
<1>5. Matches(form, m, NavigationTypes(form).Path, WireTable[form].Path)
  <2>1. NavigationTypes(form).Path = <<Of("Header"), List("PoseStamped")>>
    BY DEF NavigationTypes
  <2>2. WireTable[form].Path = Wire(4, 0, <<"Header">>)
    <3>1. SensorWire(form).Path = Wire(4, 0, <<"Header">>)
      BY DEF SensorWire
    <3>2. WireTable[form].Path = SensorWire(form).Path
      BY RowsAreIn DEF RowNames
    <3> QED BY ONLY <3>1, <3>2
  <2>3. Piece(form, m, <<Of("Header"), List("PoseStamped")>>, m["Header"] + 4,
          {u \in Types : Of(u) \in {Of("Header"), List("PoseStamped")}})
    BY ONLY <1>Header, <1>PoseStamped, m \in Tables, PieceOf2
  <2>4. NestedMinimum(<<"Header">>, m) = m["Header"] /\ ToSet(<<"Header">>) = {"Header"}
    BY <1>Header, NestedSizes, TupleSets
  <2>5. RowIs(form, m, Wire(4, 0, <<"Header">>), 4 + NestedMinimum(<<"Header">>, m),
          ToSet(<<"Header">>))
    BY <1>Header, <2>4, RowsOfNested
  <2>6. m["Header"] + 4 = 4 + NestedMinimum(<<"Header">>, m)
    BY <1>Header, <2>4
  <2>7. /\ ToSet(<<"Header">>) \subseteq {u \in Types : Of(u) \in {Of("Header"),
          List("PoseStamped")}}
        /\ ToSet(<<"Header">>) \subseteq Nestable
    BY <1>Header, <2>4
  <2> QED BY ONLY <2>1, <2>2, <2>3, <2>5, <2>6, <2>7, MatchesIf
<1> QED BY TypesOfTables, <1>1, <1>2, <1>3, <1>4, <1>5 DEF TypeNames

LEMMA CameraTypesMatch ==
  ASSUME NEW form \in Formats, NEW m \in Tables
  PROVE  \A t \in DOMAIN CameraTypes(form) : Matches(form, m, CameraTypes(form)[t], WireTable[form][t])
<1>D12. Sized(form, m, Doubles(12), 96)
  BY FieldsSized
<1>D9. Sized(form, m, Doubles(9), 72)
  BY FieldsSized
<1>Eights. Sized(form, m, Eights, 4)
  BY FieldsSized
<1>Fours. Sized(form, m, Fours, 4)
  BY FieldsSized
<1>N1. Sized(form, m, N1, 1)
  BY FieldsSized
<1>N4. Sized(form, m, N4, 4)
  BY FieldsSized
<1>Str. Sized(form, m, Str, TextMinimum(form)) /\ TextMinimum(form) \in Nat
  BY FieldsSized DEF Sized
<1>0. {"Header", "RegionOfInterest"} \subseteq Nestable /\ Nestable \subseteq Types
  BY NestableTypes DEF Nestable, Types
<1>Header. /\ Sized(form, m, Of("Header"), m["Header"])
      /\ Sized(form, m, List("Header"), 4)
      /\ m["Header"] \in Nat /\ "Header" \in Types /\ "Header" \in Nestable
  BY <1>0, FieldsSized DEF Sized
<1>RegionOfInterest. /\ Sized(form, m, Of("RegionOfInterest"), m["RegionOfInterest"])
      /\ Sized(form, m, List("RegionOfInterest"), 4)
      /\ m["RegionOfInterest"] \in Nat /\ "RegionOfInterest" \in Types /\ "RegionOfInterest" \in Nestable
  BY <1>0, FieldsSized DEF Sized
<1>1. Matches(form, m, CameraTypes(form).BatteryState, WireTable[form].BatteryState)
  <2>1. CameraTypes(form).BatteryState = <<Of("Header")>> \o Row(7, N4) \o Row(4, N1) \o <<Fours,
          Fours, Str, Str>>
    BY DEF CameraTypes
  <2>2. WireTable[form].BatteryState = Wire(40, 2, <<"Header">>)
    <3>1. SensorWire(form).BatteryState = Wire(9 * 4 + 4 * 1, 2, <<"Header">>)
      BY DEF SensorWire
    <3>2. WireTable[form].BatteryState = SensorWire(form).BatteryState
      BY RowsAreIn DEF RowNames
    <3> QED BY ONLY <3>1, <3>2
  <2>3. Piece(form, m, <<Of("Header")>>, m["Header"], {u \in Types : Of(u) \in {Of("Header")}})
    BY <1>Header, PieceOf1
  <2>4. Piece(form, m, Row(7, N4), 28, {})
    BY <1>N4, PieceOfRow
  <2>5. Piece(form, m, Row(4, N1), 4, {})
    BY <1>N1, PieceOfRow
  <2>6. Piece(form, m, <<Fours, Fours, Str, Str>>, 4 + 4 + TextMinimum(form) + TextMinimum(form),
          {u \in Types : Of(u) \in {Fours, Fours, Str, Str}})
    BY ONLY <1>Fours, <1>Str, m \in Tables, PieceOfPairs
  <2>7. Piece(form, m, <<Of("Header")>> \o Row(7, N4), ((m["Header"]) + (28)),
          ({u \in Types : Of(u) \in {Of("Header")}} \cup {}))
    BY ONLY <2>3, <2>4, m \in Tables, PieceJoin
  <2>8. Piece(form, m, <<Of("Header")>> \o Row(7, N4) \o Row(4, N1), (((m["Header"]) + (28))
          + (4)), (({u \in Types : Of(u) \in {Of("Header")}} \cup {}) \cup {}))
    BY ONLY <2>7, <2>5, m \in Tables, PieceJoin
  <2>9. Piece(form, m, <<Of("Header")>> \o Row(7, N4) \o Row(4, N1) \o <<Fours, Fours, Str, Str>>,
          ((((m["Header"]) + (28)) + (4)) + (4 + 4 + TextMinimum(form) + TextMinimum(form))),
                ((({u \in Types : Of(u) \in {Of("Header")}} \cup {}) \cup {}) \cup {u \in Types : Of(u) \in {Fours, Fours, Str, Str}}))
    BY ONLY <2>8, <2>6, m \in Tables, PieceJoin
  <2>10. NestedMinimum(<<"Header">>, m) = m["Header"] /\ ToSet(<<"Header">>) = {"Header"}
    BY <1>Header, NestedSizes, TupleSets
  <2>11. RowIs(form, m, Wire(40, 2, <<"Header">>), 40 + 2 * TextMinimum(form)
           + NestedMinimum(<<"Header">>, m), ToSet(<<"Header">>))
    BY <1>Header, <2>10, RowsOfNested
  <2>12. ((((m["Header"]) + (28)) + (4)) + (4 + 4 + TextMinimum(form) + TextMinimum(form))) = 40
           + 2 * TextMinimum(form) + NestedMinimum(<<"Header">>, m)
    BY <1>Header, <1>Str, <2>10
  <2>13. /\ ToSet(<<"Header">>) \subseteq ((({u \in Types : Of(u) \in {Of("Header")}} \cup {}) \cup {}) \cup {u \in Types : Of(u) \in {Fours, Fours, Str, Str}})
        /\ ToSet(<<"Header">>) \subseteq Nestable
    BY <1>Header, <2>10
  <2> QED BY ONLY <2>1, <2>2, <2>9, <2>11, <2>12, <2>13, MatchesIf
<1>2. Matches(form, m, CameraTypes(form).RegionOfInterest, WireTable[form].RegionOfInterest)
  <2>1. CameraTypes(form).RegionOfInterest = Row(4, N4) \o <<N1>>
    BY DEF CameraTypes
  <2>2. WireTable[form].RegionOfInterest = Wire(17, 0, <<>>)
    <3>1. SensorWire(form).RegionOfInterest = Wire(4 * 4 + 1, 0, <<>>)
      BY DEF SensorWire
    <3>2. WireTable[form].RegionOfInterest = SensorWire(form).RegionOfInterest
      BY RowsAreIn DEF RowNames
    <3> QED BY ONLY <3>1, <3>2
  <2>3. Piece(form, m, Row(4, N4), 16, {})
    BY <1>N4, PieceOfRow
  <2>4. Piece(form, m, <<N1>>, 1, {u \in Types : Of(u) \in {N1}})
    BY <1>N1, PieceOf1
  <2>5. Piece(form, m, Row(4, N4) \o <<N1>>, ((16) + (1)), ({} \cup {u \in Types : Of(u) \in {N1}}))
    BY ONLY <2>3, <2>4, m \in Tables, PieceJoin
  <2>6. NestedMinimum(<<>>, m) = 0 /\ ToSet(<<>>) = {}
    BY NestedSizes, TupleSets
  <2>7. RowIs(form, m, Wire(17, 0, <<>>), 17 + NestedMinimum(<<>>, m), ToSet(<<>>))
    BY <2>6, RowsOfNested
  <2>8. ((16) + (1)) = 17 + NestedMinimum(<<>>, m)
    BY <2>6
  <2>9. /\ ToSet(<<>>) \subseteq ({} \cup {u \in Types : Of(u) \in {N1}})
        /\ ToSet(<<>>) \subseteq Nestable
    BY <2>6
  <2> QED BY ONLY <2>1, <2>2, <2>5, <2>7, <2>8, <2>9, MatchesIf
<1>3. Matches(form, m, CameraTypes(form).CameraInfo, WireTable[form].CameraInfo)
  <2>1. CameraTypes(form).CameraInfo = <<Of("Header"), N4, N4, Str, Eights>> \o <<Doubles(9),
          Doubles(9), Doubles(12)>> \o <<N4, N4, Of("RegionOfInterest")>>
    BY DEF CameraTypes
  <2>2. WireTable[form].CameraInfo = Wire(260, 1, <<"Header", "RegionOfInterest">>)
    <3>1. SensorWire(form).CameraInfo = Wire(2 * 8 * 9 + 8 * 12 + 5 * 4, 1, <<"Header",
            "RegionOfInterest">>)
      BY DEF SensorWire
    <3>2. WireTable[form].CameraInfo = SensorWire(form).CameraInfo
      BY RowsAreIn DEF RowNames
    <3> QED BY ONLY <3>1, <3>2
  <2>3. Piece(form, m, <<Of("Header"), N4, N4, Str, Eights>>, m["Header"] + 4 + 4
          + TextMinimum(form) + 4, {u \in Types : Of(u) \in {Of("Header"), N4, N4, Str, Eights}})
    BY ONLY <1>Header, <1>N4, <1>Str, <1>Eights, m \in Tables, PieceOf5
  <2>4. Piece(form, m, <<Doubles(9), Doubles(9), Doubles(12)>>, 72 + 72 + 96,
          {u \in Types : Of(u) \in {Doubles(9), Doubles(9), Doubles(12)}})
    <3>1. Sized(form, m, Doubles(9), 72) /\ Sized(form, m, Doubles(12), 96)
      BY <1>D9, <1>D12
    <3> QED BY ONLY <3>1, m \in Tables, PieceOfTwice
  <2>5. Piece(form, m, <<N4, N4, Of("RegionOfInterest")>>, 4 + 4 + m["RegionOfInterest"],
          {u \in Types : Of(u) \in {N4, N4, Of("RegionOfInterest")}})
    <3>1. Sized(form, m, N4, 4) /\ Sized(form, m, Of("RegionOfInterest"), m["RegionOfInterest"])
      BY <1>N4, <1>RegionOfInterest
    <3> QED BY ONLY <3>1, m \in Tables, PieceOfTwice
  <2>6. Piece(form, m, <<Of("Header"), N4, N4, Str, Eights>> \o <<Doubles(9), Doubles(9),
          Doubles(12)>>, ((m["Header"] + 4 + 4 + TextMinimum(form) + 4) + (72 + 72 + 96)),
                ({u \in Types : Of(u) \in {Of("Header"), N4, N4, Str,
                      Eights}} \cup {u \in Types : Of(u) \in {Doubles(9), Doubles(9),
                            Doubles(12)}}))
    BY ONLY <2>3, <2>4, m \in Tables, PieceJoin
  <2>7. Piece(form, m, <<Of("Header"), N4, N4, Str, Eights>> \o <<Doubles(9), Doubles(9),
          Doubles(12)>> \o <<N4, N4, Of("RegionOfInterest")>>, (((m["Header"] + 4 + 4
                + TextMinimum(form) + 4) + (72 + 72 + 96)) + (4 + 4 + m["RegionOfInterest"])),
                      (({u \in Types : Of(u) \in {Of("Header"), N4, N4, Str,
                            Eights}} \cup {u \in Types : Of(u) \in {Doubles(9), Doubles(9),
                                  Doubles(12)}}) \cup {u \in Types : Of(u) \in {N4, N4,
                                        Of("RegionOfInterest")}}))
    BY ONLY <2>6, <2>5, m \in Tables, PieceJoin
  <2>8. NestedMinimum(<<"Header", "RegionOfInterest">>, m) = m["Header"]
          + m["RegionOfInterest"] /\ ToSet(<<"Header", "RegionOfInterest">>) = {"Header",
                "RegionOfInterest"}
    BY <1>Header, <1>RegionOfInterest, NestedSizes, TupleSets
  <2>9. RowIs(form, m, Wire(260, 1, <<"Header", "RegionOfInterest">>), 260 + TextMinimum(form)
          + NestedMinimum(<<"Header", "RegionOfInterest">>, m), ToSet(<<"Header",
                "RegionOfInterest">>))
    BY <1>Header, <1>RegionOfInterest, <2>8, RowsOfNested
  <2>10. (((m["Header"] + 4 + 4 + TextMinimum(form) + 4) + (72 + 72 + 96)) + (4 + 4
           + m["RegionOfInterest"])) = 260 + TextMinimum(form) + NestedMinimum(<<"Header",
                 "RegionOfInterest">>, m)
    BY <1>Header, <1>RegionOfInterest, <1>Str, <2>8
  <2>11. /\ ToSet(<<"Header",
           "RegionOfInterest">>) \subseteq (({u \in Types : Of(u) \in {Of("Header"), N4, N4, Str,
                 Eights}} \cup {u \in Types : Of(u) \in {Doubles(9), Doubles(9),
                       Doubles(12)}}) \cup {u \in Types : Of(u) \in {N4, N4,
                             Of("RegionOfInterest")}})
        /\ ToSet(<<"Header", "RegionOfInterest">>) \subseteq Nestable
    BY <1>Header, <1>RegionOfInterest, <2>8
  <2> QED BY ONLY <2>1, <2>2, <2>7, <2>9, <2>10, <2>11, MatchesIf
<1>4. Matches(form, m, CameraTypes(form).ChannelFloat32, WireTable[form].ChannelFloat32)
  <2>1. CameraTypes(form).ChannelFloat32 = <<Str, Fours>>
    BY DEF CameraTypes
  <2>2. WireTable[form].ChannelFloat32 = Wire(4, 1, <<>>)
    <3>1. SensorWire(form).ChannelFloat32 = Wire(4, 1, <<>>)
      BY DEF SensorWire
    <3>2. WireTable[form].ChannelFloat32 = SensorWire(form).ChannelFloat32
      BY RowsAreIn DEF RowNames
    <3> QED BY ONLY <3>1, <3>2
  <2>3. Piece(form, m, <<Str, Fours>>, TextMinimum(form) + 4, {u \in Types : Of(u) \in {Str, Fours}})
    BY ONLY <1>Str, <1>Fours, m \in Tables, PieceOf2
  <2>4. NestedMinimum(<<>>, m) = 0 /\ ToSet(<<>>) = {}
    BY NestedSizes, TupleSets
  <2>5. RowIs(form, m, Wire(4, 1, <<>>), 4 + TextMinimum(form) + NestedMinimum(<<>>, m), ToSet(<<>>))
    BY <2>4, RowsOfNested
  <2>6. TextMinimum(form) + 4 = 4 + TextMinimum(form) + NestedMinimum(<<>>, m)
    BY <1>Str, <2>4
  <2>7. /\ ToSet(<<>>) \subseteq {u \in Types : Of(u) \in {Str, Fours}}
        /\ ToSet(<<>>) \subseteq Nestable
    BY <2>4
  <2> QED BY ONLY <2>1, <2>2, <2>3, <2>5, <2>6, <2>7, MatchesIf
<1> QED BY TypesOfTables, <1>1, <1>2, <1>3, <1>4 DEF TypeNames

LEMMA ImageTypesMatch ==
  ASSUME NEW form \in Formats, NEW m \in Tables
  PROVE  \A t \in DOMAIN ImageTypes(form) : Matches(form, m, ImageTypes(form)[t], WireTable[form][t])
<1>Blob. Sized(form, m, Blob, 4)
  BY FieldsSized
<1>D9. Sized(form, m, Doubles(9), 72)
  BY FieldsSized
<1>N1. Sized(form, m, N1, 1)
  BY FieldsSized
<1>N4. Sized(form, m, N4, 4)
  BY FieldsSized
<1>N8. Sized(form, m, N8, 8)
  BY FieldsSized
<1>Str. Sized(form, m, Str, TextMinimum(form)) /\ TextMinimum(form) \in Nat
  BY FieldsSized DEF Sized
<1>0. {"Header", "Quaternion", "Vector3"} \subseteq Nestable /\ Nestable \subseteq Types
  BY NestableTypes DEF Nestable, Types
<1>Header. /\ Sized(form, m, Of("Header"), m["Header"])
      /\ Sized(form, m, List("Header"), 4)
      /\ m["Header"] \in Nat /\ "Header" \in Types /\ "Header" \in Nestable
  BY <1>0, FieldsSized DEF Sized
<1>Quaternion. /\ Sized(form, m, Of("Quaternion"), m["Quaternion"])
      /\ Sized(form, m, List("Quaternion"), 4)
      /\ m["Quaternion"] \in Nat /\ "Quaternion" \in Types /\ "Quaternion" \in Nestable
  BY <1>0, FieldsSized DEF Sized
<1>Vector3. /\ Sized(form, m, Of("Vector3"), m["Vector3"])
      /\ Sized(form, m, List("Vector3"), 4)
      /\ m["Vector3"] \in Nat /\ "Vector3" \in Types /\ "Vector3" \in Nestable
  BY <1>0, FieldsSized DEF Sized
<1>1. Matches(form, m, ImageTypes(form).CompressedImage, WireTable[form].CompressedImage)
  <2>1. ImageTypes(form).CompressedImage = <<Of("Header"), Str, Blob>>
    BY DEF ImageTypes
  <2>2. WireTable[form].CompressedImage = Wire(4, 1, <<"Header">>)
    <3>1. SensorWire(form).CompressedImage = Wire(4, 1, <<"Header">>)
      BY DEF SensorWire
    <3>2. WireTable[form].CompressedImage = SensorWire(form).CompressedImage
      BY RowsAreIn DEF RowNames
    <3> QED BY ONLY <3>1, <3>2
  <2>3. Piece(form, m, <<Of("Header"), Str, Blob>>, m["Header"] + TextMinimum(form) + 4,
          {u \in Types : Of(u) \in {Of("Header"), Str, Blob}})
    BY ONLY <1>Header, <1>Str, <1>Blob, m \in Tables, PieceOf3
  <2>4. NestedMinimum(<<"Header">>, m) = m["Header"] /\ ToSet(<<"Header">>) = {"Header"}
    BY <1>Header, NestedSizes, TupleSets
  <2>5. RowIs(form, m, Wire(4, 1, <<"Header">>), 4 + TextMinimum(form) + NestedMinimum(<<"Header">>,
          m), ToSet(<<"Header">>))
    BY <1>Header, <2>4, RowsOfNested
  <2>6. m["Header"] + TextMinimum(form) + 4 = 4 + TextMinimum(form) + NestedMinimum(<<"Header">>, m)
    BY <1>Header, <1>Str, <2>4
  <2>7. /\ ToSet(<<"Header">>) \subseteq {u \in Types : Of(u) \in {Of("Header"), Str, Blob}}
        /\ ToSet(<<"Header">>) \subseteq Nestable
    BY <1>Header, <2>4
  <2> QED BY ONLY <2>1, <2>2, <2>3, <2>5, <2>6, <2>7, MatchesIf
<1>2. Matches(form, m, ImageTypes(form).FluidPressure, WireTable[form].FluidPressure)
  <2>1. ImageTypes(form).FluidPressure = <<Of("Header"), N8, N8>>
    BY DEF ImageTypes
  <2>2. WireTable[form].FluidPressure = Wire(16, 0, <<"Header">>)
    <3>1. SensorWire(form).FluidPressure = Wire(2 * 8, 0, <<"Header">>)
      BY DEF SensorWire
    <3>2. WireTable[form].FluidPressure = SensorWire(form).FluidPressure
      BY RowsAreIn DEF RowNames
    <3> QED BY ONLY <3>1, <3>2
  <2>3. Piece(form, m, <<Of("Header"), N8, N8>>, m["Header"] + 8 + 8,
          {u \in Types : Of(u) \in {Of("Header"), N8, N8}})
    BY ONLY <1>Header, <1>N8, m \in Tables, PieceOf3
  <2>4. NestedMinimum(<<"Header">>, m) = m["Header"] /\ ToSet(<<"Header">>) = {"Header"}
    BY <1>Header, NestedSizes, TupleSets
  <2>5. RowIs(form, m, Wire(16, 0, <<"Header">>), 16 + NestedMinimum(<<"Header">>, m),
          ToSet(<<"Header">>))
    BY <1>Header, <2>4, RowsOfNested
  <2>6. m["Header"] + 8 + 8 = 16 + NestedMinimum(<<"Header">>, m)
    BY <1>Header, <2>4
  <2>7. /\ ToSet(<<"Header">>) \subseteq {u \in Types : Of(u) \in {Of("Header"), N8, N8}}
        /\ ToSet(<<"Header">>) \subseteq Nestable
    BY <1>Header, <2>4
  <2> QED BY ONLY <2>1, <2>2, <2>3, <2>5, <2>6, <2>7, MatchesIf
<1>3. Matches(form, m, ImageTypes(form).Illuminance, WireTable[form].Illuminance)
  <2>1. ImageTypes(form).Illuminance = <<Of("Header"), N8, N8>>
    BY DEF ImageTypes
  <2>2. WireTable[form].Illuminance = Wire(16, 0, <<"Header">>)
    <3>1. SensorWire(form).Illuminance = Wire(2 * 8, 0, <<"Header">>)
      BY DEF SensorWire
    <3>2. WireTable[form].Illuminance = SensorWire(form).Illuminance
      BY RowsAreIn DEF RowNames
    <3> QED BY ONLY <3>1, <3>2
  <2>3. Piece(form, m, <<Of("Header"), N8, N8>>, m["Header"] + 8 + 8,
          {u \in Types : Of(u) \in {Of("Header"), N8, N8}})
    BY ONLY <1>Header, <1>N8, m \in Tables, PieceOf3
  <2>4. NestedMinimum(<<"Header">>, m) = m["Header"] /\ ToSet(<<"Header">>) = {"Header"}
    BY <1>Header, NestedSizes, TupleSets
  <2>5. RowIs(form, m, Wire(16, 0, <<"Header">>), 16 + NestedMinimum(<<"Header">>, m),
          ToSet(<<"Header">>))
    BY <1>Header, <2>4, RowsOfNested
  <2>6. m["Header"] + 8 + 8 = 16 + NestedMinimum(<<"Header">>, m)
    BY <1>Header, <2>4
  <2>7. /\ ToSet(<<"Header">>) \subseteq {u \in Types : Of(u) \in {Of("Header"), N8, N8}}
        /\ ToSet(<<"Header">>) \subseteq Nestable
    BY <1>Header, <2>4
  <2> QED BY ONLY <2>1, <2>2, <2>3, <2>5, <2>6, <2>7, MatchesIf
<1>4. Matches(form, m, ImageTypes(form).Image, WireTable[form].Image)
  <2>1. ImageTypes(form).Image = <<Of("Header"), N4, N4, Str, N1, N4, Blob>>
    BY DEF ImageTypes
  <2>2. WireTable[form].Image = Wire(17, 1, <<"Header">>)
    <3>1. SensorWire(form).Image = Wire(4 * 4 + 1, 1, <<"Header">>)
      BY DEF SensorWire
    <3>2. WireTable[form].Image = SensorWire(form).Image
      BY RowsAreIn DEF RowNames
    <3> QED BY ONLY <3>1, <3>2
  <2>3. Piece(form, m, <<Of("Header"), N4, N4, Str, N1, N4, Blob>>, m["Header"] + 4 + 4
          + TextMinimum(form) + 1 + 4 + 4, {u \in Types : Of(u) \in {Of("Header"), N4, N4, Str, N1,
                N4, Blob}})
    BY ONLY <1>Header, <1>N4, <1>Str, <1>N1, <1>Blob, m \in Tables, PieceOf7
  <2>4. NestedMinimum(<<"Header">>, m) = m["Header"] /\ ToSet(<<"Header">>) = {"Header"}
    BY <1>Header, NestedSizes, TupleSets
  <2>5. RowIs(form, m, Wire(17, 1, <<"Header">>), 17 + TextMinimum(form)
          + NestedMinimum(<<"Header">>, m), ToSet(<<"Header">>))
    BY <1>Header, <2>4, RowsOfNested
  <2>6. m["Header"] + 4 + 4 + TextMinimum(form) + 1 + 4 + 4 = 17 + TextMinimum(form)
          + NestedMinimum(<<"Header">>, m)
    BY <1>Header, <1>Str, <2>4
  <2>7. /\ ToSet(<<"Header">>) \subseteq {u \in Types : Of(u) \in {Of("Header"), N4, N4, Str, N1,
          N4, Blob}}
        /\ ToSet(<<"Header">>) \subseteq Nestable
    BY <1>Header, <2>4
  <2> QED BY ONLY <2>1, <2>2, <2>3, <2>5, <2>6, <2>7, MatchesIf
<1>5. Matches(form, m, ImageTypes(form).Imu, WireTable[form].Imu)
  <2>1. ImageTypes(form).Imu = <<Of("Header"), Of("Quaternion"), Doubles(9), Of("Vector3"),
          Doubles(9), Of("Vector3"), Doubles(9)>>
    BY DEF ImageTypes
  <2>2. WireTable[form].Imu = Wire(216, 0, <<"Header", "Quaternion", "Vector3", "Vector3">>)
    <3>1. SensorWire(form).Imu = Wire(3 * 8 * 9, 0, <<"Header", "Quaternion", "Vector3", "Vector3">>)
      BY DEF SensorWire
    <3>2. WireTable[form].Imu = SensorWire(form).Imu
      BY RowsAreIn DEF RowNames
    <3> QED BY ONLY <3>1, <3>2
  <2>3. Piece(form, m, <<Of("Header"), Of("Quaternion"), Doubles(9), Of("Vector3"), Doubles(9),
          Of("Vector3"), Doubles(9)>>, m["Header"] + m["Quaternion"] + 72 + m["Vector3"] + 72
                + m["Vector3"] + 72, {u \in Types : Of(u) \in {Of("Header"), Of("Quaternion"),
                      Doubles(9), Of("Vector3"), Doubles(9), Of("Vector3"), Doubles(9)}})
    BY ONLY <1>Header, <1>Quaternion, <1>D9, <1>Vector3, m \in Tables, PieceOf7
  <2>4. NestedMinimum(<<"Header", "Quaternion", "Vector3", "Vector3">>, m) = m["Header"]
          + m["Quaternion"] + m["Vector3"] + m["Vector3"] /\ ToSet(<<"Header", "Quaternion",
                "Vector3", "Vector3">>) = {"Header", "Quaternion", "Vector3"}
    BY <1>Header, <1>Quaternion, <1>Vector3, NestedSizes, TupleSets
  <2>5. RowIs(form, m, Wire(216, 0, <<"Header", "Quaternion", "Vector3", "Vector3">>), 216
          + NestedMinimum(<<"Header", "Quaternion", "Vector3", "Vector3">>, m), ToSet(<<"Header",
                "Quaternion", "Vector3", "Vector3">>))
    BY <1>Header, <1>Quaternion, <1>Vector3, <2>4, RowsOfNested
  <2>6. m["Header"] + m["Quaternion"] + 72 + m["Vector3"] + 72 + m["Vector3"] + 72 = 216
          + NestedMinimum(<<"Header", "Quaternion", "Vector3", "Vector3">>, m)
    BY <1>Header, <1>Quaternion, <1>Vector3, <2>4
  <2>7. /\ ToSet(<<"Header", "Quaternion", "Vector3",
          "Vector3">>) \subseteq {u \in Types : Of(u) \in {Of("Header"), Of("Quaternion"),
                Doubles(9), Of("Vector3"), Doubles(9), Of("Vector3"), Doubles(9)}}
        /\ ToSet(<<"Header", "Quaternion", "Vector3", "Vector3">>) \subseteq Nestable
    BY <1>Header, <1>Quaternion, <1>Vector3, <2>4
  <2> QED BY ONLY <2>1, <2>2, <2>3, <2>5, <2>6, <2>7, MatchesIf
<1> QED BY TypesOfTables, <1>1, <1>2, <1>3, <1>4, <1>5 DEF TypeNames

LEMMA JointTypesMatch ==
  ASSUME NEW form \in Formats, NEW m \in Tables
  PROVE  \A t \in DOMAIN JointTypes(form) : Matches(form, m, JointTypes(form)[t], WireTable[form][t])
<1>Eights. Sized(form, m, Eights, 4)
  BY FieldsSized
<1>Fours. Sized(form, m, Fours, 4)
  BY FieldsSized
<1>N1. Sized(form, m, N1, 1)
  BY FieldsSized
<1>N4. Sized(form, m, N4, 4)
  BY FieldsSized
<1>Texts. Sized(form, m, Texts, 4)
  BY FieldsSized
<1>0. {"Header", "JoyFeedback"} \subseteq Nestable /\ Nestable \subseteq Types
  BY NestableTypes DEF Nestable, Types
<1>Header. /\ Sized(form, m, Of("Header"), m["Header"])
      /\ Sized(form, m, List("Header"), 4)
      /\ m["Header"] \in Nat /\ "Header" \in Types /\ "Header" \in Nestable
  BY <1>0, FieldsSized DEF Sized
<1>JoyFeedback. /\ Sized(form, m, Of("JoyFeedback"), m["JoyFeedback"])
      /\ Sized(form, m, List("JoyFeedback"), 4)
      /\ m["JoyFeedback"] \in Nat /\ "JoyFeedback" \in Types /\ "JoyFeedback" \in Nestable
  BY <1>0, FieldsSized DEF Sized
<1>1. Matches(form, m, JointTypes(form).JointState, WireTable[form].JointState)
  <2>1. JointTypes(form).JointState = <<Of("Header"), Texts>> \o Row(3, Eights)
    BY DEF JointTypes
  <2>2. WireTable[form].JointState = Wire(16, 0, <<"Header">>)
    <3>1. SensorWire(form).JointState = Wire(4 * 4, 0, <<"Header">>)
      BY DEF SensorWire
    <3>2. WireTable[form].JointState = SensorWire(form).JointState
      BY RowsAreIn DEF RowNames
    <3> QED BY ONLY <3>1, <3>2
  <2>3. Piece(form, m, <<Of("Header"), Texts>>, m["Header"] + 4,
          {u \in Types : Of(u) \in {Of("Header"), Texts}})
    BY ONLY <1>Header, <1>Texts, m \in Tables, PieceOf2
  <2>4. Piece(form, m, Row(3, Eights), 12, {})
    BY <1>Eights, PieceOfRow
  <2>5. Piece(form, m, <<Of("Header"), Texts>> \o Row(3, Eights), ((m["Header"] + 4) + (12)),
          ({u \in Types : Of(u) \in {Of("Header"), Texts}} \cup {}))
    BY ONLY <2>3, <2>4, m \in Tables, PieceJoin
  <2>6. NestedMinimum(<<"Header">>, m) = m["Header"] /\ ToSet(<<"Header">>) = {"Header"}
    BY <1>Header, NestedSizes, TupleSets
  <2>7. RowIs(form, m, Wire(16, 0, <<"Header">>), 16 + NestedMinimum(<<"Header">>, m),
          ToSet(<<"Header">>))
    BY <1>Header, <2>6, RowsOfNested
  <2>8. ((m["Header"] + 4) + (12)) = 16 + NestedMinimum(<<"Header">>, m)
    BY <1>Header, <2>6
  <2>9. /\ ToSet(<<"Header">>) \subseteq ({u \in Types : Of(u) \in {Of("Header"), Texts}} \cup {})
        /\ ToSet(<<"Header">>) \subseteq Nestable
    BY <1>Header, <2>6
  <2> QED BY ONLY <2>1, <2>2, <2>5, <2>7, <2>8, <2>9, MatchesIf
<1>2. Matches(form, m, JointTypes(form).Joy, WireTable[form].Joy)
  <2>1. JointTypes(form).Joy = <<Of("Header"), Fours, Fours>>
    BY DEF JointTypes
  <2>2. WireTable[form].Joy = Wire(8, 0, <<"Header">>)
    <3>1. SensorWire(form).Joy = Wire(2 * 4, 0, <<"Header">>)
      BY DEF SensorWire
    <3>2. WireTable[form].Joy = SensorWire(form).Joy
      BY RowsAreIn DEF RowNames
    <3> QED BY ONLY <3>1, <3>2
  <2>3. Piece(form, m, <<Of("Header"), Fours, Fours>>, m["Header"] + 4 + 4,
          {u \in Types : Of(u) \in {Of("Header"), Fours, Fours}})
    BY ONLY <1>Header, <1>Fours, m \in Tables, PieceOf3
  <2>4. NestedMinimum(<<"Header">>, m) = m["Header"] /\ ToSet(<<"Header">>) = {"Header"}
    BY <1>Header, NestedSizes, TupleSets
  <2>5. RowIs(form, m, Wire(8, 0, <<"Header">>), 8 + NestedMinimum(<<"Header">>, m),
          ToSet(<<"Header">>))
    BY <1>Header, <2>4, RowsOfNested
  <2>6. m["Header"] + 4 + 4 = 8 + NestedMinimum(<<"Header">>, m)
    BY <1>Header, <2>4
  <2>7. /\ ToSet(<<"Header">>) \subseteq {u \in Types : Of(u) \in {Of("Header"), Fours, Fours}}
        /\ ToSet(<<"Header">>) \subseteq Nestable
    BY <1>Header, <2>4
  <2> QED BY ONLY <2>1, <2>2, <2>3, <2>5, <2>6, <2>7, MatchesIf
<1>3. Matches(form, m, JointTypes(form).JoyFeedback, WireTable[form].JoyFeedback)
  <2>1. JointTypes(form).JoyFeedback = <<N1, N1, N4>>
    BY DEF JointTypes
  <2>2. WireTable[form].JoyFeedback = Wire(6, 0, <<>>)
    <3>1. SensorWire(form).JoyFeedback = Wire(2 * 1 + 4, 0, <<>>)
      BY DEF SensorWire
    <3>2. WireTable[form].JoyFeedback = SensorWire(form).JoyFeedback
      BY RowsAreIn DEF RowNames
    <3> QED BY ONLY <3>1, <3>2
  <2>3. Piece(form, m, <<N1, N1, N4>>, 1 + 1 + 4, {u \in Types : Of(u) \in {N1, N1, N4}})
    <3>1. Sized(form, m, N1, 1) /\ Sized(form, m, N4, 4)
      BY <1>N1, <1>N4
    <3> QED BY ONLY <3>1, m \in Tables, PieceOfTwice
  <2>4. NestedMinimum(<<>>, m) = 0 /\ ToSet(<<>>) = {}
    BY NestedSizes, TupleSets
  <2>5. RowIs(form, m, Wire(6, 0, <<>>), 6 + NestedMinimum(<<>>, m), ToSet(<<>>))
    BY <2>4, RowsOfNested
  <2>6. 1 + 1 + 4 = 6 + NestedMinimum(<<>>, m)
    BY <2>4
  <2>7. /\ ToSet(<<>>) \subseteq {u \in Types : Of(u) \in {N1, N1, N4}}
        /\ ToSet(<<>>) \subseteq Nestable
    BY <2>4
  <2> QED BY ONLY <2>1, <2>2, <2>3, <2>5, <2>6, <2>7, MatchesIf
<1>4. Matches(form, m, JointTypes(form).JoyFeedbackArray, WireTable[form].JoyFeedbackArray)
  <2>1. JointTypes(form).JoyFeedbackArray = <<List("JoyFeedback")>>
    BY DEF JointTypes
  <2>2. WireTable[form].JoyFeedbackArray = Wire(4, 0, <<>>)
    <3>1. SensorWire(form).JoyFeedbackArray = Wire(4, 0, <<>>)
      BY DEF SensorWire
    <3>2. WireTable[form].JoyFeedbackArray = SensorWire(form).JoyFeedbackArray
      BY RowsAreIn DEF RowNames
    <3> QED BY ONLY <3>1, <3>2
  <2>3. Piece(form, m, <<List("JoyFeedback")>>, 4, {u \in Types : Of(u) \in {List("JoyFeedback")}})
    BY <1>JoyFeedback, PieceOf1
  <2>4. NestedMinimum(<<>>, m) = 0 /\ ToSet(<<>>) = {}
    BY NestedSizes, TupleSets
  <2>5. RowIs(form, m, Wire(4, 0, <<>>), 4 + NestedMinimum(<<>>, m), ToSet(<<>>))
    BY <2>4, RowsOfNested
  <2>6. 4 = 4 + NestedMinimum(<<>>, m)
    BY <2>4
  <2>7. /\ ToSet(<<>>) \subseteq {u \in Types : Of(u) \in {List("JoyFeedback")}}
        /\ ToSet(<<>>) \subseteq Nestable
    BY <2>4
  <2> QED BY ONLY <2>1, <2>2, <2>3, <2>5, <2>6, <2>7, MatchesIf
<1>5. Matches(form, m, JointTypes(form).LaserEcho, WireTable[form].LaserEcho)
  <2>1. JointTypes(form).LaserEcho = <<Fours>>
    BY DEF JointTypes
  <2>2. WireTable[form].LaserEcho = Wire(4, 0, <<>>)
    <3>1. SensorWire(form).LaserEcho = Wire(4, 0, <<>>)
      BY DEF SensorWire
    <3>2. WireTable[form].LaserEcho = SensorWire(form).LaserEcho
      BY RowsAreIn DEF RowNames
    <3> QED BY ONLY <3>1, <3>2
  <2>3. Piece(form, m, <<Fours>>, 4, {u \in Types : Of(u) \in {Fours}})
    BY <1>Fours, PieceOf1
  <2>4. NestedMinimum(<<>>, m) = 0 /\ ToSet(<<>>) = {}
    BY NestedSizes, TupleSets
  <2>5. RowIs(form, m, Wire(4, 0, <<>>), 4 + NestedMinimum(<<>>, m), ToSet(<<>>))
    BY <2>4, RowsOfNested
  <2>6. 4 = 4 + NestedMinimum(<<>>, m)
    BY <2>4
  <2>7. /\ ToSet(<<>>) \subseteq {u \in Types : Of(u) \in {Fours}}
        /\ ToSet(<<>>) \subseteq Nestable
    BY <2>4
  <2> QED BY ONLY <2>1, <2>2, <2>3, <2>5, <2>6, <2>7, MatchesIf
<1> QED BY TypesOfTables, <1>1, <1>2, <1>3, <1>4, <1>5 DEF TypeNames

LEMMA LaserTypesMatch ==
  ASSUME NEW form \in Formats, NEW m \in Tables
  PROVE  \A t \in DOMAIN LaserTypes(form) : Matches(form, m, LaserTypes(form)[t], WireTable[form][t])
<1>D9. Sized(form, m, Doubles(9), 72)
  BY FieldsSized
<1>Fours. Sized(form, m, Fours, 4)
  BY FieldsSized
<1>N4. Sized(form, m, N4, 4)
  BY FieldsSized
<1>Texts. Sized(form, m, Texts, 4)
  BY FieldsSized
<1>0. {"Header", "Transform", "Twist", "Vector3",
        "Wrench"} \subseteq Nestable /\ Nestable \subseteq Types
  BY NestableTypes DEF Nestable, Types
<1>Header. /\ Sized(form, m, Of("Header"), m["Header"])
      /\ Sized(form, m, List("Header"), 4)
      /\ m["Header"] \in Nat /\ "Header" \in Types /\ "Header" \in Nestable
  BY <1>0, FieldsSized DEF Sized
<1>Transform. /\ Sized(form, m, Of("Transform"), m["Transform"])
      /\ Sized(form, m, List("Transform"), 4)
      /\ m["Transform"] \in Nat /\ "Transform" \in Types /\ "Transform" \in Nestable
  BY <1>0, FieldsSized DEF Sized
<1>Twist. /\ Sized(form, m, Of("Twist"), m["Twist"])
      /\ Sized(form, m, List("Twist"), 4)
      /\ m["Twist"] \in Nat /\ "Twist" \in Types /\ "Twist" \in Nestable
  BY <1>0, FieldsSized DEF Sized
<1>Vector3. /\ Sized(form, m, Of("Vector3"), m["Vector3"])
      /\ Sized(form, m, List("Vector3"), 4)
      /\ m["Vector3"] \in Nat /\ "Vector3" \in Types /\ "Vector3" \in Nestable
  BY <1>0, FieldsSized DEF Sized
<1>Wrench. /\ Sized(form, m, Of("Wrench"), m["Wrench"])
      /\ Sized(form, m, List("Wrench"), 4)
      /\ m["Wrench"] \in Nat /\ "Wrench" \in Types /\ "Wrench" \in Nestable
  BY <1>0, FieldsSized DEF Sized
<1>1. Matches(form, m, LaserTypes(form).LaserScan, WireTable[form].LaserScan)
  <2>1. LaserTypes(form).LaserScan = <<Of("Header")>> \o Row(7, N4) \o <<Fours, Fours>>
    BY DEF LaserTypes
  <2>2. WireTable[form].LaserScan = Wire(36, 0, <<"Header">>)
    <3>1. SensorWire(form).LaserScan = Wire(9 * 4, 0, <<"Header">>)
      BY DEF SensorWire
    <3>2. WireTable[form].LaserScan = SensorWire(form).LaserScan
      BY RowsAreIn DEF RowNames
    <3> QED BY ONLY <3>1, <3>2
  <2>3. Piece(form, m, <<Of("Header")>>, m["Header"], {u \in Types : Of(u) \in {Of("Header")}})
    BY <1>Header, PieceOf1
  <2>4. Piece(form, m, Row(7, N4), 28, {})
    BY <1>N4, PieceOfRow
  <2>5. Piece(form, m, <<Fours, Fours>>, 4 + 4, {u \in Types : Of(u) \in {Fours, Fours}})
    BY ONLY <1>Fours, m \in Tables, PieceOf2
  <2>6. Piece(form, m, <<Of("Header")>> \o Row(7, N4), ((m["Header"]) + (28)),
          ({u \in Types : Of(u) \in {Of("Header")}} \cup {}))
    BY ONLY <2>3, <2>4, m \in Tables, PieceJoin
  <2>7. Piece(form, m, <<Of("Header")>> \o Row(7, N4) \o <<Fours, Fours>>, (((m["Header"])
          + (28)) + (4 + 4)),
                (({u \in Types : Of(u) \in {Of("Header")}} \cup {}) \cup {u \in Types : Of(u) \in {Fours, Fours}}))
    BY ONLY <2>6, <2>5, m \in Tables, PieceJoin
  <2>8. NestedMinimum(<<"Header">>, m) = m["Header"] /\ ToSet(<<"Header">>) = {"Header"}
    BY <1>Header, NestedSizes, TupleSets
  <2>9. RowIs(form, m, Wire(36, 0, <<"Header">>), 36 + NestedMinimum(<<"Header">>, m),
          ToSet(<<"Header">>))
    BY <1>Header, <2>8, RowsOfNested
  <2>10. (((m["Header"]) + (28)) + (4 + 4)) = 36 + NestedMinimum(<<"Header">>, m)
    BY <1>Header, <2>8
  <2>11. /\ ToSet(<<"Header">>) \subseteq (({u \in Types : Of(u) \in {Of("Header")}} \cup {}) \cup {u \in Types : Of(u) \in {Fours, Fours}})
        /\ ToSet(<<"Header">>) \subseteq Nestable
    BY <1>Header, <2>8
  <2> QED BY ONLY <2>1, <2>2, <2>7, <2>9, <2>10, <2>11, MatchesIf
<1>2. Matches(form, m, LaserTypes(form).MagneticField, WireTable[form].MagneticField)
  <2>1. LaserTypes(form).MagneticField = <<Of("Header"), Of("Vector3"), Doubles(9)>>
    BY DEF LaserTypes
  <2>2. WireTable[form].MagneticField = Wire(72, 0, <<"Header", "Vector3">>)
    <3>1. SensorWire(form).MagneticField = Wire(8 * 9, 0, <<"Header", "Vector3">>)
      BY DEF SensorWire
    <3>2. WireTable[form].MagneticField = SensorWire(form).MagneticField
      BY RowsAreIn DEF RowNames
    <3> QED BY ONLY <3>1, <3>2
  <2>3. Piece(form, m, <<Of("Header"), Of("Vector3"), Doubles(9)>>, m["Header"] + m["Vector3"]
          + 72, {u \in Types : Of(u) \in {Of("Header"), Of("Vector3"), Doubles(9)}})
    BY ONLY <1>Header, <1>Vector3, <1>D9, m \in Tables, PieceOf3
  <2>4. NestedMinimum(<<"Header", "Vector3">>, m) = m["Header"]
          + m["Vector3"] /\ ToSet(<<"Header", "Vector3">>) = {"Header", "Vector3"}
    BY <1>Header, <1>Vector3, NestedSizes, TupleSets
  <2>5. RowIs(form, m, Wire(72, 0, <<"Header", "Vector3">>), 72 + NestedMinimum(<<"Header",
          "Vector3">>, m), ToSet(<<"Header", "Vector3">>))
    BY <1>Header, <1>Vector3, <2>4, RowsOfNested
  <2>6. m["Header"] + m["Vector3"] + 72 = 72 + NestedMinimum(<<"Header", "Vector3">>, m)
    BY <1>Header, <1>Vector3, <2>4
  <2>7. /\ ToSet(<<"Header", "Vector3">>) \subseteq {u \in Types : Of(u) \in {Of("Header"),
          Of("Vector3"), Doubles(9)}}
        /\ ToSet(<<"Header", "Vector3">>) \subseteq Nestable
    BY <1>Header, <1>Vector3, <2>4
  <2> QED BY ONLY <2>1, <2>2, <2>3, <2>5, <2>6, <2>7, MatchesIf
<1>3. Matches(form, m, LaserTypes(form).MultiDOFJointState, WireTable[form].MultiDOFJointState)
  <2>1. LaserTypes(form).MultiDOFJointState = <<Of("Header"), Texts, List("Transform"),
          List("Twist"), List("Wrench")>>
    BY DEF LaserTypes
  <2>2. WireTable[form].MultiDOFJointState = Wire(16, 0, <<"Header">>)
    <3>1. SensorWire(form).MultiDOFJointState = Wire(4 * 4, 0, <<"Header">>)
      BY DEF SensorWire
    <3>2. WireTable[form].MultiDOFJointState = SensorWire(form).MultiDOFJointState
      BY RowsAreIn DEF RowNames
    <3> QED BY ONLY <3>1, <3>2
  <2>3. Piece(form, m, <<Of("Header"), Texts, List("Transform"), List("Twist"), List("Wrench")>>,
          m["Header"] + 4 + 4 + 4 + 4, {u \in Types : Of(u) \in {Of("Header"), Texts,
                List("Transform"), List("Twist"), List("Wrench")}})
    BY ONLY <1>Header, <1>Texts, <1>Transform, <1>Twist, <1>Wrench, m \in Tables, PieceOf5
  <2>4. NestedMinimum(<<"Header">>, m) = m["Header"] /\ ToSet(<<"Header">>) = {"Header"}
    BY <1>Header, NestedSizes, TupleSets
  <2>5. RowIs(form, m, Wire(16, 0, <<"Header">>), 16 + NestedMinimum(<<"Header">>, m),
          ToSet(<<"Header">>))
    BY <1>Header, <2>4, RowsOfNested
  <2>6. m["Header"] + 4 + 4 + 4 + 4 = 16 + NestedMinimum(<<"Header">>, m)
    BY <1>Header, <2>4
  <2>7. /\ ToSet(<<"Header">>) \subseteq {u \in Types : Of(u) \in {Of("Header"), Texts,
          List("Transform"), List("Twist"), List("Wrench")}}
        /\ ToSet(<<"Header">>) \subseteq Nestable
    BY <1>Header, <2>4
  <2> QED BY ONLY <2>1, <2>2, <2>3, <2>5, <2>6, <2>7, MatchesIf
<1> QED BY TypesOfTables, <1>1, <1>2, <1>3 DEF TypeNames

LEMMA CloudTypesMatch ==
  ASSUME NEW form \in Formats, NEW m \in Tables
  PROVE  \A t \in DOMAIN CloudTypes(form) : Matches(form, m, CloudTypes(form)[t], WireTable[form][t])
<1>D9. Sized(form, m, Doubles(9), 72)
  BY FieldsSized
<1>N1. Sized(form, m, N1, 1)
  BY FieldsSized
<1>N2. Sized(form, m, N2, 2)
  BY FieldsSized
<1>N4. Sized(form, m, N4, 4)
  BY FieldsSized
<1>N8. Sized(form, m, N8, 8)
  BY FieldsSized
<1>Str. Sized(form, m, Str, TextMinimum(form)) /\ TextMinimum(form) \in Nat
  BY FieldsSized DEF Sized
<1>0. {"ChannelFloat32", "Header", "LaserEcho", "NavSatStatus",
        "Point32"} \subseteq Nestable /\ Nestable \subseteq Types
  BY NestableTypes DEF Nestable, Types
<1>ChannelFloat32. /\ Sized(form, m, Of("ChannelFloat32"), m["ChannelFloat32"])
      /\ Sized(form, m, List("ChannelFloat32"), 4)
      /\ m["ChannelFloat32"] \in Nat /\ "ChannelFloat32" \in Types /\ "ChannelFloat32" \in Nestable
  BY <1>0, FieldsSized DEF Sized
<1>Header. /\ Sized(form, m, Of("Header"), m["Header"])
      /\ Sized(form, m, List("Header"), 4)
      /\ m["Header"] \in Nat /\ "Header" \in Types /\ "Header" \in Nestable
  BY <1>0, FieldsSized DEF Sized
<1>LaserEcho. /\ Sized(form, m, Of("LaserEcho"), m["LaserEcho"])
      /\ Sized(form, m, List("LaserEcho"), 4)
      /\ m["LaserEcho"] \in Nat /\ "LaserEcho" \in Types /\ "LaserEcho" \in Nestable
  BY <1>0, FieldsSized DEF Sized
<1>NavSatStatus. /\ Sized(form, m, Of("NavSatStatus"), m["NavSatStatus"])
      /\ Sized(form, m, List("NavSatStatus"), 4)
      /\ m["NavSatStatus"] \in Nat /\ "NavSatStatus" \in Types /\ "NavSatStatus" \in Nestable
  BY <1>0, FieldsSized DEF Sized
<1>Point32. /\ Sized(form, m, Of("Point32"), m["Point32"])
      /\ Sized(form, m, List("Point32"), 4)
      /\ m["Point32"] \in Nat /\ "Point32" \in Types /\ "Point32" \in Nestable
  BY <1>0, FieldsSized DEF Sized
<1>1. Matches(form, m, CloudTypes(form).MultiEchoLaserScan, WireTable[form].MultiEchoLaserScan)
  <2>1. CloudTypes(form).MultiEchoLaserScan = <<Of("Header")>> \o Row(7,
          N4) \o <<List("LaserEcho"), List("LaserEcho")>>
    BY DEF CloudTypes
  <2>2. WireTable[form].MultiEchoLaserScan = Wire(36, 0, <<"Header">>)
    <3>1. SensorWire(form).MultiEchoLaserScan = Wire(9 * 4, 0, <<"Header">>)
      BY DEF SensorWire
    <3>2. WireTable[form].MultiEchoLaserScan = SensorWire(form).MultiEchoLaserScan
      BY RowsAreIn DEF RowNames
    <3> QED BY ONLY <3>1, <3>2
  <2>3. Piece(form, m, <<Of("Header")>>, m["Header"], {u \in Types : Of(u) \in {Of("Header")}})
    BY <1>Header, PieceOf1
  <2>4. Piece(form, m, Row(7, N4), 28, {})
    BY <1>N4, PieceOfRow
  <2>5. Piece(form, m, <<List("LaserEcho"), List("LaserEcho")>>, 4 + 4,
          {u \in Types : Of(u) \in {List("LaserEcho"), List("LaserEcho")}})
    BY ONLY <1>LaserEcho, m \in Tables, PieceOfPair
  <2>6. Piece(form, m, <<Of("Header")>> \o Row(7, N4), ((m["Header"]) + (28)),
          ({u \in Types : Of(u) \in {Of("Header")}} \cup {}))
    BY ONLY <2>3, <2>4, m \in Tables, PieceJoin
  <2>7. Piece(form, m, <<Of("Header")>> \o Row(7, N4) \o <<List("LaserEcho"), List("LaserEcho")>>,
          (((m["Header"]) + (28)) + (4 + 4)),
                (({u \in Types : Of(u) \in {Of("Header")}} \cup {}) \cup {u \in Types : Of(u) \in {List("LaserEcho"), List("LaserEcho")}}))
    BY ONLY <2>6, <2>5, m \in Tables, PieceJoin
  <2>8. NestedMinimum(<<"Header">>, m) = m["Header"] /\ ToSet(<<"Header">>) = {"Header"}
    BY <1>Header, NestedSizes, TupleSets
  <2>9. RowIs(form, m, Wire(36, 0, <<"Header">>), 36 + NestedMinimum(<<"Header">>, m),
          ToSet(<<"Header">>))
    BY <1>Header, <2>8, RowsOfNested
  <2>10. (((m["Header"]) + (28)) + (4 + 4)) = 36 + NestedMinimum(<<"Header">>, m)
    BY <1>Header, <2>8
  <2>11. /\ ToSet(<<"Header">>) \subseteq (({u \in Types : Of(u) \in {Of("Header")}} \cup {}) \cup {u \in Types : Of(u) \in {List("LaserEcho"), List("LaserEcho")}})
        /\ ToSet(<<"Header">>) \subseteq Nestable
    BY <1>Header, <2>8
  <2> QED BY ONLY <2>1, <2>2, <2>7, <2>9, <2>10, <2>11, MatchesIf
<1>2. Matches(form, m, CloudTypes(form).NavSatStatus, WireTable[form].NavSatStatus)
  <2>1. CloudTypes(form).NavSatStatus = <<N1, N2>>
    BY DEF CloudTypes
  <2>2. WireTable[form].NavSatStatus = Wire(3, 0, <<>>)
    <3>1. SensorWire(form).NavSatStatus = Wire(1 + 2, 0, <<>>)
      BY DEF SensorWire
    <3>2. WireTable[form].NavSatStatus = SensorWire(form).NavSatStatus
      BY RowsAreIn DEF RowNames
    <3> QED BY ONLY <3>1, <3>2
  <2>3. Piece(form, m, <<N1, N2>>, 1 + 2, {u \in Types : Of(u) \in {N1, N2}})
    BY ONLY <1>N1, <1>N2, m \in Tables, PieceOf2
  <2>4. NestedMinimum(<<>>, m) = 0 /\ ToSet(<<>>) = {}
    BY NestedSizes, TupleSets
  <2>5. RowIs(form, m, Wire(3, 0, <<>>), 3 + NestedMinimum(<<>>, m), ToSet(<<>>))
    BY <2>4, RowsOfNested
  <2>6. 1 + 2 = 3 + NestedMinimum(<<>>, m)
    BY <2>4
  <2>7. /\ ToSet(<<>>) \subseteq {u \in Types : Of(u) \in {N1, N2}}
        /\ ToSet(<<>>) \subseteq Nestable
    BY <2>4
  <2> QED BY ONLY <2>1, <2>2, <2>3, <2>5, <2>6, <2>7, MatchesIf
<1>3. Matches(form, m, CloudTypes(form).NavSatFix, WireTable[form].NavSatFix)
  <2>1. CloudTypes(form).NavSatFix = <<Of("Header"), Of("NavSatStatus")>> \o Row(3,
          N8) \o <<Doubles(9), N1>>
    BY DEF CloudTypes
  <2>2. WireTable[form].NavSatFix = Wire(97, 0, <<"Header", "NavSatStatus">>)
    <3>1. SensorWire(form).NavSatFix = Wire(8 * 9 + 3 * 8 + 1, 0, <<"Header", "NavSatStatus">>)
      BY DEF SensorWire
    <3>2. WireTable[form].NavSatFix = SensorWire(form).NavSatFix
      BY RowsAreIn DEF RowNames
    <3> QED BY ONLY <3>1, <3>2
  <2>3. Piece(form, m, <<Of("Header"), Of("NavSatStatus")>>, m["Header"] + m["NavSatStatus"],
          {u \in Types : Of(u) \in {Of("Header"), Of("NavSatStatus")}})
    BY ONLY <1>Header, <1>NavSatStatus, m \in Tables, PieceOf2
  <2>4. Piece(form, m, Row(3, N8), 24, {})
    BY <1>N8, PieceOfRow
  <2>5. Piece(form, m, <<Doubles(9), N1>>, 72 + 1, {u \in Types : Of(u) \in {Doubles(9), N1}})
    BY ONLY <1>D9, <1>N1, m \in Tables, PieceOf2
  <2>6. Piece(form, m, <<Of("Header"), Of("NavSatStatus")>> \o Row(3, N8), ((m["Header"]
          + m["NavSatStatus"]) + (24)), ({u \in Types : Of(u) \in {Of("Header"),
                Of("NavSatStatus")}} \cup {}))
    BY ONLY <2>3, <2>4, m \in Tables, PieceJoin
  <2>7. Piece(form, m, <<Of("Header"), Of("NavSatStatus")>> \o Row(3, N8) \o <<Doubles(9), N1>>,
          (((m["Header"] + m["NavSatStatus"]) + (24)) + (72 + 1)),
                (({u \in Types : Of(u) \in {Of("Header"),
                      Of("NavSatStatus")}} \cup {}) \cup {u \in Types : Of(u) \in {Doubles(9),
                            N1}}))
    BY ONLY <2>6, <2>5, m \in Tables, PieceJoin
  <2>8. NestedMinimum(<<"Header", "NavSatStatus">>, m) = m["Header"]
          + m["NavSatStatus"] /\ ToSet(<<"Header", "NavSatStatus">>) = {"Header", "NavSatStatus"}
    BY <1>Header, <1>NavSatStatus, NestedSizes, TupleSets
  <2>9. RowIs(form, m, Wire(97, 0, <<"Header", "NavSatStatus">>), 97 + NestedMinimum(<<"Header",
          "NavSatStatus">>, m), ToSet(<<"Header", "NavSatStatus">>))
    BY <1>Header, <1>NavSatStatus, <2>8, RowsOfNested
  <2>10. (((m["Header"] + m["NavSatStatus"]) + (24)) + (72 + 1)) = 97 + NestedMinimum(<<"Header",
           "NavSatStatus">>, m)
    BY <1>Header, <1>NavSatStatus, <2>8
  <2>11. /\ ToSet(<<"Header",
           "NavSatStatus">>) \subseteq (({u \in Types : Of(u) \in {Of("Header"),
                 Of("NavSatStatus")}} \cup {}) \cup {u \in Types : Of(u) \in {Doubles(9), N1}})
        /\ ToSet(<<"Header", "NavSatStatus">>) \subseteq Nestable
    BY <1>Header, <1>NavSatStatus, <2>8
  <2> QED BY ONLY <2>1, <2>2, <2>7, <2>9, <2>10, <2>11, MatchesIf
<1>4. Matches(form, m, CloudTypes(form).PointCloud, WireTable[form].PointCloud)
  <2>1. CloudTypes(form).PointCloud = <<Of("Header"), List("Point32"), List("ChannelFloat32")>>
    BY DEF CloudTypes
  <2>2. WireTable[form].PointCloud = Wire(8, 0, <<"Header">>)
    <3>1. SensorWire(form).PointCloud = Wire(2 * 4, 0, <<"Header">>)
      BY DEF SensorWire
    <3>2. WireTable[form].PointCloud = SensorWire(form).PointCloud
      BY RowsAreIn DEF RowNames
    <3> QED BY ONLY <3>1, <3>2
  <2>3. Piece(form, m, <<Of("Header"), List("Point32"), List("ChannelFloat32")>>, m["Header"] + 4
          + 4, {u \in Types : Of(u) \in {Of("Header"), List("Point32"), List("ChannelFloat32")}})
    BY ONLY <1>Header, <1>Point32, <1>ChannelFloat32, m \in Tables, PieceOf3
  <2>4. NestedMinimum(<<"Header">>, m) = m["Header"] /\ ToSet(<<"Header">>) = {"Header"}
    BY <1>Header, NestedSizes, TupleSets
  <2>5. RowIs(form, m, Wire(8, 0, <<"Header">>), 8 + NestedMinimum(<<"Header">>, m),
          ToSet(<<"Header">>))
    BY <1>Header, <2>4, RowsOfNested
  <2>6. m["Header"] + 4 + 4 = 8 + NestedMinimum(<<"Header">>, m)
    BY <1>Header, <2>4
  <2>7. /\ ToSet(<<"Header">>) \subseteq {u \in Types : Of(u) \in {Of("Header"), List("Point32"),
          List("ChannelFloat32")}}
        /\ ToSet(<<"Header">>) \subseteq Nestable
    BY <1>Header, <2>4
  <2> QED BY ONLY <2>1, <2>2, <2>3, <2>5, <2>6, <2>7, MatchesIf
<1>5. Matches(form, m, CloudTypes(form).PointField, WireTable[form].PointField)
  <2>1. CloudTypes(form).PointField = <<Str, N4, N1, N4>>
    BY DEF CloudTypes
  <2>2. WireTable[form].PointField = Wire(9, 1, <<>>)
    <3>1. SensorWire(form).PointField = Wire(2 * 4 + 1, 1, <<>>)
      BY DEF SensorWire
    <3>2. WireTable[form].PointField = SensorWire(form).PointField
      BY RowsAreIn DEF RowNames
    <3> QED BY ONLY <3>1, <3>2
  <2>3. Piece(form, m, <<Str, N4, N1, N4>>, TextMinimum(form) + 4 + 1 + 4,
          {u \in Types : Of(u) \in {Str, N4, N1, N4}})
    BY ONLY <1>Str, <1>N4, <1>N1, m \in Tables, PieceOf4
  <2>4. NestedMinimum(<<>>, m) = 0 /\ ToSet(<<>>) = {}
    BY NestedSizes, TupleSets
  <2>5. RowIs(form, m, Wire(9, 1, <<>>), 9 + TextMinimum(form) + NestedMinimum(<<>>, m), ToSet(<<>>))
    BY <2>4, RowsOfNested
  <2>6. TextMinimum(form) + 4 + 1 + 4 = 9 + TextMinimum(form) + NestedMinimum(<<>>, m)
    BY <1>Str, <2>4
  <2>7. /\ ToSet(<<>>) \subseteq {u \in Types : Of(u) \in {Str, N4, N1, N4}}
        /\ ToSet(<<>>) \subseteq Nestable
    BY <2>4
  <2> QED BY ONLY <2>1, <2>2, <2>3, <2>5, <2>6, <2>7, MatchesIf
<1> QED BY TypesOfTables, <1>1, <1>2, <1>3, <1>4, <1>5 DEF TypeNames

LEMMA AmbientTypesMatch ==
  ASSUME NEW form \in Formats, NEW m \in Tables
  PROVE  \A t \in DOMAIN AmbientTypes(form) : Matches(form, m, AmbientTypes(form)[t], WireTable[form][t])
<1>Blob. Sized(form, m, Blob, 4)
  BY FieldsSized
<1>N1. Sized(form, m, N1, 1)
  BY FieldsSized
<1>N4. Sized(form, m, N4, 4)
  BY FieldsSized
<1>N8. Sized(form, m, N8, 8)
  BY FieldsSized
<1>Str. Sized(form, m, Str, TextMinimum(form)) /\ TextMinimum(form) \in Nat
  BY FieldsSized DEF Sized
<1>0. {"Header", "PointField", "Time"} \subseteq Nestable /\ Nestable \subseteq Types
  BY NestableTypes DEF Nestable, Types
<1>Header. /\ Sized(form, m, Of("Header"), m["Header"])
      /\ Sized(form, m, List("Header"), 4)
      /\ m["Header"] \in Nat /\ "Header" \in Types /\ "Header" \in Nestable
  BY <1>0, FieldsSized DEF Sized
<1>PointField. /\ Sized(form, m, Of("PointField"), m["PointField"])
      /\ Sized(form, m, List("PointField"), 4)
      /\ m["PointField"] \in Nat /\ "PointField" \in Types /\ "PointField" \in Nestable
  BY <1>0, FieldsSized DEF Sized
<1>Time. /\ Sized(form, m, Of("Time"), m["Time"])
      /\ Sized(form, m, List("Time"), 4)
      /\ m["Time"] \in Nat /\ "Time" \in Types /\ "Time" \in Nestable
  BY <1>0, FieldsSized DEF Sized
<1>1. Matches(form, m, AmbientTypes(form).PointCloud2, WireTable[form].PointCloud2)
  <2>1. AmbientTypes(form).PointCloud2 = <<Of("Header"), N4, N4, List("PointField"), N1>> \o <<N4,
          N4, Blob, N1>>
    BY DEF AmbientTypes
  <2>2. WireTable[form].PointCloud2 = Wire(26, 0, <<"Header">>)
    <3>1. SensorWire(form).PointCloud2 = Wire(6 * 4 + 2 * 1, 0, <<"Header">>)
      BY DEF SensorWire
    <3>2. WireTable[form].PointCloud2 = SensorWire(form).PointCloud2
      BY RowsAreIn DEF RowNames
    <3> QED BY ONLY <3>1, <3>2
  <2>3. Piece(form, m, <<Of("Header"), N4, N4, List("PointField"), N1>>, m["Header"] + 4 + 4 + 4
          + 1, {u \in Types : Of(u) \in {Of("Header"), N4, N4, List("PointField"), N1}})
    BY ONLY <1>Header, <1>N4, <1>PointField, <1>N1, m \in Tables, PieceOf5
  <2>4. Piece(form, m, <<N4, N4, Blob, N1>>, 4 + 4 + 4 + 1, {u \in Types : Of(u) \in {N4, N4, Blob,
          N1}})
    BY ONLY <1>N4, <1>Blob, <1>N1, m \in Tables, PieceOf4
  <2>5. Piece(form, m, <<Of("Header"), N4, N4, List("PointField"), N1>> \o <<N4, N4, Blob, N1>>,
          ((m["Header"] + 4 + 4 + 4 + 1) + (4 + 4 + 4 + 1)),
                ({u \in Types : Of(u) \in {Of("Header"), N4, N4, List("PointField"),
                      N1}} \cup {u \in Types : Of(u) \in {N4, N4, Blob, N1}}))
    BY ONLY <2>3, <2>4, m \in Tables, PieceJoin
  <2>6. NestedMinimum(<<"Header">>, m) = m["Header"] /\ ToSet(<<"Header">>) = {"Header"}
    BY <1>Header, NestedSizes, TupleSets
  <2>7. RowIs(form, m, Wire(26, 0, <<"Header">>), 26 + NestedMinimum(<<"Header">>, m),
          ToSet(<<"Header">>))
    BY <1>Header, <2>6, RowsOfNested
  <2>8. ((m["Header"] + 4 + 4 + 4 + 1) + (4 + 4 + 4 + 1)) = 26 + NestedMinimum(<<"Header">>, m)
    BY <1>Header, <2>6
  <2>9. /\ ToSet(<<"Header">>) \subseteq ({u \in Types : Of(u) \in {Of("Header"), N4, N4,
          List("PointField"), N1}} \cup {u \in Types : Of(u) \in {N4, N4, Blob, N1}})
        /\ ToSet(<<"Header">>) \subseteq Nestable
    BY <1>Header, <2>6
  <2> QED BY ONLY <2>1, <2>2, <2>5, <2>7, <2>8, <2>9, MatchesIf
<1>2. Matches(form, m, AmbientTypes(form).Range, WireTable[form].Range)
  <2> DEFINE x == IF form = "cdr" THEN 4 ELSE 0
  <2>1. AmbientTypes(form).Range = <<Of("Header"), N1>> \o Row(4, N4) \o OnlyIf(form = "cdr", <<N4>>)
    BY DEF AmbientTypes
  <2>2. WireTable[form].Range = Wire(17 + x, 0, <<"Header">>)
    BY RowsAreIn DEF RowNames, SensorWire, Formats
  <2>3. Piece(form, m, OnlyIf(form = "cdr", <<N4>>), x, {}) /\ x \in Nat
    <3>1. Piece(form, m, <<N4>>, 4, {u \in Types : Of(u) \in {N4}}) /\ Piece(form, m, <<>>, 0, {})
      BY <1>N4, PieceOf1, PieceOfNone
    <3> QED BY <3>1 DEF OnlyIf, Piece
  <2> HIDE DEF x
  <2>4. Piece(form, m, <<Of("Header"), N1>>, m["Header"] + 1,
          {u \in Types : Of(u) \in {Of("Header"), N1}})
    BY ONLY <1>Header, <1>N1, m \in Tables, PieceOf2
  <2>5. Piece(form, m, Row(4, N4), 16, {})
    BY <1>N4, PieceOfRow
  <2>6. Piece(form, m, <<Of("Header"), N1>> \o Row(4, N4), ((m["Header"] + 1) + (16)),
          ({u \in Types : Of(u) \in {Of("Header"), N1}} \cup {}))
    BY ONLY <2>4, <2>5, m \in Tables, PieceJoin
  <2>7. Piece(form, m, <<Of("Header"), N1>> \o Row(4, N4) \o OnlyIf(form = "cdr", <<N4>>),
          (((m["Header"] + 1) + (16)) + (x)), (({u \in Types : Of(u) \in {Of("Header"),
                N1}} \cup {}) \cup {}))
    BY ONLY <2>6, <2>3, m \in Tables, PieceJoin
  <2>8. NestedMinimum(<<"Header">>, m) = m["Header"] /\ ToSet(<<"Header">>) = {"Header"}
    BY <1>Header, NestedSizes, TupleSets
  <2>9. RowIs(form, m, Wire(17 + x, 0, <<"Header">>), 17 + x + NestedMinimum(<<"Header">>, m),
          ToSet(<<"Header">>))
    BY <1>Header, <2>3, <2>8, RowsOfNested
  <2>10. (((m["Header"] + 1) + (16)) + (x)) = 17 + x + NestedMinimum(<<"Header">>, m)
    BY <1>Header, <2>3, <2>8
  <2>11. /\ ToSet(<<"Header">>) \subseteq (({u \in Types : Of(u) \in {Of("Header"),
           N1}} \cup {}) \cup {})
        /\ ToSet(<<"Header">>) \subseteq Nestable
    BY <1>Header, <2>8
  <2> QED BY ONLY <2>1, <2>2, <2>7, <2>9, <2>10, <2>11, MatchesIf
<1>3. Matches(form, m, AmbientTypes(form).RelativeHumidity, WireTable[form].RelativeHumidity)
  <2>1. AmbientTypes(form).RelativeHumidity = <<Of("Header"), N8, N8>>
    BY DEF AmbientTypes
  <2>2. WireTable[form].RelativeHumidity = Wire(16, 0, <<"Header">>)
    <3>1. SensorWire(form).RelativeHumidity = Wire(2 * 8, 0, <<"Header">>)
      BY DEF SensorWire
    <3>2. WireTable[form].RelativeHumidity = SensorWire(form).RelativeHumidity
      BY RowsAreIn DEF RowNames
    <3> QED BY ONLY <3>1, <3>2
  <2>3. Piece(form, m, <<Of("Header"), N8, N8>>, m["Header"] + 8 + 8,
          {u \in Types : Of(u) \in {Of("Header"), N8, N8}})
    BY ONLY <1>Header, <1>N8, m \in Tables, PieceOf3
  <2>4. NestedMinimum(<<"Header">>, m) = m["Header"] /\ ToSet(<<"Header">>) = {"Header"}
    BY <1>Header, NestedSizes, TupleSets
  <2>5. RowIs(form, m, Wire(16, 0, <<"Header">>), 16 + NestedMinimum(<<"Header">>, m),
          ToSet(<<"Header">>))
    BY <1>Header, <2>4, RowsOfNested
  <2>6. m["Header"] + 8 + 8 = 16 + NestedMinimum(<<"Header">>, m)
    BY <1>Header, <2>4
  <2>7. /\ ToSet(<<"Header">>) \subseteq {u \in Types : Of(u) \in {Of("Header"), N8, N8}}
        /\ ToSet(<<"Header">>) \subseteq Nestable
    BY <1>Header, <2>4
  <2> QED BY ONLY <2>1, <2>2, <2>3, <2>5, <2>6, <2>7, MatchesIf
<1>4. Matches(form, m, AmbientTypes(form).Temperature, WireTable[form].Temperature)
  <2>1. AmbientTypes(form).Temperature = <<Of("Header"), N8, N8>>
    BY DEF AmbientTypes
  <2>2. WireTable[form].Temperature = Wire(16, 0, <<"Header">>)
    <3>1. SensorWire(form).Temperature = Wire(2 * 8, 0, <<"Header">>)
      BY DEF SensorWire
    <3>2. WireTable[form].Temperature = SensorWire(form).Temperature
      BY RowsAreIn DEF RowNames
    <3> QED BY ONLY <3>1, <3>2
  <2>3. Piece(form, m, <<Of("Header"), N8, N8>>, m["Header"] + 8 + 8,
          {u \in Types : Of(u) \in {Of("Header"), N8, N8}})
    BY ONLY <1>Header, <1>N8, m \in Tables, PieceOf3
  <2>4. NestedMinimum(<<"Header">>, m) = m["Header"] /\ ToSet(<<"Header">>) = {"Header"}
    BY <1>Header, NestedSizes, TupleSets
  <2>5. RowIs(form, m, Wire(16, 0, <<"Header">>), 16 + NestedMinimum(<<"Header">>, m),
          ToSet(<<"Header">>))
    BY <1>Header, <2>4, RowsOfNested
  <2>6. m["Header"] + 8 + 8 = 16 + NestedMinimum(<<"Header">>, m)
    BY <1>Header, <2>4
  <2>7. /\ ToSet(<<"Header">>) \subseteq {u \in Types : Of(u) \in {Of("Header"), N8, N8}}
        /\ ToSet(<<"Header">>) \subseteq Nestable
    BY <1>Header, <2>4
  <2> QED BY ONLY <2>1, <2>2, <2>3, <2>5, <2>6, <2>7, MatchesIf
<1>5. Matches(form, m, AmbientTypes(form).TimeReference, WireTable[form].TimeReference)
  <2>1. AmbientTypes(form).TimeReference = <<Of("Header"), Of("Time"), Str>>
    BY DEF AmbientTypes
  <2>2. WireTable[form].TimeReference = Wire(0, 1, <<"Header", "Time">>)
    <3>1. SensorWire(form).TimeReference = Wire(0, 1, <<"Header", "Time">>)
      BY DEF SensorWire
    <3>2. WireTable[form].TimeReference = SensorWire(form).TimeReference
      BY RowsAreIn DEF RowNames
    <3> QED BY ONLY <3>1, <3>2
  <2>3. Piece(form, m, <<Of("Header"), Of("Time"), Str>>, m["Header"] + m["Time"]
          + TextMinimum(form), {u \in Types : Of(u) \in {Of("Header"), Of("Time"), Str}})
    BY ONLY <1>Header, <1>Time, <1>Str, m \in Tables, PieceOf3
  <2>4. NestedMinimum(<<"Header", "Time">>, m) = m["Header"] + m["Time"] /\ ToSet(<<"Header",
          "Time">>) = {"Header", "Time"}
    BY <1>Header, <1>Time, NestedSizes, TupleSets
  <2>5. RowIs(form, m, Wire(0, 1, <<"Header", "Time">>), 0 + TextMinimum(form)
          + NestedMinimum(<<"Header", "Time">>, m), ToSet(<<"Header", "Time">>))
    BY <1>Header, <1>Time, <2>4, RowsOfNested
  <2>6. m["Header"] + m["Time"] + TextMinimum(form) = 0 + TextMinimum(form)
          + NestedMinimum(<<"Header", "Time">>, m)
    BY <1>Header, <1>Str, <1>Time, <2>4
  <2>7. /\ ToSet(<<"Header", "Time">>) \subseteq {u \in Types : Of(u) \in {Of("Header"),
          Of("Time"), Str}}
        /\ ToSet(<<"Header", "Time">>) \subseteq Nestable
    BY <1>Header, <1>Time, <2>4
  <2> QED BY ONLY <2>1, <2>2, <2>3, <2>5, <2>6, <2>7, MatchesIf
<1> QED BY TypesOfTables, <1>1, <1>2, <1>3, <1>4, <1>5 DEF TypeNames

LEMMA ScalarTypesMatch ==
  ASSUME NEW form \in Formats, NEW m \in Tables
  PROVE  \A t \in DOMAIN ScalarTypes(form) : Matches(form, m, ScalarTypes(form)[t], WireTable[form][t])
<1>N1. Sized(form, m, N1, 1)
  BY FieldsSized
<1>N4. Sized(form, m, N4, 4)
  BY FieldsSized
<1>Str. Sized(form, m, Str, TextMinimum(form)) /\ TextMinimum(form) \in Nat
  BY FieldsSized DEF Sized
<1>0. {"Duration", "MultiArrayDimension"} \subseteq Nestable /\ Nestable \subseteq Types
  BY NestableTypes DEF Nestable, Types
<1>Duration. /\ Sized(form, m, Of("Duration"), m["Duration"])
      /\ Sized(form, m, List("Duration"), 4)
      /\ m["Duration"] \in Nat /\ "Duration" \in Types /\ "Duration" \in Nestable
  BY <1>0, FieldsSized DEF Sized
<1>MultiArrayDimension. /\ Sized(form, m, Of("MultiArrayDimension"), m["MultiArrayDimension"])
      /\ Sized(form, m, List("MultiArrayDimension"), 4)
      /\ m["MultiArrayDimension"] \in Nat /\ "MultiArrayDimension" \in Types /\ "MultiArrayDimension" \in Nestable
  BY <1>0, FieldsSized DEF Sized
<1>1. Matches(form, m, ScalarTypes(form).Bool, WireTable[form].Bool)
  <2>1. ScalarTypes(form).Bool = <<N1>>
    BY DEF ScalarTypes
  <2>2. WireTable[form].Bool = Wire(1, 0, <<>>)
    BY RowsAreIn DEF NumberWire
  <2> QED BY <2>1, <2>2, <1>N1, NumberMatches
<1>2. Matches(form, m, ScalarTypes(form).Byte, WireTable[form].Byte)
  <2>1. ScalarTypes(form).Byte = <<N1>>
    BY DEF ScalarTypes
  <2>2. WireTable[form].Byte = Wire(1, 0, <<>>)
    BY RowsAreIn DEF NumberWire
  <2> QED BY <2>1, <2>2, <1>N1, NumberMatches
<1>3. Matches(form, m, ScalarTypes(form).MultiArrayDimension, WireTable[form].MultiArrayDimension)
  <2>1. ScalarTypes(form).MultiArrayDimension = <<Str, N4, N4>>
    BY DEF ScalarTypes
  <2>2. WireTable[form].MultiArrayDimension = Wire(8, 1, <<>>)
    <3>1. OtherWire.MultiArrayDimension = Wire(2 * 4, 1, <<>>)
      BY DEF OtherWire
    <3>2. WireTable[form].MultiArrayDimension = OtherWire.MultiArrayDimension
      BY RowsAreIn DEF RowNames
    <3> QED BY ONLY <3>1, <3>2
  <2>3. Piece(form, m, <<Str, N4, N4>>, TextMinimum(form) + 4 + 4, {u \in Types : Of(u) \in {Str, N4,
          N4}})
    BY ONLY <1>Str, <1>N4, m \in Tables, PieceOf3
  <2>4. NestedMinimum(<<>>, m) = 0 /\ ToSet(<<>>) = {}
    BY NestedSizes, TupleSets
  <2>5. RowIs(form, m, Wire(8, 1, <<>>), 8 + TextMinimum(form) + NestedMinimum(<<>>, m), ToSet(<<>>))
    BY <2>4, RowsOfNested
  <2>6. TextMinimum(form) + 4 + 4 = 8 + TextMinimum(form) + NestedMinimum(<<>>, m)
    BY <1>Str, <2>4
  <2>7. /\ ToSet(<<>>) \subseteq {u \in Types : Of(u) \in {Str, N4, N4}}
        /\ ToSet(<<>>) \subseteq Nestable
    BY <2>4
  <2> QED BY ONLY <2>1, <2>2, <2>3, <2>5, <2>6, <2>7, MatchesIf
<1>4. Matches(form, m, ScalarTypes(form).MultiArrayLayout, WireTable[form].MultiArrayLayout)
  <2>1. ScalarTypes(form).MultiArrayLayout = <<List("MultiArrayDimension"), N4>>
    BY DEF ScalarTypes
  <2>2. WireTable[form].MultiArrayLayout = Wire(8, 0, <<>>)
    <3>1. OtherWire.MultiArrayLayout = Wire(2 * 4, 0, <<>>)
      BY DEF OtherWire
    <3>2. WireTable[form].MultiArrayLayout = OtherWire.MultiArrayLayout
      BY RowsAreIn DEF RowNames
    <3> QED BY ONLY <3>1, <3>2
  <2>3. Piece(form, m, <<List("MultiArrayDimension"), N4>>, 4 + 4,
          {u \in Types : Of(u) \in {List("MultiArrayDimension"), N4}})
    BY ONLY <1>MultiArrayDimension, <1>N4, m \in Tables, PieceOf2
  <2>4. NestedMinimum(<<>>, m) = 0 /\ ToSet(<<>>) = {}
    BY NestedSizes, TupleSets
  <2>5. RowIs(form, m, Wire(8, 0, <<>>), 8 + NestedMinimum(<<>>, m), ToSet(<<>>))
    BY <2>4, RowsOfNested
  <2>6. 4 + 4 = 8 + NestedMinimum(<<>>, m)
    BY <2>4
  <2>7. /\ ToSet(<<>>) \subseteq {u \in Types : Of(u) \in {List("MultiArrayDimension"), N4}}
        /\ ToSet(<<>>) \subseteq Nestable
    BY <2>4
  <2> QED BY ONLY <2>1, <2>2, <2>3, <2>5, <2>6, <2>7, MatchesIf
<1>5. Matches(form, m, ScalarTypes(form).ByteMultiArray, WireTable[form].ByteMultiArray)
  <2>1. ScalarTypes(form).ByteMultiArray = Laid(Wide)
    BY DEF ScalarTypes
  <2>2. WireTable[form].ByteMultiArray = Wire(4, 0, <<"MultiArrayLayout">>)
    BY RowsAreIn DEF ArrayWire
  <2> QED BY <2>1, <2>2, ElementsAre, LaidMatches
<1>6. Matches(form, m, ScalarTypes(form).Char, WireTable[form].Char)
  <2>1. ScalarTypes(form).Char = <<N1>>
    BY DEF ScalarTypes
  <2>2. WireTable[form].Char = Wire(1, 0, <<>>)
    BY RowsAreIn DEF NumberWire
  <2> QED BY <2>1, <2>2, <1>N1, NumberMatches
<1>7. Matches(form, m, ScalarTypes(form).ColorRGBA, WireTable[form].ColorRGBA)
  <2>1. ScalarTypes(form).ColorRGBA = Row(4, N4)
    BY DEF ScalarTypes
  <2>2. WireTable[form].ColorRGBA = Wire(16, 0, <<>>)
    <3>1. OtherWire.ColorRGBA = Wire(4 * 4, 0, <<>>)
      BY DEF OtherWire
    <3>2. WireTable[form].ColorRGBA = OtherWire.ColorRGBA
      BY RowsAreIn DEF RowNames
    <3> QED BY ONLY <3>1, <3>2
  <2>3. Piece(form, m, Row(4, N4), 16, {})
    BY <1>N4, PieceOfRow
  <2>4. NestedMinimum(<<>>, m) = 0 /\ ToSet(<<>>) = {}
    BY NestedSizes, TupleSets
  <2>5. RowIs(form, m, Wire(16, 0, <<>>), 16 + NestedMinimum(<<>>, m), ToSet(<<>>))
    BY <2>4, RowsOfNested
  <2>6. 16 = 16 + NestedMinimum(<<>>, m)
    BY <2>4
  <2>7. /\ ToSet(<<>>) \subseteq {}
        /\ ToSet(<<>>) \subseteq Nestable
    BY <2>4
  <2> QED BY ONLY <2>1, <2>2, <2>3, <2>5, <2>6, <2>7, MatchesIf
<1>8. Matches(form, m, ScalarTypes(form).std_Duration, WireTable[form].std_Duration)
  <2>1. ScalarTypes(form).std_Duration = <<Of("Duration")>>
    BY DEF ScalarTypes
  <2>2. WireTable[form].std_Duration = Wire(0, 0, <<"Duration">>)
    <3>1. OtherWire.std_Duration = Wire(0, 0, <<"Duration">>)
      BY DEF OtherWire
    <3>2. WireTable[form].std_Duration = OtherWire.std_Duration
      BY RowsAreIn DEF RowNames
    <3> QED BY ONLY <3>1, <3>2
  <2>3. Piece(form, m, <<Of("Duration")>>, m["Duration"],
          {u \in Types : Of(u) \in {Of("Duration")}})
    BY <1>Duration, PieceOf1
  <2>4. NestedMinimum(<<"Duration">>, m) = m["Duration"] /\ ToSet(<<"Duration">>) = {"Duration"}
    BY <1>Duration, NestedSizes, TupleSets
  <2>5. RowIs(form, m, Wire(0, 0, <<"Duration">>), 0 + NestedMinimum(<<"Duration">>, m),
          ToSet(<<"Duration">>))
    BY <1>Duration, <2>4, RowsOfNested
  <2>6. m["Duration"] = 0 + NestedMinimum(<<"Duration">>, m)
    BY <1>Duration, <2>4
  <2>7. /\ ToSet(<<"Duration">>) \subseteq {u \in Types : Of(u) \in {Of("Duration")}}
        /\ ToSet(<<"Duration">>) \subseteq Nestable
    BY <1>Duration, <2>4
  <2> QED BY ONLY <2>1, <2>2, <2>3, <2>5, <2>6, <2>7, MatchesIf
<1>9. Matches(form, m, ScalarTypes(form).Empty, WireTable[form].Empty)
  <2>1. ScalarTypes(form).Empty = <<>>
    BY DEF ScalarTypes
  <2>2. WireTable[form].Empty = Wire(0, 0, <<>>)
    <3>1. OtherWire.Empty = Wire(0, 0, <<>>)
      BY DEF OtherWire
    <3>2. WireTable[form].Empty = OtherWire.Empty
      BY RowsAreIn DEF RowNames
    <3> QED BY ONLY <3>1, <3>2
  <2>3. Piece(form, m, <<>>, 0, {})
    BY PieceOfNone
  <2>4. NestedMinimum(<<>>, m) = 0 /\ ToSet(<<>>) = {}
    BY NestedSizes, TupleSets
  <2>5. RowIs(form, m, Wire(0, 0, <<>>), 0 + NestedMinimum(<<>>, m), ToSet(<<>>))
    BY <2>4, RowsOfNested
  <2>6. 0 = 0 + NestedMinimum(<<>>, m)
    BY <2>4
  <2>7. /\ ToSet(<<>>) \subseteq {}
        /\ ToSet(<<>>) \subseteq Nestable
    BY <2>4
  <2> QED BY ONLY <2>1, <2>2, <2>3, <2>5, <2>6, <2>7, MatchesIf
<1>10. Matches(form, m, ScalarTypes(form).Float32, WireTable[form].Float32)
  <2>1. ScalarTypes(form).Float32 = <<N4>>
    BY DEF ScalarTypes
  <2>2. WireTable[form].Float32 = Wire(4, 0, <<>>)
    BY RowsAreIn DEF NumberWire
  <2> QED BY <2>1, <2>2, <1>N4, NumberMatches
<1> QED BY TypesOfTables, <1>1, <1>2, <1>3, <1>4, <1>5, <1>6, <1>7, <1>8, <1>9,
      <1>10 DEF TypeNames

LEMMA ArrayTypesMatch ==
  ASSUME NEW form \in Formats, NEW m \in Tables
  PROVE  \A t \in DOMAIN ArrayTypes(form) : Matches(form, m, ArrayTypes(form)[t], WireTable[form][t])
<1>N1. Sized(form, m, N1, 1)
  BY FieldsSized
<1>N2. Sized(form, m, N2, 2)
  BY FieldsSized
<1>N4. Sized(form, m, N4, 4)
  BY FieldsSized
<1>N8. Sized(form, m, N8, 8)
  BY FieldsSized
<1>1. Matches(form, m, ArrayTypes(form).Float32MultiArray, WireTable[form].Float32MultiArray)
  <2>1. ArrayTypes(form).Float32MultiArray = Laid(Number(4))
    BY DEF ArrayTypes
  <2>2. WireTable[form].Float32MultiArray = Wire(4, 0, <<"MultiArrayLayout">>)
    BY RowsAreIn DEF ArrayWire
  <2> QED BY <2>1, <2>2, ElementsAre, LaidMatches
<1>2. Matches(form, m, ArrayTypes(form).Float64, WireTable[form].Float64)
  <2>1. ArrayTypes(form).Float64 = <<N8>>
    BY DEF ArrayTypes
  <2>2. WireTable[form].Float64 = Wire(8, 0, <<>>)
    BY RowsAreIn DEF NumberWire
  <2> QED BY <2>1, <2>2, <1>N8, NumberMatches
<1>3. Matches(form, m, ArrayTypes(form).Float64MultiArray, WireTable[form].Float64MultiArray)
  <2>1. ArrayTypes(form).Float64MultiArray = Laid(Number(8))
    BY DEF ArrayTypes
  <2>2. WireTable[form].Float64MultiArray = Wire(4, 0, <<"MultiArrayLayout">>)
    BY RowsAreIn DEF ArrayWire
  <2> QED BY <2>1, <2>2, ElementsAre, LaidMatches
<1>4. Matches(form, m, ArrayTypes(form).Int16, WireTable[form].Int16)
  <2>1. ArrayTypes(form).Int16 = <<N2>>
    BY DEF ArrayTypes
  <2>2. WireTable[form].Int16 = Wire(2, 0, <<>>)
    BY RowsAreIn DEF NumberWire
  <2> QED BY <2>1, <2>2, <1>N2, NumberMatches
<1>5. Matches(form, m, ArrayTypes(form).Int16MultiArray, WireTable[form].Int16MultiArray)
  <2>1. ArrayTypes(form).Int16MultiArray = Laid(Number(2))
    BY DEF ArrayTypes
  <2>2. WireTable[form].Int16MultiArray = Wire(4, 0, <<"MultiArrayLayout">>)
    BY RowsAreIn DEF ArrayWire
  <2> QED BY <2>1, <2>2, ElementsAre, LaidMatches
<1>6. Matches(form, m, ArrayTypes(form).Int32, WireTable[form].Int32)
  <2>1. ArrayTypes(form).Int32 = <<N4>>
    BY DEF ArrayTypes
  <2>2. WireTable[form].Int32 = Wire(4, 0, <<>>)
    BY RowsAreIn DEF NumberWire
  <2> QED BY <2>1, <2>2, <1>N4, NumberMatches
<1>7. Matches(form, m, ArrayTypes(form).Int32MultiArray, WireTable[form].Int32MultiArray)
  <2>1. ArrayTypes(form).Int32MultiArray = Laid(Number(4))
    BY DEF ArrayTypes
  <2>2. WireTable[form].Int32MultiArray = Wire(4, 0, <<"MultiArrayLayout">>)
    BY RowsAreIn DEF ArrayWire
  <2> QED BY <2>1, <2>2, ElementsAre, LaidMatches
<1>8. Matches(form, m, ArrayTypes(form).Int64, WireTable[form].Int64)
  <2>1. ArrayTypes(form).Int64 = <<N8>>
    BY DEF ArrayTypes
  <2>2. WireTable[form].Int64 = Wire(8, 0, <<>>)
    BY RowsAreIn DEF NumberWire
  <2> QED BY <2>1, <2>2, <1>N8, NumberMatches
<1>9. Matches(form, m, ArrayTypes(form).Int64MultiArray, WireTable[form].Int64MultiArray)
  <2>1. ArrayTypes(form).Int64MultiArray = Laid(Number(8))
    BY DEF ArrayTypes
  <2>2. WireTable[form].Int64MultiArray = Wire(4, 0, <<"MultiArrayLayout">>)
    BY RowsAreIn DEF ArrayWire
  <2> QED BY <2>1, <2>2, ElementsAre, LaidMatches
<1>10. Matches(form, m, ArrayTypes(form).Int8, WireTable[form].Int8)
  <2>1. ArrayTypes(form).Int8 = <<N1>>
    BY DEF ArrayTypes
  <2>2. WireTable[form].Int8 = Wire(1, 0, <<>>)
    BY RowsAreIn DEF NumberWire
  <2> QED BY <2>1, <2>2, <1>N1, NumberMatches
<1> QED BY TypesOfTables, <1>1, <1>2, <1>3, <1>4, <1>5, <1>6, <1>7, <1>8, <1>9,
      <1>10 DEF TypeNames

LEMMA IntegerTypesMatch ==
  ASSUME NEW form \in Formats, NEW m \in Tables
  PROVE  \A t \in DOMAIN IntegerTypes(form) : Matches(form, m, IntegerTypes(form)[t], WireTable[form][t])
<1>Blob. Sized(form, m, Blob, 4)
  BY FieldsSized
<1>N1. Sized(form, m, N1, 1)
  BY FieldsSized
<1>N2. Sized(form, m, N2, 2)
  BY FieldsSized
<1>N4. Sized(form, m, N4, 4)
  BY FieldsSized
<1>N8. Sized(form, m, N8, 8)
  BY FieldsSized
<1>Str. Sized(form, m, Str, TextMinimum(form)) /\ TextMinimum(form) \in Nat
  BY FieldsSized DEF Sized
<1>0. {"MultiArrayLayout", "Time"} \subseteq Nestable /\ Nestable \subseteq Types
  BY NestableTypes DEF Nestable, Types
<1>MultiArrayLayout. /\ Sized(form, m, Of("MultiArrayLayout"), m["MultiArrayLayout"])
      /\ Sized(form, m, List("MultiArrayLayout"), 4)
      /\ m["MultiArrayLayout"] \in Nat /\ "MultiArrayLayout" \in Types /\ "MultiArrayLayout" \in Nestable
  BY <1>0, FieldsSized DEF Sized
<1>Time. /\ Sized(form, m, Of("Time"), m["Time"])
      /\ Sized(form, m, List("Time"), 4)
      /\ m["Time"] \in Nat /\ "Time" \in Types /\ "Time" \in Nestable
  BY <1>0, FieldsSized DEF Sized
<1>1. Matches(form, m, IntegerTypes(form).Int8MultiArray, WireTable[form].Int8MultiArray)
  <2>1. IntegerTypes(form).Int8MultiArray = Laid(Small)
    BY DEF IntegerTypes
  <2>2. WireTable[form].Int8MultiArray = Wire(4, 0, <<"MultiArrayLayout">>)
    BY RowsAreIn DEF ArrayWire
  <2> QED BY <2>1, <2>2, ElementsAre, LaidMatches
<1>2. Matches(form, m, IntegerTypes(form).String, WireTable[form].String)
  <2>1. IntegerTypes(form).String = <<Str>>
    BY DEF IntegerTypes
  <2>2. WireTable[form].String = Wire(0, 1, <<>>)
    <3>1. OtherWire.String = Wire(0, 1, <<>>)
      BY DEF OtherWire
    <3>2. WireTable[form].String = OtherWire.String
      BY RowsAreIn DEF RowNames
    <3> QED BY ONLY <3>1, <3>2
  <2>3. Piece(form, m, <<Str>>, TextMinimum(form), {u \in Types : Of(u) \in {Str}})
    BY <1>Str, PieceOf1
  <2>4. NestedMinimum(<<>>, m) = 0 /\ ToSet(<<>>) = {}
    BY NestedSizes, TupleSets
  <2>5. RowIs(form, m, Wire(0, 1, <<>>), 0 + TextMinimum(form) + NestedMinimum(<<>>, m), ToSet(<<>>))
    BY <2>4, RowsOfNested
  <2>6. TextMinimum(form) = 0 + TextMinimum(form) + NestedMinimum(<<>>, m)
    BY <1>Str, <2>4
  <2>7. /\ ToSet(<<>>) \subseteq {u \in Types : Of(u) \in {Str}}
        /\ ToSet(<<>>) \subseteq Nestable
    BY <2>4
  <2> QED BY ONLY <2>1, <2>2, <2>3, <2>5, <2>6, <2>7, MatchesIf
<1>3. Matches(form, m, IntegerTypes(form).std_Time, WireTable[form].std_Time)
  <2>1. IntegerTypes(form).std_Time = <<Of("Time")>>
    BY DEF IntegerTypes
  <2>2. WireTable[form].std_Time = Wire(0, 0, <<"Time">>)
    <3>1. OtherWire.std_Time = Wire(0, 0, <<"Time">>)
      BY DEF OtherWire
    <3>2. WireTable[form].std_Time = OtherWire.std_Time
      BY RowsAreIn DEF RowNames
    <3> QED BY ONLY <3>1, <3>2
  <2>3. Piece(form, m, <<Of("Time")>>, m["Time"], {u \in Types : Of(u) \in {Of("Time")}})
    BY <1>Time, PieceOf1
  <2>4. NestedMinimum(<<"Time">>, m) = m["Time"] /\ ToSet(<<"Time">>) = {"Time"}
    BY <1>Time, NestedSizes, TupleSets
  <2>5. RowIs(form, m, Wire(0, 0, <<"Time">>), 0 + NestedMinimum(<<"Time">>, m), ToSet(<<"Time">>))
    BY <1>Time, <2>4, RowsOfNested
  <2>6. m["Time"] = 0 + NestedMinimum(<<"Time">>, m)
    BY <1>Time, <2>4
  <2>7. /\ ToSet(<<"Time">>) \subseteq {u \in Types : Of(u) \in {Of("Time")}}
        /\ ToSet(<<"Time">>) \subseteq Nestable
    BY <1>Time, <2>4
  <2> QED BY ONLY <2>1, <2>2, <2>3, <2>5, <2>6, <2>7, MatchesIf
<1>4. Matches(form, m, IntegerTypes(form).UInt16, WireTable[form].UInt16)
  <2>1. IntegerTypes(form).UInt16 = <<N2>>
    BY DEF IntegerTypes
  <2>2. WireTable[form].UInt16 = Wire(2, 0, <<>>)
    BY RowsAreIn DEF NumberWire
  <2> QED BY <2>1, <2>2, <1>N2, NumberMatches
<1>5. Matches(form, m, IntegerTypes(form).UInt16MultiArray, WireTable[form].UInt16MultiArray)
  <2>1. IntegerTypes(form).UInt16MultiArray = Laid(Number(2))
    BY DEF IntegerTypes
  <2>2. WireTable[form].UInt16MultiArray = Wire(4, 0, <<"MultiArrayLayout">>)
    BY RowsAreIn DEF ArrayWire
  <2> QED BY <2>1, <2>2, ElementsAre, LaidMatches
<1>6. Matches(form, m, IntegerTypes(form).UInt32, WireTable[form].UInt32)
  <2>1. IntegerTypes(form).UInt32 = <<N4>>
    BY DEF IntegerTypes
  <2>2. WireTable[form].UInt32 = Wire(4, 0, <<>>)
    BY RowsAreIn DEF NumberWire
  <2> QED BY <2>1, <2>2, <1>N4, NumberMatches
<1>7. Matches(form, m, IntegerTypes(form).UInt32MultiArray, WireTable[form].UInt32MultiArray)
  <2>1. IntegerTypes(form).UInt32MultiArray = Laid(Number(4))
    BY DEF IntegerTypes
  <2>2. WireTable[form].UInt32MultiArray = Wire(4, 0, <<"MultiArrayLayout">>)
    BY RowsAreIn DEF ArrayWire
  <2> QED BY <2>1, <2>2, ElementsAre, LaidMatches
<1>8. Matches(form, m, IntegerTypes(form).UInt64, WireTable[form].UInt64)
  <2>1. IntegerTypes(form).UInt64 = <<N8>>
    BY DEF IntegerTypes
  <2>2. WireTable[form].UInt64 = Wire(8, 0, <<>>)
    BY RowsAreIn DEF NumberWire
  <2> QED BY <2>1, <2>2, <1>N8, NumberMatches
<1>9. Matches(form, m, IntegerTypes(form).UInt64MultiArray, WireTable[form].UInt64MultiArray)
  <2>1. IntegerTypes(form).UInt64MultiArray = Laid(Number(8))
    BY DEF IntegerTypes
  <2>2. WireTable[form].UInt64MultiArray = Wire(4, 0, <<"MultiArrayLayout">>)
    BY RowsAreIn DEF ArrayWire
  <2> QED BY <2>1, <2>2, ElementsAre, LaidMatches
<1>10. Matches(form, m, IntegerTypes(form).UInt8, WireTable[form].UInt8)
  <2>1. IntegerTypes(form).UInt8 = <<N1>>
    BY DEF IntegerTypes
  <2>2. WireTable[form].UInt8 = Wire(1, 0, <<>>)
    BY RowsAreIn DEF NumberWire
  <2> QED BY <2>1, <2>2, <1>N1, NumberMatches
<1>11. Matches(form, m, IntegerTypes(form).UInt8MultiArray, WireTable[form].UInt8MultiArray)
  <2>1. IntegerTypes(form).UInt8MultiArray = <<Of("MultiArrayLayout"), Blob>>
    BY DEF IntegerTypes
  <2>2. WireTable[form].UInt8MultiArray = Wire(4, 0, <<"MultiArrayLayout">>)
    BY RowsAreIn DEF ArrayWire
  <2>3. Piece(form, m, <<Of("MultiArrayLayout"), Blob>>, m["MultiArrayLayout"] + 4,
          {u \in Types : Of(u) \in {Of("MultiArrayLayout"), Blob}})
    BY ONLY <1>MultiArrayLayout, <1>Blob, m \in Tables, PieceOf2
  <2>4. NestedMinimum(<<"MultiArrayLayout">>,
          m) = m["MultiArrayLayout"] /\ ToSet(<<"MultiArrayLayout">>) = {"MultiArrayLayout"}
    BY <1>MultiArrayLayout, NestedSizes, TupleSets
  <2>5. RowIs(form, m, Wire(4, 0, <<"MultiArrayLayout">>), 4
          + NestedMinimum(<<"MultiArrayLayout">>, m), ToSet(<<"MultiArrayLayout">>))
    BY <1>MultiArrayLayout, <2>4, RowsOfNested
  <2>6. m["MultiArrayLayout"] + 4 = 4 + NestedMinimum(<<"MultiArrayLayout">>, m)
    BY <1>MultiArrayLayout, <2>4
  <2>7. /\ ToSet(<<"MultiArrayLayout">>) \subseteq {u \in Types : Of(u) \in {Of("MultiArrayLayout"), Blob}}
        /\ ToSet(<<"MultiArrayLayout">>) \subseteq Nestable
    BY <1>MultiArrayLayout, <2>4
  <2> QED BY ONLY <2>1, <2>2, <2>3, <2>5, <2>6, <2>7, MatchesIf
<1> QED BY TypesOfTables, <1>1, <1>2, <1>3, <1>4, <1>5, <1>6, <1>7, <1>8, <1>9, <1>10,
      <1>11 DEF TypeNames

\* The table that the library keeps by hand is what its readers read: of every built-in type, in
\* both formats, and whatever the least sizes of the types inside of it are taken to be.
LEMMA TableMatches ==
  ASSUME NEW form \in Formats, NEW m \in Tables, NEW t \in ProfileTypes
  PROVE  Matches(form, m, ProfileFields[form][t], WireTable[form][t])
<1>1. ProfileFields[form] = FieldsIn(form) /\ t \in DOMAIN FieldsIn(form)
  BY ProfileTypesAre
<1>2. \A u \in DOMAIN FieldsIn(form) :
        \/ u \in DOMAIN MotionTypes(form) /\ FieldsIn(form)[u] = MotionTypes(form)[u]
        \/ u \in DOMAIN PoseTypes(form) /\ FieldsIn(form)[u] = PoseTypes(form)[u]
        \/ u \in DOMAIN TransformTypes(form) /\ FieldsIn(form)[u] = TransformTypes(form)[u]
        \/ u \in DOMAIN NavigationTypes(form) /\ FieldsIn(form)[u] = NavigationTypes(form)[u]
        \/ u \in DOMAIN CameraTypes(form) /\ FieldsIn(form)[u] = CameraTypes(form)[u]
        \/ u \in DOMAIN ImageTypes(form) /\ FieldsIn(form)[u] = ImageTypes(form)[u]
        \/ u \in DOMAIN JointTypes(form) /\ FieldsIn(form)[u] = JointTypes(form)[u]
        \/ u \in DOMAIN LaserTypes(form) /\ FieldsIn(form)[u] = LaserTypes(form)[u]
        \/ u \in DOMAIN CloudTypes(form) /\ FieldsIn(form)[u] = CloudTypes(form)[u]
        \/ u \in DOMAIN AmbientTypes(form) /\ FieldsIn(form)[u] = AmbientTypes(form)[u]
        \/ u \in DOMAIN ScalarTypes(form) /\ FieldsIn(form)[u] = ScalarTypes(form)[u]
        \/ u \in DOMAIN ArrayTypes(form) /\ FieldsIn(form)[u] = ArrayTypes(form)[u]
        \/ u \in DOMAIN IntegerTypes(form) /\ FieldsIn(form)[u] = IntegerTypes(form)[u]
  BY FieldsAreIn
<1>3. CASE t \in DOMAIN MotionTypes(form) /\ FieldsIn(form)[t] = MotionTypes(form)[t]
  <2>1. Matches(form, m, MotionTypes(form)[t], WireTable[form][t])
    BY <1>3, MotionTypesMatch
  <2> QED BY ONLY <1>1, <1>3, <2>1
<1>4. CASE t \in DOMAIN PoseTypes(form) /\ FieldsIn(form)[t] = PoseTypes(form)[t]
  <2>1. Matches(form, m, PoseTypes(form)[t], WireTable[form][t])
    BY <1>4, PoseTypesMatch
  <2> QED BY ONLY <1>1, <1>4, <2>1
<1>5. CASE t \in DOMAIN TransformTypes(form) /\ FieldsIn(form)[t] = TransformTypes(form)[t]
  <2>1. Matches(form, m, TransformTypes(form)[t], WireTable[form][t])
    BY <1>5, TransformTypesMatch
  <2> QED BY ONLY <1>1, <1>5, <2>1
<1>6. CASE t \in DOMAIN NavigationTypes(form) /\ FieldsIn(form)[t] = NavigationTypes(form)[t]
  <2>1. Matches(form, m, NavigationTypes(form)[t], WireTable[form][t])
    BY <1>6, NavigationTypesMatch
  <2> QED BY ONLY <1>1, <1>6, <2>1
<1>7. CASE t \in DOMAIN CameraTypes(form) /\ FieldsIn(form)[t] = CameraTypes(form)[t]
  <2>1. Matches(form, m, CameraTypes(form)[t], WireTable[form][t])
    BY <1>7, CameraTypesMatch
  <2> QED BY ONLY <1>1, <1>7, <2>1
<1>8. CASE t \in DOMAIN ImageTypes(form) /\ FieldsIn(form)[t] = ImageTypes(form)[t]
  <2>1. Matches(form, m, ImageTypes(form)[t], WireTable[form][t])
    BY <1>8, ImageTypesMatch
  <2> QED BY ONLY <1>1, <1>8, <2>1
<1>9. CASE t \in DOMAIN JointTypes(form) /\ FieldsIn(form)[t] = JointTypes(form)[t]
  <2>1. Matches(form, m, JointTypes(form)[t], WireTable[form][t])
    BY <1>9, JointTypesMatch
  <2> QED BY ONLY <1>1, <1>9, <2>1
<1>10. CASE t \in DOMAIN LaserTypes(form) /\ FieldsIn(form)[t] = LaserTypes(form)[t]
  <2>1. Matches(form, m, LaserTypes(form)[t], WireTable[form][t])
    BY <1>10, LaserTypesMatch
  <2> QED BY ONLY <1>1, <1>10, <2>1
<1>11. CASE t \in DOMAIN CloudTypes(form) /\ FieldsIn(form)[t] = CloudTypes(form)[t]
  <2>1. Matches(form, m, CloudTypes(form)[t], WireTable[form][t])
    BY <1>11, CloudTypesMatch
  <2> QED BY ONLY <1>1, <1>11, <2>1
<1>12. CASE t \in DOMAIN AmbientTypes(form) /\ FieldsIn(form)[t] = AmbientTypes(form)[t]
  <2>1. Matches(form, m, AmbientTypes(form)[t], WireTable[form][t])
    BY <1>12, AmbientTypesMatch
  <2> QED BY ONLY <1>1, <1>12, <2>1
<1>13. CASE t \in DOMAIN ScalarTypes(form) /\ FieldsIn(form)[t] = ScalarTypes(form)[t]
  <2>1. Matches(form, m, ScalarTypes(form)[t], WireTable[form][t])
    BY <1>13, ScalarTypesMatch
  <2> QED BY ONLY <1>1, <1>13, <2>1
<1>14. CASE t \in DOMAIN ArrayTypes(form) /\ FieldsIn(form)[t] = ArrayTypes(form)[t]
  <2>1. Matches(form, m, ArrayTypes(form)[t], WireTable[form][t])
    BY <1>14, ArrayTypesMatch
  <2> QED BY ONLY <1>1, <1>14, <2>1
<1>15. CASE t \in DOMAIN IntegerTypes(form) /\ FieldsIn(form)[t] = IntegerTypes(form)[t]
  <2>1. Matches(form, m, IntegerTypes(form)[t], WireTable[form][t])
    BY <1>15, IntegerTypesMatch
  <2> QED BY ONLY <1>1, <1>15, <2>1
<1> QED BY ONLY <1>1, <1>2, <1>3, <1>4, <1>5, <1>6, <1>7, <1>8, <1>9, <1>10, <1>11, <1>12, <1>13, <1>14, <1>15

\* What the types consist of is well formed.
LEMMA FieldsOfTypes ==
  ASSUME NEW form \in Formats, NEW t \in Types
  PROVE  FieldsOf(form, t) \in Seq(WireField)
<1> DEFINE m == [u \in Types |-> 0]
<1>1. m \in Tables
  BY DEF Tables
<1> HIDE DEF m
<1>2. CASE t \in DOMAIN Fields
  BY <1>2, FieldsAssumption DEF FieldsOf
<1>3. CASE t \notin DOMAIN Fields
  <2>1. t \in ProfileTypes
    BY <1>3 DEF Types
  <2>2. Matches(form, m, ProfileFields[form][t], WireTable[form][t])
    BY <1>1, <2>1, TableMatches
  <2> QED BY <1>3, <2>2 DEF FieldsOf, Matches
<1> QED BY <1>2, <1>3

\* A type that is held by value is one of the types, and not as deep.
LEMMA HeldTypesAre ==
  ASSUME NEW form \in Formats, NEW t \in Types
  PROVE  /\ HeldIn(FieldsOf(form, t)) \subseteq Types
         /\ \A u \in HeldIn(FieldsOf(form, t)) : Height[u] \in Nat /\ Height[t] \in Nat /\ Height[u] < Height[t]
<1>1. FieldsOf(form, t) \in Seq(WireField)
  BY FieldsOfTypes
<1>2. \A f \in ToSet(FieldsOf(form, t)) : f \in WireField
  BY <1>1 DEF ToSet
<1>3. HeldIn(FieldsOf(form, t)) \subseteq Types
  BY <1>2, FieldFacts, ElementFacts DEF HeldIn
<1>4. HeldIn(FieldsOf(form, t)) \subseteq HeldByValue(t)
  BY DEF HeldByValue
<1> QED BY <1>3, <1>4, HeightAssumption
=============================================================================
